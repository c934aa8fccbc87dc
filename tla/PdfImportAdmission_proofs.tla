---------------------- MODULE PdfImportAdmission_proofs ----------------------
(* Theorems about PdfImportAdmission, for every set of Web processes and of  *)
(* requests.                                                                 *)
EXTENDS PdfImportAdmission, TLAPS

(* releaseAll keeps the types of the symbol, the closure and the release. *)
LEMMA ReleaseAllType ==
  ASSUME TypeOK, NEW o \in Owner, NEW s \in Supervision,
         ReleaseAll(o, s)
  PROVE  /\ mem' \in [Web -> Owner \cup {None}]
         /\ sup' \in [Owner -> Supervision]
         /\ rel' \in [Owner -> {"no", "unlink", "untmp", "rmdir", "done"}]
<1>1. CASE s.transferred /\ ~s.released
  <2>1. [s EXCEPT !.released = TRUE] \in Supervision
    BY DEF Supervision
  <2>2. sup' \in [Owner -> Supervision]
    BY ZenonT(40), <1>1, <2>1 DEF ReleaseAll, TypeOK
  <2>3. mem' \in [Web -> Owner \cup {None}]
    <3>1. mem \in [Web -> Owner \cup {None}]
      BY DEF TypeOK
    <3>2. PICK m \in {None, mem[home[o]]} : mem' = [mem EXCEPT ![home[o]] = m]
      BY <1>1 DEF ReleaseAll
    <3>3. CASE home[o] \in Web
      BY <3>1, <3>2, <3>3
    <3>4. CASE home[o] \notin Web
      BY <3>1, <3>2, <3>4
    <3>5. QED
      BY <3>3, <3>4
  <2>4. QED
    BY <1>1, <2>2, <2>3 DEF ReleaseAll, TypeOK
<1>2. CASE ~(s.transferred /\ ~s.released)
  BY <1>2 DEF ReleaseAll, TypeOK
<1>3. QED
  BY <1>1, <1>2

(* Leaving a claim keeps the types of the program counter and the symbol. *)
LEMMA LeaveClaimType ==
  ASSUME TypeOK, NEW o \in Owner, LeaveClaim(o)
  PROVE  /\ mem' \in [Web -> Owner \cup {None}]
         /\ pc' \in [Owner -> PC]
  BY ZenonT(40) DEF LeaveClaim, Goto, TypeOK, PC

(* Setting a supervision flag keeps the closure's type. *)
LEMMA SupervisionFields ==
  ASSUME NEW s \in Supervision, NEW b \in BOOLEAN
  PROVE  /\ [s EXCEPT !.transferred = b] \in Supervision
         /\ [s EXCEPT !.settled = b] \in Supervision
         /\ [s EXCEPT !.deadline = b] \in Supervision
         /\ [s EXCEPT !.forceKill = b] \in Supervision
         /\ [s EXCEPT !.poll = b] \in Supervision
         /\ s.settled \in BOOLEAN
  BY DEF Supervision

(* The conjuncts of TypeOK, by the variables a step changes together. *)
LEMMA GotoType ==
  ASSUME TypeOK, NEW o \in Owner, NEW l \in PC, Goto(o, l)
  PROVE  pc' \in [Owner -> PC]
  BY DEF TypeOK, Goto

LEMMA PutRecordType ==
  ASSUME TypeOK, NEW p \in Place, NEW o \in Owner, NEW r \in Record, PutRecord(p, o, r)
  PROVE  json' \in [Place -> [Owner -> Record]] /\ aged' \subseteq Place
  BY DEF TypeOK, PutRecord

LEMMA KindType ==
  ASSUME TypeOK, NEW p \in Place, NEW k \in {"absent", "dir", "file"},
         kind' = [kind EXCEPT ![p] = k]
  PROVE  kind' \in [Place -> {"absent", "dir", "file"}]
  BY DEF TypeOK

LEMMA ClaimStepType ==
  ASSUME TypeOK, NEW o \in Owner, ClaimStep(o)
  PROVE  TypeOK'
<1> stage[o] \in Place /\ "guard" \in Place /\ "lock" \in Place
  BY DEF TypeOK, Place
<1> {"mkdir", "open", "write", "abort", "read", "unlink", "untmp", "rmdir", "unguard",
     "unguardRmdir", "setup", "end"} \subseteq PC
  BY DEF PC
<1> USE DEF claimVars, dirVars, workVars, timeVars
<1>1. CASE Mkdir(o)
  <2>1. kind' \in [Place -> {"absent", "dir", "file"}]
    BY <1>1, KindType DEF Mkdir, TypeOK
  <2>2. pc' \in [Owner -> PC]
    BY <1>1, GotoType DEF Mkdir
  <2>3. QED
    BY <1>1, <2>1, <2>2 DEF Mkdir, TypeOK
<1>2. CASE OpenRecord(o)
  <2>1. json' \in [Place -> [Owner -> Record]] /\ aged' \subseteq Place
    BY <1>2, PutRecordType DEF OpenRecord, TypeOK, Record
  <2>2. pc' \in [Owner -> PC]
    BY <1>2, GotoType DEF OpenRecord
  <2>3. QED
    BY <1>2, <2>1, <2>2 DEF OpenRecord, TypeOK
<1>3. CASE WriteRecord(o)
  <2>1. json' \in [Place -> [Owner -> Record]]
    <3>1. PICK r \in Record : json' = [json EXCEPT ![stage[o]][o] = r]
      BY <1>3 DEF WriteRecord, TypeOK, Record
    <3>2. QED
      BY <3>1 DEF TypeOK
  <2>2. pc' \in [Owner -> PC]
    BY <1>3, GotoType DEF WriteRecord
  <2>3. /\ stage' \in [Owner -> Place]
        /\ tries' \in [Owner -> Nat]
        /\ granted' \in [Owner -> BOOLEAN]
    <3>1. stage' = stage \/ stage' = [stage EXCEPT ![o] = "lock"]
      BY <1>3 DEF WriteRecord
    <3>2. tries' = tries \/ tries' = [tries EXCEPT ![o] = 0]
      BY <1>3 DEF WriteRecord
    <3>3. granted' = granted \/ granted' = [granted EXCEPT ![o] = TRUE]
      BY <1>3 DEF WriteRecord
    <3>4. stage' \in [Owner -> Place]
      BY SMTT(40), <3>1 DEF TypeOK
    <3>5. tries' \in [Owner -> Nat]
      BY SMTT(40), <3>2 DEF TypeOK
    <3>6. granted' \in [Owner -> BOOLEAN]
      BY <3>3 DEF TypeOK
    <3>7. QED
      BY <3>4, <3>5, <3>6
  <2>4. QED
    BY <1>3, <2>1, <2>2, <2>3 DEF WriteRecord, TypeOK
<1>4. CASE AbortClaim(o)
  <2>1. kind' \in [Place -> {"absent", "dir", "file"}]
    <3>1. PICK k \in {"absent", "dir", "file"} : kind' = [kind EXCEPT ![stage[o]] = k]
      BY <1>4 DEF AbortClaim, TypeOK
    <3>2. QED
      BY <3>1, KindType
  <2>2. QED
    BY <1>4, <2>1, LeaveClaimType DEF AbortClaim, TypeOK
<1>5. CASE ReadExisting(o)
  <2>1. ReadLock(stage[o]) \in Owner \cup {None}
    BY DEF ReadLock, Recorded
  <2>2. seen' \in [Owner -> Owner \cup {None}]
    BY ZenonT(40), <1>5, <2>1 DEF ReadExisting, TypeOK
  <2>3. /\ pc' \in [Owner -> PC]
        /\ mem' \in [Web -> Owner \cup {None}]
    BY <1>5, GotoType, LeaveClaimType DEF ReadExisting, TypeOK
  <2>4. QED
    BY <1>5, <2>2, <2>3 DEF ReadExisting, TypeOK
<1>6. CASE UnlinkStale(o)
  <2>1. json' \in [Place -> [Owner -> Record]] /\ aged' \subseteq Place
    <3>1. seen[o] \in Owner
      BY <1>6 DEF UnlinkStale, TypeOK
    <3>2. QED
      BY <1>6, <3>1, PutRecordType DEF UnlinkStale, TypeOK, Record
  <2>2. /\ pc' \in [Owner -> PC]
        /\ mem' \in [Web -> Owner \cup {None}]
    BY <1>6, GotoType, LeaveClaimType DEF UnlinkStale, TypeOK
  <2>3. QED
    BY <1>6, <2>1, <2>2 DEF UnlinkStale, TypeOK
<1>7. CASE UnlinkStaleTmp(o)
  BY <1>7, GotoType DEF UnlinkStaleTmp, TypeOK
<1>8. CASE RemoveStale(o)
  <2>1. kind' \in [Place -> {"absent", "dir", "file"}]
    BY <1>8, KindType DEF RemoveStale, TypeOK
  <2>2. tries' \in [Owner -> Nat]
    BY <1>8 DEF RemoveStale, TypeOK
  <2>3. /\ pc' \in [Owner -> PC]
        /\ mem' \in [Web -> Owner \cup {None}]
    BY <1>8, GotoType, LeaveClaimType DEF RemoveStale, TypeOK
  <2>4. QED
    BY <1>8, <2>1, <2>2, <2>3 DEF RemoveStale, TypeOK
<1>9. CASE UnlinkGuard(o)
  <2>1. json' \in [Place -> [Owner -> Record]] /\ aged' \subseteq Place
    BY <1>9, PutRecordType DEF UnlinkGuard, TypeOK, Record
  <2>2. pc' \in [Owner -> PC]
    BY <1>9, GotoType DEF UnlinkGuard
  <2>3. mem' \in [Web -> Owner \cup {None}]
    BY <1>9 DEF UnlinkGuard, TypeOK
  <2>4. QED
    BY <1>9, <2>1, <2>2, <2>3 DEF UnlinkGuard, TypeOK
<1>10. CASE RemoveGuard(o)
  <2>1. kind' \in [Place -> {"absent", "dir", "file"}]
    BY <1>10 DEF RemoveGuard, TypeOK
  <2>2. pc' \in [Owner -> PC]
    BY <1>10, GotoType DEF RemoveGuard
  <2>3. mem' \in [Web -> Owner \cup {None}]
    BY <1>10 DEF RemoveGuard, TypeOK
  <2>4. QED
    BY <1>10, <2>1, <2>2, <2>3 DEF RemoveGuard, TypeOK
<1>11. CASE NotReady(o)
  BY <1>11, LeaveClaimType DEF NotReady, TypeOK
<1>12. CASE ListRemnants(o)
  <2>1. seen' \in [Owner -> Owner \cup {None}]
    <3>1. seen' = seen \/ \E a \in Owner : seen' = [seen EXCEPT ![o] = a]
      BY <1>12 DEF ListRemnants
    <3>2. QED
      BY <3>1 DEF TypeOK
  <2>2. /\ pc' \in [Owner -> PC]
        /\ mem' \in [Web -> Owner \cup {None}]
    BY <1>12, GotoType, LeaveClaimType DEF ListRemnants, TypeOK
  <2>3. QED
    BY <1>12, <2>1, <2>2 DEF ListRemnants, TypeOK
<1>13. QED
  BY <1>1, <1>2, <1>3, <1>4, <1>5, <1>6, <1>7, <1>8, <1>9, <1>10, <1>11, <1>12 DEF ClaimStep

LEMMA ImportStepType ==
  ASSUME TypeOK, NEW o \in Owner, ImportStep(o)
  PROVE  TypeOK'
<1> "lock" \in Place /\ {"tmp", "check", "rename", "dropTmp", "kill", "transfer", "end"} \subseteq PC
  BY DEF Place, PC
<1> USE DEF claimVars, dirVars, workVars, timeVars
<1>1. CASE RejectImport(o)
  <2>1. pc' \in [Owner -> PC]
    BY <1>1, GotoType DEF RejectImport
  <2>2. QED
    BY <1>1, <2>1 DEF RejectImport, TypeOK
<1>2. CASE SpawnWorker(o)
  BY <1>2, GotoType DEF SpawnWorker, TypeOK
<1>3. CASE WriteTmp(o)
  BY <1>3, GotoType DEF WriteTmp, TypeOK
<1>4. CASE CheckOwner(o)
  BY <1>4, GotoType DEF CheckOwner, TypeOK
<1>5. CASE RenameTmp(o)
  <2>1. json' \in [Place -> [Owner -> Record]] /\ aged' \subseteq Place
    BY <1>5, PutRecordType DEF RenameTmp, TypeOK, Record
  <2>2. pc' \in [Owner -> PC]
    BY <1>5, GotoType DEF RenameTmp
  <2>3. QED
    BY <1>5, <2>1, <2>2 DEF RenameTmp, TypeOK
<1>6. CASE DropTmp(o)
  BY <1>6, GotoType DEF DropTmp, TypeOK
<1>7. CASE Transfer(o)
  <2> DEFINE s == [sup[o] EXCEPT !.transferred = TRUE, !.deadline = ~sup[o].settled]
  <2>1. s \in Supervision
    BY ZenonT(40) DEF TypeOK, Supervision
  <2>2. /\ sup' \in [Owner -> Supervision]
        /\ mem' \in [Web -> Owner \cup {None}]
        /\ rel' \in [Owner -> {"no", "unlink", "untmp", "rmdir", "done"}]
    <3>1. CASE ReleaseAll(o, s)
      BY <3>1, <2>1, ReleaseAllType
    <3>2. CASE sup' = [sup EXCEPT ![o] = s] /\ UNCHANGED <<mem, rel>>
      BY <3>2, <2>1 DEF TypeOK
    <3>3. QED
      BY <1>7, <3>1, <3>2 DEF Transfer
  <2>3. pc' \in [Owner -> PC] /\ killed' \subseteq Owner
    BY <1>7, GotoType DEF Transfer, TypeOK
  <2>4. QED
    BY <1>7, <2>2, <2>3 DEF Transfer, TypeOK
<1>8. QED
  BY <1>1, <1>2, <1>3, <1>4, <1>5, <1>6, <1>7 DEF ImportStep

LEMMA TimerStepType ==
  ASSUME TypeOK, NEW o \in Owner, TimerStep(o)
  PROVE  TypeOK'
<1> sup[o] \in Supervision
  BY DEF TypeOK
<1> USE DEF claimVars, dirVars, workVars, timeVars
<1> DEFINE Typed == /\ sup' \in [Owner -> Supervision]
                   /\ mem' \in [Web -> Owner \cup {None}]
                   /\ rel' \in [Owner -> {"no", "unlink", "untmp", "rmdir", "done"}]
<1>0. ASSUME NEW s \in Supervision,
             ReleaseAll(o, s) \/ (sup' = [sup EXCEPT ![o] = s] /\ UNCHANGED <<mem, rel>>)
      PROVE  Typed
  BY SMTT(40), <1>0, ReleaseAllType DEF TypeOK
<1>1. CASE Settle(o)
  <2> DEFINE s == [sup[o] EXCEPT !.settled = TRUE, !.deadline = FALSE]
  <2>1. s \in Supervision /\ [s EXCEPT !.forceKill = TRUE] \in Supervision
    BY DEF Supervision
  <2>2. Typed
    <3> HIDE DEF s, Typed
    <3>1. CASE ReleaseAll(o, s) \/ (sup' = [sup EXCEPT ![o] = s] /\ UNCHANGED <<mem, rel>>)
      BY <3>1, <2>1, <1>0
    <3>2. CASE sup' = [sup EXCEPT ![o] = [s EXCEPT !.forceKill = TRUE]] /\ UNCHANGED <<mem, rel>>
      BY <3>2, <2>1, <1>0
    <3>3. QED
      BY <1>1, <3>1, <3>2 DEF Settle, s
  <2>3. QED
    BY <1>1, <2>2 DEF Settle, TypeOK
<1>2. CASE DeadlineFires(o)
  <2>1. [sup[o] EXCEPT !.deadline = FALSE, !.forceKill = TRUE] \in Supervision
    BY DEF Supervision
  <2>2. QED
    BY <1>2, <2>1 DEF DeadlineFires, TypeOK
<1>3. CASE ForceKillFires(o)
  <2> DEFINE s == [sup[o] EXCEPT !.forceKill = FALSE]
  <2>1. s \in Supervision /\ [s EXCEPT !.poll = TRUE] \in Supervision
    BY DEF Supervision
  <2>2. Typed
    <3> HIDE DEF s, Typed
    <3>1. CASE ReleaseAll(o, s)
      BY <3>1, <2>1, <1>0
    <3>2. CASE sup' = [sup EXCEPT ![o] = [s EXCEPT !.poll = TRUE]] /\ UNCHANGED <<mem, rel>>
      BY <3>2, <2>1, <1>0
    <3>3. QED
      BY <1>3, <3>1, <3>2 DEF ForceKillFires, s
  <2>3. QED
    BY <1>3, <2>2 DEF ForceKillFires, TypeOK
<1>4. CASE PollFires(o)
  <2>1. [sup[o] EXCEPT !.poll = FALSE] \in Supervision
    BY DEF Supervision
  <2>2. Typed
    BY <1>4, <2>1, <1>0 DEF PollFires
  <2>3. QED
    BY <1>4, <2>2 DEF PollFires, TypeOK
<1>5. QED
  BY <1>1, <1>2, <1>3, <1>4 DEF TimerStep

LEMMA ReleaseStepType ==
  ASSUME TypeOK, NEW o \in Owner, ReleaseStep(o)
  PROVE  TypeOK'
<1> "lock" \in Place
  BY DEF Place
<1> USE DEF claimVars, dirVars, workVars, timeVars
<1>1. CASE ReleaseUnlink(o)
  <2>1. json' \in [Place -> [Owner -> Record]] /\ aged' \subseteq Place
    BY <1>1, PutRecordType DEF ReleaseUnlink, TypeOK, Record
  <2>2. QED
    BY <1>1, <2>1 DEF ReleaseUnlink, TypeOK
<1>2. CASE ReleaseTmp(o)
  BY <1>2 DEF ReleaseTmp, TypeOK
<1>3. CASE ReleaseRmdir(o)
  <2>1. PICK k \in {"absent", "dir", "file"} : kind' = [kind EXCEPT !["lock"] = k]
    BY <1>3 DEF ReleaseRmdir, TypeOK
  <2>2. kind' \in [Place -> {"absent", "dir", "file"}]
    BY <2>1, KindType
  <2>3. QED
    BY <1>3, <2>2 DEF ReleaseRmdir, TypeOK
<1>4. QED
  BY <1>1, <1>2, <1>3 DEF ReleaseStep

LEMMA EnvironmentType ==
  ASSUME TypeOK,
         \/ \E w \in Web, o \in Owner : ClaimMemory(w, o)
         \/ \E o \in Owner : WorkerStep(o) \/ SetupExpires(o)
         \/ \E w \in Web : CrashWeb(w)
         \/ \E p \in Place : DirectoryAges(p)
  PROVE  TypeOK'
<1> USE DEF claimVars, dirVars, workVars, timeVars
<1>1. ASSUME NEW w \in Web, NEW o \in Owner, ClaimMemory(w, o)
      PROVE  TypeOK'
  <2>1. pc' \in [Owner -> PC]
    BY <1>1, GotoType DEF ClaimMemory, PC
  <2>2. QED
    BY <1>1, <2>1 DEF ClaimMemory, TypeOK
<1>2. ASSUME NEW o \in Owner, WorkerStep(o)
      PROVE  TypeOK'
  BY ZenonT(40), <1>2 DEF WorkerStep, LeaderExits, DescendantsExit, TypeOK
<1>3. ASSUME NEW o \in Owner, SetupExpires(o)
      PROVE  TypeOK'
  BY <1>3 DEF SetupExpires, TypeOK
<1>4. ASSUME NEW w \in Web, CrashWeb(w)
      PROVE  TypeOK'
  <2>1. pc' \in [Owner -> PC]
    BY <1>4 DEF CrashWeb, TypeOK, PC
  <2>2. sup' \in [Owner -> Supervision]
    BY <1>4 DEF CrashWeb, TypeOK, Supervision, NoSupervision
  <2>3. QED
    BY <1>4, <2>1, <2>2 DEF CrashWeb, TypeOK
<1>5. ASSUME NEW p \in Place, DirectoryAges(p)
      PROVE  TypeOK'
  BY <1>5 DEF DirectoryAges, TypeOK
<1>6. QED
  BY <1>1, <1>2, <1>3, <1>4, <1>5

(* Type correctness: whatever the interleaving, the crashes and the faults,  *)
(* the directories, program counters and supervision closures stay within    *)
(* their types.                                                              *)
THEOREM TypeCorrect == Spec => []TypeOK
<1>1. Init => TypeOK
  BY DEF Init, TypeOK, PC, Place, Record, Supervision, NoSupervision
<1>2. TypeOK /\ [Next]_vars => TypeOK'
  <2> SUFFICES ASSUME TypeOK, [Next]_vars
               PROVE  TypeOK'
    OBVIOUS
  <2>1. CASE Next
    BY <2>1, ClaimStepType, ImportStepType, TimerStepType, ReleaseStepType, EnvironmentType DEF Next
  <2>2. CASE UNCHANGED vars
    BY <2>2 DEF TypeOK, vars, claimVars, dirVars, workVars, timeVars
  <2>3. QED
    BY <2>1, <2>2
<1>3. QED
  BY <1>1, <1>2, PTL DEF Spec

-----------------------------------------------------------------------------
(* What the supervision closure knows of the worker.  A request that has not *)
(* spawned has no worker and no exit event; once the leader's exit was seen  *)
(* with descendants alive, SIGKILL or the poll is pending; and when the      *)
(* request is over some timer is armed.                                      *)
Unspawned == {"idle", "mkdir", "open", "write", "abort", "read", "unlink", "untmp",
              "rmdir", "unguard", "unguardRmdir", "setup"}
SupervisedInv ==
  \A o \in Owner :
    /\ home[o] = None => pc[o] = "idle"
    /\ pc[o] \in Unspawned => group[o] = "none"
    /\ group[o] = "none" => ~sup[o].settled
    /\ Alive(o) /\ Live(o) /\ sup[o].settled => sup[o].forceKill \/ sup[o].poll
    /\ Alive(o) /\ Live(o) /\ pc[o] = "end"
         => sup[o].deadline \/ sup[o].forceKill \/ sup[o].poll

(* releaseAll sets no timer and clears none. *)
LEMMA ReleaseAllSup ==
  ASSUME TypeOK, NEW o \in Owner, NEW s \in Supervision, ReleaseAll(o, s)
  PROVE  \E r \in Supervision :
           /\ sup' = [sup EXCEPT ![o] = r]
           /\ r.settled = s.settled /\ r.deadline = s.deadline
           /\ r.forceKill = s.forceKill /\ r.poll = s.poll
<1>1. CASE s.transferred /\ ~s.released
  <2>1. [s EXCEPT !.released = TRUE] \in Supervision
    BY DEF Supervision
  <2>2. QED
    BY <1>1, <2>1 DEF ReleaseAll, Supervision
<1>2. CASE ~(s.transferred /\ ~s.released)
  BY <1>2 DEF ReleaseAll
<1>3. QED
  BY <1>1, <1>2

(* The steps before the spawn leave the worker and its closure alone. *)
LEMMA ClaimStepSupervised ==
  ASSUME TypeOK, SupervisedInv, NEW o \in Owner, ClaimStep(o)
  PROVE  SupervisedInv'
<1>1. pc[o] \in Unspawned \ {"idle", "setup"}
  BY DEF ClaimStep, NotReady, Mkdir, OpenRecord, WriteRecord, AbortClaim, ReadExisting, ListRemnants, UnlinkStale,
         UnlinkStaleTmp, RemoveStale, UnlinkGuard, RemoveGuard, Unspawned
<1>2. UNCHANGED <<home, workVars, timeVars>>
  BY DEF ClaimStep, NotReady, Mkdir, OpenRecord, WriteRecord, AbortClaim, ReadExisting, ListRemnants, UnlinkStale,
         UnlinkStaleTmp, RemoveStale, UnlinkGuard, RemoveGuard, claimVars
<1>3. \E l \in PC \ {"idle"} : pc' = [pc EXCEPT ![o] = l]
  BY DEF ClaimStep, NotReady, Mkdir, OpenRecord, WriteRecord, AbortClaim, ReadExisting, ListRemnants, UnlinkStale,
         UnlinkStaleTmp, RemoveStale, UnlinkGuard, RemoveGuard, LeaveClaim, Goto, PC
<1>4. QED
  BY <1>1, <1>2, <1>3 DEF SupervisedInv, TypeOK, Alive, Live, Unspawned, workVars, timeVars

(* The spawn finds no worker; the transfer arms the deadline unless the exit *)
(* was already seen.                                                         *)
LEMMA ImportStepSupervised ==
  ASSUME TypeOK, SupervisedInv, NEW o \in Owner, ImportStep(o)
  PROVE  SupervisedInv'
<1> USE DEF claimVars, dirVars, workVars, timeVars
<1>1. CASE RejectImport(o)
  <2>1. group[o] = "none"
    BY <1>1 DEF RejectImport, SupervisedInv, Unspawned
  <2>2. QED
    BY <1>1, <2>1 DEF RejectImport, Goto, SupervisedInv, TypeOK, Alive, Live, Unspawned
<1>2. CASE SpawnWorker(o)
  BY <1>2 DEF SpawnWorker, Goto, SupervisedInv, TypeOK, Alive, Live, Unspawned
<1>3. CASE WriteTmp(o) \/ CheckOwner(o) \/ RenameTmp(o) \/ DropTmp(o)
  <2>1. /\ pc[o] \in {"tmp", "check", "rename", "dropTmp"}
        /\ UNCHANGED <<home, group, sup, crashed>>
        /\ \E l \in {"check", "rename", "dropTmp", "kill", "transfer"} : pc' = [pc EXCEPT ![o] = l]
    BY <1>3 DEF WriteTmp, CheckOwner, RenameTmp, DropTmp, Goto
  <2>2. QED
    BY <2>1 DEF SupervisedInv, TypeOK, Alive, Live, Unspawned
<1>4. CASE Transfer(o)
  <2> DEFINE s == [sup[o] EXCEPT !.transferred = TRUE, !.deadline = ~sup[o].settled]
  <2>1. s \in Supervision
    BY ZenonT(40) DEF TypeOK, Supervision
  <2>2. PICK r \in Supervision : /\ sup' = [sup EXCEPT ![o] = r]
                                 /\ r.settled = s.settled /\ r.deadline = s.deadline
                                 /\ r.forceKill = s.forceKill /\ r.poll = s.poll
    <3> HIDE DEF s
    <3>1. ReleaseAll(o, s) \/ sup' = [sup EXCEPT ![o] = s]
      BY <1>4 DEF Transfer, s
    <3>2. QED
      BY <2>1, <3>1, ReleaseAllSup
  <2>3. /\ s.settled = sup[o].settled /\ s.deadline = ~sup[o].settled
        /\ s.forceKill = sup[o].forceKill /\ s.poll = sup[o].poll
    BY DEF TypeOK, Supervision
  <2>4. /\ pc[o] \in {"transfer", "kill"} /\ pc' = [pc EXCEPT ![o] = "end"]
        /\ UNCHANGED <<home, group, crashed>>
    BY <1>4 DEF Transfer, Goto
  <2>5. QED
    <3> HIDE DEF s
    <3>1. ASSUME NEW a \in Owner, a # o
          PROVE  sup'[a] = sup[a] /\ pc'[a] = pc[a]
      BY <2>2, <2>4, <3>1 DEF TypeOK
    <3>2. /\ sup'[o] = r /\ pc'[o] = "end"
          /\ r.settled = sup[o].settled /\ r.deadline = ~sup[o].settled
          /\ r.forceKill = sup[o].forceKill /\ r.poll = sup[o].poll
      BY <2>2, <2>3, <2>4 DEF TypeOK
    <3>3. QED
      BY ZenonT(40), <2>4, <3>1, <3>2 DEF SupervisedInv, Alive, Live, Unspawned
<1>5. QED
  BY <1>1, <1>2, <1>3, <1>4 DEF ImportStep

(* The last timer is only given up when the group is gone. *)
LEMMA TimerStepSupervised ==
  ASSUME TypeOK, SupervisedInv, NEW o \in Owner, TimerStep(o)
  PROVE  SupervisedInv'
<1> USE DEF claimVars, dirVars, workVars, timeVars
<1> sup[o] \in Supervision
  BY DEF TypeOK
<1>1. UNCHANGED <<pc, home, group, crashed>> /\ Live(o)
  BY DEF TimerStep, Settle, DeadlineFires, ForceKillFires, PollFires
<1>2. ASSUME NEW r \in Supervision, sup' = [sup EXCEPT ![o] = r],
             group[o] = "none" => ~r.settled,
             Alive(o) => r.forceKill \/ r.poll
      PROVE  SupervisedInv'
  <2>1. sup'[o] = r /\ \A a \in Owner : a # o => sup'[a] = sup[a]
    BY <1>2 DEF TypeOK
  <2>2. QED
    BY <1>1, <1>2, <2>1 DEF SupervisedInv, Alive, Live
<1>3. CASE Settle(o)
  <2> DEFINE s == [sup[o] EXCEPT !.settled = TRUE, !.deadline = FALSE]
             k == [s EXCEPT !.forceKill = TRUE]
  <2>1. /\ s \in Supervision /\ s.forceKill = sup[o].forceKill /\ s.poll = sup[o].poll
        /\ k \in Supervision /\ k.forceKill
    BY DEF Supervision
  <2>2. group[o] # "none"
    BY <1>3 DEF Settle
  <2> HIDE DEF s, k
  <2>3. CASE s.forceKill \/ s.poll
    <3>1. sup' = [sup EXCEPT ![o] = s]
      BY <1>3, <2>3 DEF Settle, s
    <3>2. QED
      BY <1>2, <2>1, <2>2, <2>3, <3>1
  <2>4. CASE ~(s.forceKill \/ s.poll) /\ Alive(o)
    <3>1. sup' = [sup EXCEPT ![o] = k]
      BY <1>3, <2>4 DEF Settle, s, k
    <3>2. QED
      BY <1>2, <2>1, <2>2, <3>1
  <2>5. CASE ~(s.forceKill \/ s.poll) /\ ~Alive(o)
    <3>1. ReleaseAll(o, s)
      BY <1>3, <2>5 DEF Settle, s
    <3>2. QED
      BY <1>2, <2>1, <2>2, <2>5, <3>1, ReleaseAllSup
  <2>6. QED
    BY <2>3, <2>4, <2>5
<1>4. CASE DeadlineFires(o)
  <2>1. /\ [sup[o] EXCEPT !.deadline = FALSE, !.forceKill = TRUE] \in Supervision
        /\ [sup[o] EXCEPT !.deadline = FALSE, !.forceKill = TRUE].forceKill
        /\ [sup[o] EXCEPT !.deadline = FALSE, !.forceKill = TRUE].settled = sup[o].settled
    BY DEF Supervision
  <2>2. group[o] = "none" => ~sup[o].settled
    BY DEF SupervisedInv
  <2>3. sup' = [sup EXCEPT ![o] = [sup[o] EXCEPT !.deadline = FALSE, !.forceKill = TRUE]]
    BY <1>4 DEF DeadlineFires
  <2>4. QED
    BY <1>2, <2>1, <2>2, <2>3
<1>5. CASE ForceKillFires(o)
  <2> DEFINE s == [sup[o] EXCEPT !.forceKill = FALSE]
             p == [s EXCEPT !.poll = TRUE]
  <2>1. /\ s \in Supervision /\ s.settled = sup[o].settled
        /\ p \in Supervision /\ p.settled = sup[o].settled /\ p.poll
    BY DEF Supervision
  <2>2. group[o] = "none" => ~sup[o].settled
    BY DEF SupervisedInv
  <2> HIDE DEF s, p
  <2>3. CASE Alive(o)
    <3>1. sup' = [sup EXCEPT ![o] = p]
      BY <1>5, <2>3 DEF ForceKillFires, s, p
    <3>2. QED
      BY <1>2, <2>1, <2>2, <3>1
  <2>4. CASE ~Alive(o)
    <3>1. ReleaseAll(o, s)
      BY <1>5, <2>4 DEF ForceKillFires, s
    <3>2. QED
      BY <1>2, <2>1, <2>2, <2>4, <3>1, ReleaseAllSup
  <2>5. QED
    BY <2>3, <2>4
<1>6. CASE PollFires(o)
  <2> DEFINE s == [sup[o] EXCEPT !.poll = FALSE]
  <2>1. s \in Supervision /\ s.settled = sup[o].settled
    BY DEF Supervision
  <2>2. group[o] = "none" => ~sup[o].settled
    BY DEF SupervisedInv
  <2> HIDE DEF s
  <2>3. ~Alive(o) /\ ReleaseAll(o, s)
    BY <1>6 DEF PollFires, s
  <2>4. QED
    BY <1>2, <2>1, <2>2, <2>3, ReleaseAllSup
<1>7. QED
  BY <1>3, <1>4, <1>5, <1>6 DEF TimerStep

LEMMA OtherStepSupervised ==
  ASSUME TypeOK, SupervisedInv,
         \/ \E w \in Web, o \in Owner : ClaimMemory(w, o)
         \/ \E o \in Owner : ReleaseStep(o) \/ WorkerStep(o) \/ SetupExpires(o)
         \/ \E w \in Web : CrashWeb(w)
         \/ \E p \in Place : DirectoryAges(p)
  PROVE  SupervisedInv'
<1> USE DEF claimVars, dirVars, workVars, timeVars
<1>1. ASSUME NEW w \in Web, NEW o \in Owner, ClaimMemory(w, o)
      PROVE  SupervisedInv'
  <2>1. group[o] = "none"
    BY <1>1 DEF ClaimMemory, SupervisedInv, Unspawned
  <2>2. w # None
    BY NoneAssumption
  <2>3. QED
    BY <1>1, <2>1, <2>2 DEF ClaimMemory, Goto, SupervisedInv, TypeOK, Alive, Live, Unspawned
<1>2. ASSUME NEW o \in Owner, ReleaseStep(o) \/ SetupExpires(o)
      PROVE  SupervisedInv'
  <2>1. UNCHANGED <<pc, home, group, sup, crashed>>
    BY <1>2 DEF ReleaseStep, ReleaseUnlink, ReleaseTmp, ReleaseRmdir, SetupExpires
  <2>2. QED
    BY <2>1 DEF SupervisedInv, Alive, Live
<1>3. ASSUME NEW o \in Owner, WorkerStep(o)
      PROVE  SupervisedInv'
  <2>1. /\ Alive(o) /\ group[o] # "none"
        /\ \E g \in {"leaderless", "gone"} : group' = [group EXCEPT ![o] = g]
        /\ UNCHANGED <<pc, home, sup, crashed>>
    BY <1>3 DEF WorkerStep, LeaderExits, DescendantsExit, Alive
  <2>2. QED
    BY <2>1 DEF SupervisedInv, TypeOK, Alive, Live
<1>4. ASSUME NEW w \in Web, CrashWeb(w)
      PROVE  SupervisedInv'
  <2> DEFINE lost == {o \in Owner : home[o] = w /\ Live(o)}
  <2>1. /\ \A o \in lost : pc'[o] = "end" /\ ~sup'[o].settled /\ ~Live(o)' /\ home[o] # None
        /\ \A o \in Owner \ lost : pc'[o] = pc[o] /\ sup'[o] = sup[o] /\ Live(o)' = Live(o)
        /\ home' = home /\ group' = group
    BY <1>4 DEF CrashWeb, NoSupervision, Live
  <2>2. QED
    BY <2>1 DEF SupervisedInv, Alive, Live, Unspawned
<1>5. ASSUME NEW p \in Place, DirectoryAges(p)
      PROVE  SupervisedInv'
  BY <1>5 DEF DirectoryAges, SupervisedInv, Alive, Live
<1>6. QED
  BY <1>1, <1>2, <1>3, <1>4, <1>5

LEMMA SupervisedHolds == Spec => []SupervisedInv
<1>1. Init => SupervisedInv
  BY DEF Init, SupervisedInv, NoSupervision, Alive
<1>2. TypeOK /\ SupervisedInv /\ [Next]_vars => SupervisedInv'
  <2> SUFFICES ASSUME TypeOK, SupervisedInv, [Next]_vars
               PROVE  SupervisedInv'
    OBVIOUS
  <2>1. CASE Next
    BY <2>1, ClaimStepSupervised, ImportStepSupervised, TimerStepSupervised, OtherStepSupervised
       DEF Next
  <2>2. CASE UNCHANGED vars
    BY <2>2 DEF SupervisedInv, Alive, Live, vars, claimVars, dirVars, workVars, timeVars
  <2>3. QED
    BY <2>1, <2>2
<1>3. QED
  BY <1>1, <1>2, TypeCorrect, PTL DEF Spec

(* Under every fault, the lost admission of a slow request included, a live  *)
(* Web process never leaves a worker of a finished request without a timer.  *)
THEOREM WorkersSupervised == Spec => []WorkerSupervised
<1>1. SupervisedInv => WorkerSupervised
  BY DEF SupervisedInv, WorkerSupervised
<1>2. QED
  BY <1>1, SupervisedHolds, PTL

-----------------------------------------------------------------------------
(* Release after exit.  A poll is only armed once the request is over, so a  *)
(* transfer that finds the exit already seen and no SIGKILL pending finds an *)
(* empty group.                                                              *)
ClosureInv ==
  \A o \in Owner :
    /\ o \in crashed => pc[o] = "end" /\ rel[o] = "done"
    /\ rel[o] # "no" => pc[o] = "end"
    /\ sup[o].transferred => pc[o] = "end"
    /\ sup[o].poll => pc[o] = "end"

(* releaseAll leaves every other request's closure and release alone. *)
LEMMA ReleaseAllFrame ==
  ASSUME TypeOK, NEW o \in Owner, NEW s \in Supervision, ReleaseAll(o, s)
  PROVE  /\ \A a \in Owner : a # o => sup'[a] = sup[a] /\ rel'[a] = rel[a]
         /\ sup'[o] \in Supervision
         /\ sup'[o].transferred = s.transferred /\ sup'[o].poll = s.poll
         /\ rel'[o] = rel[o] \/ (rel'[o] = "unlink" /\ s.transferred)
<1>1. CASE s.transferred /\ ~s.released
  <2> DEFINE t == [s EXCEPT !.released = TRUE]
  <2>1. t \in Supervision /\ t.transferred = s.transferred /\ t.poll = s.poll
    BY DEF Supervision
  <2>2. sup' = [sup EXCEPT ![o] = t] /\ rel' = [rel EXCEPT ![o] = "unlink"]
    BY <1>1 DEF ReleaseAll
  <2>3. DOMAIN sup = Owner /\ DOMAIN rel = Owner
    BY DEF TypeOK
  <2> HIDE DEF t
  <2>4. QED
    BY <1>1, <2>1, <2>2, <2>3
<1>2. CASE ~(s.transferred /\ ~s.released)
  BY <1>2 DEF ReleaseAll, TypeOK
<1>3. QED
  BY <1>1, <1>2

(* The timers, one by one: what a firing does to its own closure, and that a *)
(* release started by one finds the group gone.                              *)
LEMMA TimerStepCloses ==
  ASSUME "slow_record" \notin Faults, TypeOK, ClosureInv, NEW o \in Owner, TimerStep(o)
  PROVE  /\ \A a \in Owner : a # o => sup'[a] = sup[a] /\ rel'[a] = rel[a]
         /\ sup'[o].transferred = sup[o].transferred
         /\ sup'[o].poll => sup[o].poll \/ pc[o] = "end"
         /\ rel'[o] = rel[o] \/ (rel'[o] = "unlink" /\ pc[o] = "end" /\ ~Alive(o))
         /\ UNCHANGED <<pc, claimVars, dirVars, group, timeVars>> /\ Live(o)
<1> sup[o] \in Supervision
  BY DEF TypeOK
<1>1. CASE Settle(o)
  <2> DEFINE s == [sup[o] EXCEPT !.settled = TRUE, !.deadline = FALSE]
             k == [s EXCEPT !.forceKill = TRUE]
  <2>1. /\ s \in Supervision /\ s.transferred = sup[o].transferred /\ s.poll = sup[o].poll
        /\ k \in Supervision /\ k.transferred = sup[o].transferred /\ k.poll = sup[o].poll
    BY DEF Supervision
  <2>2. UNCHANGED <<pc, claimVars, dirVars, group, timeVars>> /\ Live(o)
    BY <1>1 DEF Settle
  <2>3. \/ ReleaseAll(o, s) /\ ~Alive(o)
        \/ sup' = [sup EXCEPT ![o] = s] /\ UNCHANGED rel
        \/ sup' = [sup EXCEPT ![o] = k] /\ UNCHANGED rel
    BY <1>1 DEF Settle
  <2> HIDE DEF s, k
  <2>4. QED
    BY <2>1, <2>2, <2>3, ReleaseAllFrame DEF ClosureInv, TypeOK
<1>2. CASE DeadlineFires(o)
  <2> DEFINE k == [sup[o] EXCEPT !.deadline = FALSE, !.forceKill = TRUE]
  <2>1. k \in Supervision /\ k.transferred = sup[o].transferred /\ k.poll = sup[o].poll
    BY DEF Supervision
  <2>2. sup' = [sup EXCEPT ![o] = k]
    BY <1>2 DEF DeadlineFires
  <2> HIDE DEF k
  <2>3. QED
    BY <1>2, <2>1, <2>2 DEF DeadlineFires, TypeOK, claimVars, dirVars, timeVars
<1>3. CASE ForceKillFires(o)
  <2> DEFINE s == [sup[o] EXCEPT !.forceKill = FALSE]
             k == [s EXCEPT !.poll = TRUE]
  <2>1. /\ s \in Supervision /\ s.transferred = sup[o].transferred /\ s.poll = sup[o].poll
        /\ k \in Supervision /\ k.transferred = sup[o].transferred
    BY DEF Supervision
  <2>2. UNCHANGED <<pc, claimVars, dirVars, group, timeVars>> /\ Live(o) /\ pc[o] = "end"
    BY <1>3 DEF ForceKillFires
  <2>3. \/ ReleaseAll(o, s) /\ ~Alive(o)
        \/ sup' = [sup EXCEPT ![o] = k] /\ UNCHANGED rel
    BY <1>3 DEF ForceKillFires
  <2> HIDE DEF s, k
  <2>4. QED
    BY <2>1, <2>2, <2>3, ReleaseAllFrame DEF TypeOK
<1>4. CASE PollFires(o)
  <2> DEFINE s == [sup[o] EXCEPT !.poll = FALSE]
  <2>1. s \in Supervision /\ s.transferred = sup[o].transferred /\ ~s.poll
    BY DEF Supervision
  <2>2. UNCHANGED <<pc, claimVars, dirVars, group, timeVars>> /\ Live(o) /\ ~Alive(o)
    BY <1>4 DEF PollFires
  <2>3. ReleaseAll(o, s)
    BY <1>4 DEF PollFires
  <2> HIDE DEF s
  <2>4. QED
    BY <2>1, <2>2, <2>3, ReleaseAllFrame DEF ClosureInv
<1>5. QED
  BY <1>1, <1>2, <1>3, <1>4 DEF TimerStep

(* The transfer of a request whose pid is recorded. *)
LEMMA TransferCloses ==
  ASSUME TypeOK, SupervisedInv, ClosureInv, NEW o \in Owner, Transfer(o)
  PROVE  /\ \A a \in Owner : a # o => sup'[a] = sup[a] /\ rel'[a] = rel[a]
         /\ rel'[o] = rel[o] \/ (rel'[o] = "unlink" /\ ~Alive(o))
         /\ pc[o] \in {"transfer", "kill"} /\ pc' = [pc EXCEPT ![o] = "end"]
         /\ UNCHANGED <<claimVars, dirVars, group, timeVars>>
<1> DEFINE s == [sup[o] EXCEPT !.transferred = TRUE, !.deadline = ~sup[o].settled]
<1>1. /\ s \in Supervision /\ s.settled = sup[o].settled /\ s.forceKill = sup[o].forceKill
      /\ s.poll = sup[o].poll
  <2>1. sup[o] \in Supervision
    BY DEF TypeOK
  <2>2. QED
    BY <2>1 DEF Supervision
<1>2. /\ pc[o] \in {"transfer", "kill"} /\ pc' = [pc EXCEPT ![o] = "end"]
      /\ UNCHANGED <<claimVars, dirVars, group, timeVars>>
  BY DEF Transfer, Goto
<1>3. Live(o) /\ ~sup[o].poll
  BY <1>2 DEF Live, SupervisedInv, ClosureInv
<1>4. \/ ReleaseAll(o, s) /\ s.settled /\ ~s.forceKill
      \/ sup' = [sup EXCEPT ![o] = s] /\ UNCHANGED rel
  BY DEF Transfer
<1> HIDE DEF s
<1>5. s.settled /\ ~s.forceKill => ~Alive(o)
  BY <1>1, <1>3 DEF SupervisedInv
<1>6. QED
  BY <1>1, <1>2, <1>4, <1>5, ReleaseAllFrame DEF TypeOK

(* Every step keeps the closures in order, and none releases a live group.   *)
LEMMA ClosureKept ==
  ASSUME "slow_record" \notin Faults, TypeOK, SupervisedInv, ClosureInv, [Next]_vars
  PROVE  /\ ClosureInv'
         /\ \A o \in Owner : rel[o] = "no" /\ rel'[o] = "unlink" => ~Alive(o)
<1> USE DEF claimVars, dirVars, workVars, timeVars
<1> DEFINE Goal == /\ ClosureInv'
                  /\ \A o \in Owner : rel[o] = "no" /\ rel'[o] = "unlink" => ~Alive(o)
(* A step of a request that is not over neither transfers nor releases.      *)
<1>1. ASSUME NEW o \in Owner, pc[o] # "end", UNCHANGED <<sup, rel, crashed>>,
             \E l \in PC : pc' = [pc EXCEPT ![o] = l]
      PROVE  Goal
  BY <1>1 DEF ClosureInv, TypeOK
<1>2. ASSUME NEW o \in Owner, ClaimStep(o)
      PROVE  Goal
  <2>1. UNCHANGED <<sup, rel, crashed>> /\ pc[o] # "end"
    BY <1>2 DEF ClaimStep, NotReady, Mkdir, OpenRecord, WriteRecord, AbortClaim, ReadExisting, ListRemnants, UnlinkStale,
           UnlinkStaleTmp, RemoveStale, UnlinkGuard, RemoveGuard
  <2>2. \E l \in PC : pc' = [pc EXCEPT ![o] = l]
    BY <1>2 DEF ClaimStep, NotReady, Mkdir, OpenRecord, WriteRecord, AbortClaim, ReadExisting, ListRemnants, UnlinkStale,
           UnlinkStaleTmp, RemoveStale, UnlinkGuard, RemoveGuard, LeaveClaim, Goto, PC
  <2>3. QED
    BY <1>1, <2>1, <2>2
<1>3. ASSUME NEW o \in Owner, SpawnWorker(o) \/ WriteTmp(o) \/ CheckOwner(o) \/ RenameTmp(o) \/ DropTmp(o)
      PROVE  Goal
  <2>1. UNCHANGED <<sup, rel, crashed>> /\ pc[o] # "end"
    BY <1>3 DEF SpawnWorker, WriteTmp, CheckOwner, RenameTmp, DropTmp
  <2>2. \E l \in PC : pc' = [pc EXCEPT ![o] = l]
    BY <1>3 DEF SpawnWorker, WriteTmp, CheckOwner, RenameTmp, DropTmp, Goto, PC
  <2>3. QED
    BY <1>1, <2>1, <2>2
<1>4. ASSUME NEW o \in Owner, RejectImport(o)
      PROVE  Goal
  <2>1. ~Alive(o)
    BY <1>4 DEF RejectImport, SupervisedInv, Unspawned, Alive
  <2>2. QED
    BY <1>4, <2>1 DEF RejectImport, Goto, ClosureInv, TypeOK
<1>5. ASSUME NEW o \in Owner, Transfer(o)
      PROVE  Goal
  <2>1. /\ \A a \in Owner : a # o => sup'[a] = sup[a] /\ rel'[a] = rel[a]
        /\ rel'[o] = rel[o] \/ (rel'[o] = "unlink" /\ ~Alive(o))
        /\ pc[o] \in {"transfer", "kill"} /\ pc' = [pc EXCEPT ![o] = "end"]
        /\ UNCHANGED crashed
    BY <1>5, TransferCloses
  <2>2. /\ pc'[o] = "end"
        /\ \A a \in Owner : a # o => pc'[a] = pc[a]
    BY <2>1 DEF TypeOK
  <2>3. \A a \in Owner : rel[a] = "no" /\ rel'[a] = "unlink" => ~Alive(a)
    BY <2>1
  <2>4. o \notin crashed
    BY <2>1 DEF ClosureInv
  <2>5. ClosureInv'
    BY <2>1, <2>2, <2>4 DEF ClosureInv
  <2>6. QED
    BY <2>3, <2>5
<1>6. ASSUME NEW o \in Owner, TimerStep(o)
      PROVE  Goal
  <2>1. o \notin crashed
    BY <1>6, TimerStepCloses DEF Live
  <2>2. QED
    BY SMTT(40), <1>6, <2>1, TimerStepCloses DEF ClosureInv, TypeOK
<1>7. ASSUME NEW o \in Owner, ReleaseStep(o)
      PROVE  Goal
  <2>1. /\ UNCHANGED <<pc, sup, crashed>> /\ rel[o] \in {"unlink", "untmp", "rmdir"}
        /\ \E r \in {"untmp", "rmdir", "done"} : rel' = [rel EXCEPT ![o] = r]
    BY <1>7 DEF ReleaseStep, ReleaseUnlink, ReleaseTmp, ReleaseRmdir
  <2>2. QED
    BY <2>1 DEF ClosureInv, TypeOK
<1>8. ASSUME NEW w \in Web, NEW o \in Owner, ClaimMemory(w, o)
      PROVE  Goal
  <2>1. pc[o] = "idle" /\ pc' = [pc EXCEPT ![o] = "mkdir"] /\ UNCHANGED <<sup, rel, crashed>>
    BY <1>8 DEF ClaimMemory, Goto, SupervisedInv
  <2>2. QED
    BY <2>1 DEF ClosureInv, TypeOK
<1>9. ASSUME NEW w \in Web, CrashWeb(w)
      PROVE  Goal
  <2> DEFINE lost == {o \in Owner : home[o] = w /\ Live(o)}
  <2>1. /\ \A o \in lost : pc'[o] = "end" /\ rel'[o] = "done" /\ sup'[o] = NoSupervision
        /\ \A o \in Owner \ lost : pc'[o] = pc[o] /\ rel'[o] = rel[o] /\ sup'[o] = sup[o]
        /\ crashed' = crashed \cup lost
    BY <1>9 DEF CrashWeb
  <2>2. QED
    BY <2>1 DEF ClosureInv, NoSupervision
<1>10. CASE \/ \E o \in Owner : WorkerStep(o) \/ SetupExpires(o)
            \/ \E p \in Place : DirectoryAges(p)
            \/ UNCHANGED vars
  <2>1. UNCHANGED <<pc, rel, sup, crashed>>
    BY <1>10 DEF WorkerStep, LeaderExits, DescendantsExit, SetupExpires, DirectoryAges, vars
  <2>2. QED
    BY <2>1 DEF ClosureInv
<1>11. QED
  BY <1>2, <1>3, <1>4, <1>5, <1>6, <1>7, <1>8, <1>9, <1>10 DEF Next, ImportStep

LEMMA ClosureHolds == "slow_record" \notin Faults => (Spec => []ClosureInv)
<1> SUFFICES ASSUME "slow_record" \notin Faults PROVE Spec => []ClosureInv
  OBVIOUS
<1>1. Init => ClosureInv
  BY DEF Init, ClosureInv, NoSupervision
<1>2. TypeOK /\ SupervisedInv /\ ClosureInv /\ [Next]_vars => ClosureInv'
  BY ClosureKept
<1>3. QED
  BY <1>1, <1>2, TypeCorrect, SupervisedHolds, PTL DEF Spec

(* The background release of an admission starts only when every process of  *)
(* the worker's group has exited, unless recording the pid outlasts the      *)
(* termination grace.                                                        *)
THEOREM ReleasesFollowExit == "slow_record" \notin Faults => (Spec => ReleaseAfterGroupExit)
<1> SUFFICES ASSUME "slow_record" \notin Faults PROVE Spec => ReleaseAfterGroupExit
  OBVIOUS
<1>1. TypeOK /\ SupervisedInv /\ ClosureInv /\ [Next]_vars
        => [\A o \in Owner : rel[o] = "no" /\ rel'[o] = "unlink" => ~Alive(o)]_rel
  BY ClosureKept
<1>2. QED
  BY <1>1, TypeCorrect, SupervisedHolds, ClosureHolds, PTL DEF Spec, ReleaseAfterGroupExit

-----------------------------------------------------------------------------
(* Mutual exclusion, when no request is slower than the two minutes and no   *)
(* Web process dies in the few steps that leave a guard without a complete   *)
(* record or a worker without a recorded pid.  Each directory has one user:  *)
(* the claim that creates or clears it, the release that clears it, or the   *)
(* owner of the record in it.                                                *)

(* The steps of a claim between its own change of a directory and the next,  *)
(* those under the guard, and those between the setup record and the pid.    *)
Clearing == {"open", "write", "untmp", "rmdir"}
Claiming == Clearing \cup {"mkdir", "read", "unlink", "unguard"}
Recording == {"setup", "tmp", "check", "rename"}

GuardUser(o) ==
  \/ stage[o] = "guard" /\ pc[o] \in Clearing
  \/ stage[o] = "lock" /\ pc[o] \in Claiming
  \/ pc[o] = "unguardRmdir"
  \/ json["guard"][o] # "none"

LockUser(o) ==
  \/ stage[o] = "lock" /\ pc[o] \in Clearing
  \/ json["lock"][o] # "none"
  \/ rel[o] \in {"untmp", "rmdir"}

(* Where a request stands; no step of a directory operation fails.           *)
RequestInv ==
  \A o \in Owner :
    /\ pc[o] \notin {"abort", "dropTmp", "kill"}
    /\ pc[o] = "idle" => stage[o] = "guard"
    /\ o \in expired => o \in crashed
    /\ pc[o] \in {"unguard", "unguardRmdir", "transfer"} \cup Recording => stage[o] = "lock"
    /\ pc[o] \in {"transfer"} \cup Recording => granted[o]
    /\ granted[o] => pc[o] \in {"unguard", "unguardRmdir", "transfer", "end"} \cup Recording

(* The guard: it has a user exactly while it exists, its record is complete  *)
(* during the whole claim of the lock, and a record judged stale is that of  *)
(* a crashed process.                                                        *)
GuardInv ==
  /\ \A a, b \in Owner : GuardUser(a) /\ GuardUser(b) => a = b
  /\ (\E o \in Owner : GuardUser(o)) <=> kind["guard"] = "dir"
  /\ \A o \in Owner :
       /\ stage[o] = "guard" /\ pc[o] = "write" => json["guard"][o] = "torn"
       /\ stage[o] = "lock" /\ pc[o] \in Claiming => json["guard"][o] = "pid"
       /\ json["guard"][o] = "torn" => stage[o] = "guard" /\ pc[o] = "write"
       /\ json["guard"][o] = "pid" => o \in crashed \/ (stage[o] = "lock" /\ pc[o] \in Claiming)
       /\ json["guard"][o] # "setup"
       /\ stage[o] = "guard" /\ pc[o] = "unlink" => seen[o] \in crashed
       /\ "guard" \in aged => ~Working(o, "guard")

(* The lock: a record judged stale is that of an import without a worker,    *)
(* present or future, and an unreadable one has no live user.                *)
LockInv ==
  /\ \A a, b \in Owner : LockUser(a) /\ LockUser(b) => a = b
  /\ (\E o \in Owner : LockUser(o)) => kind["lock"] = "dir"
  /\ \A o \in Owner :
       /\ stage[o] = "lock" /\ pc[o] = "unlink" /\ seen[o] # None
            => ~Alive(seen[o]) /\ pc[seen[o]] \in {"transfer", "end"}
       /\ stage[o] = "lock" /\ pc[o] = "unlink" /\ seen[o] = None
            => \A a \in Owner : json["lock"][a] \in {"none", "torn"} /\ rel[a] \notin {"untmp", "rmdir"}
       /\ "lock" \in aged => rel[o] \notin {"untmp", "rmdir"}

(* The record in the lock: complete from the grant of the admission to the   *)
(* end of its worker.                                                        *)
RecordInv ==
  \A o \in Owner :
    /\ stage[o] = "lock" /\ pc[o] = "write" => json["lock"][o] = "torn"
    /\ granted[o] /\ pc[o] \in {"unguard", "unguardRmdir"} \cup Recording => json["lock"][o] = "setup"
    /\ json["lock"][o] = "torn" => o \in crashed \/ (stage[o] = "lock" /\ pc[o] = "write")
    /\ json["lock"][o] \in {"setup", "pid"} => granted[o]
    /\ json["lock"][o] = "setup" => pc[o] \in {"tmp", "check", "rename"} \/ group[o] = "none"
    /\ json["lock"][o] = "pid" => pc[o] \in {"transfer", "end"}
    /\ rel[o] \in {"untmp", "rmdir"} => json["lock"][o] = "none"
    /\ o \in tmp <=> pc[o] \in {"check", "rename"}
    /\ Alive(o) => json["lock"][o] \in {"setup", "pid"} /\ rel[o] \in {"no", "done"}
    /\ granted[o] /\ rel[o] = "no" /\ pc[o] \in {"tmp", "check", "rename", "transfer", "end"} /\ o \notin crashed
         => group[o] # "none"

AdmissionInv == RequestInv /\ GuardInv /\ LockInv /\ RecordInv
Known == TypeOK /\ SupervisedInv /\ ClosureInv /\ AdmissionInv

(* What exactly one user of a directory means for its records.               *)
LEMMA UsersAlone ==
  ASSUME Known, NEW o \in Owner
  PROVE  /\ GuardUser(o) => \A a \in Owner : a # o => ~GuardUser(a) /\ json["guard"][a] = "none"
         /\ LockUser(o) => \A a \in Owner : a # o => ~LockUser(a) /\ json["lock"][a] = "none" /\ a \notin tmp
         /\ (\E a \in Owner : GuardUser(a)) <=> kind["guard"] = "dir"
         /\ LockUser(o) => kind["lock"] = "dir"
<1>1. \A a \in Owner : a \in tmp => json["lock"][a] # "none"
  BY DEF Known, AdmissionInv, RequestInv, RecordInv, Recording
<1>2. QED
  BY <1>1 DEF Known, AdmissionInv, GuardInv, LockInv, GuardUser, LockUser

LEMMA NotReadyKeeps ==
  ASSUME Known, NEW o \in Owner, NotReady(o)
  PROVE  AdmissionInv'
<1> USE DEF claimVars, dirVars, workVars, timeVars
<1>1. /\ pc[o] = "mkdir" /\ stage[o] = "guard" /\ pc' = [pc EXCEPT ![o] = "end"]
      /\ UNCHANGED <<rel, claimVars, dirVars, workVars, timeVars>>
  BY DEF NotReady, LeaveClaim, Goto
<1>2. RequestInv'
  BY <1>1 DEF Known, AdmissionInv, RequestInv, TypeOK, Recording
<1>3. GuardInv'
  BY <1>1 DEF Known, AdmissionInv, GuardInv, TypeOK, GuardUser, Clearing, Claiming, Working
<1>4. LockInv'
  BY <1>1 DEF Known, AdmissionInv, LockInv, TypeOK, LockUser, Clearing, Alive
<1>5. RecordInv'
  BY <1>1 DEF Known, AdmissionInv, RequestInv, RecordInv, TypeOK, Recording, Alive
<1>6. QED
  BY <1>2, <1>3, <1>4, <1>5 DEF AdmissionInv

LEMMA MkdirKeeps ==
  ASSUME Known, NEW o \in Owner, Mkdir(o)
  PROVE  AdmissionInv'
<1> USE DEF claimVars, dirVars, workVars, timeVars
<1>1. CASE stage[o] = "guard" /\ kind["guard"] = "absent"
  <2>1. /\ pc[o] = "mkdir" /\ pc' = [pc EXCEPT ![o] = "open"]
        /\ kind'["guard"] = "dir" /\ kind'["lock"] = kind["lock"] /\ aged' = aged \ {"guard"}
        /\ UNCHANGED <<rel, claimVars, json, tmp, workVars, timeVars>>
    BY <1>1 DEF Mkdir, Goto, Known, TypeOK, Place
  <2>2. \A a \in Owner : ~GuardUser(a)
    BY <1>1, UsersAlone
  <2>3. RequestInv'
    BY <2>1 DEF Known, AdmissionInv, RequestInv, TypeOK, Recording
  <2>4. GuardInv'
    BY <1>1, <2>1, <2>2 DEF Known, AdmissionInv, GuardInv, TypeOK, GuardUser, Clearing, Claiming,
       Working
  <2>5. LockInv'
    BY <1>1, <2>1 DEF Known, AdmissionInv, LockInv, TypeOK, LockUser, Clearing, Alive
  <2>6. RecordInv'
    BY <1>1, <2>1 DEF Known, AdmissionInv, RecordInv, TypeOK, Recording, Alive
  <2>7. QED
    BY <2>3, <2>4, <2>5, <2>6 DEF AdmissionInv
<1>2. CASE stage[o] = "lock" /\ kind["lock"] = "absent"
  <2>1. /\ pc[o] = "mkdir" /\ pc' = [pc EXCEPT ![o] = "open"]
        /\ kind'["lock"] = "dir" /\ kind'["guard"] = kind["guard"] /\ aged' = aged \ {"lock"}
        /\ UNCHANGED <<rel, claimVars, json, tmp, workVars, timeVars>>
    BY <1>2 DEF Mkdir, Goto, Known, TypeOK, Place
  <2>2. \A a \in Owner : ~LockUser(a)
    BY <1>2, UsersAlone
  <2>3. RequestInv'
    BY <2>1 DEF Known, AdmissionInv, RequestInv, TypeOK, Recording
  <2>4. GuardInv'
    BY <1>2, <2>1 DEF Known, AdmissionInv, GuardInv, TypeOK, GuardUser, Clearing, Claiming, Working
  <2>5. LockInv'
    BY <1>2, <2>1, <2>2 DEF Known, AdmissionInv, LockInv, TypeOK, LockUser, Clearing, Alive
  <2>6. RecordInv'
    BY <1>2, <2>1 DEF Known, AdmissionInv, RecordInv, TypeOK, Recording, Alive
  <2>7. QED
    BY <2>3, <2>4, <2>5, <2>6 DEF AdmissionInv
<1>3. CASE kind[stage[o]] # "absent"
  <2>1. /\ pc[o] = "mkdir" /\ pc' = [pc EXCEPT ![o] = "read"]
        /\ UNCHANGED <<rel, claimVars, dirVars, workVars, timeVars>>
    BY <1>3 DEF Mkdir, Goto
  <2>3. RequestInv'
    BY <2>1 DEF Known, AdmissionInv, RequestInv, TypeOK, Recording
  <2>4. GuardInv'
    BY <2>1 DEF Known, AdmissionInv, GuardInv, TypeOK, GuardUser, Clearing, Claiming, Working
  <2>5. LockInv'
    BY <2>1 DEF Known, AdmissionInv, LockInv, TypeOK, LockUser, Clearing, Alive
  <2>6. RecordInv'
    BY <2>1 DEF Known, AdmissionInv, RecordInv, TypeOK, Recording, Alive
  <2>7. QED
    BY <2>3, <2>4, <2>5, <2>6 DEF AdmissionInv
<1>4. QED
  BY <1>1, <1>2, <1>3 DEF Known, TypeOK, Place
(* The directory is still there: its only user is the claim that made it.    *)
LEMMA OpenRecordKeeps ==
  ASSUME Faults \subseteq {"torn_lock"}, Known, NEW o \in Owner, OpenRecord(o)
  PROVE  AdmissionInv'
<1> USE DEF claimVars, dirVars, workVars, timeVars
<1>1. CASE pc[o] = "open" /\ stage[o] = "guard"
  <2>1. GuardUser(o) /\ stage[o] = "guard"
    BY <1>1 DEF GuardUser, LockUser, Clearing, Claiming
  <2>2. /\ pc' = [pc EXCEPT ![o] = "write"]
        /\ json'["guard"] = [json["guard"] EXCEPT ![o] = "torn"] /\ json'["lock"] = json["lock"]
        /\ aged' = aged \ {"guard"}
        /\ UNCHANGED <<rel, claimVars, kind, tmp, workVars, timeVars>>
    BY <1>1, <2>1, UsersAlone DEF OpenRecord, PutRecord, Goto, Known, TypeOK, Place
  <2>5. RequestInv'
    BY <1>1, <2>1, <2>2 DEF Known, AdmissionInv, RequestInv, TypeOK, Recording
  <2>6. GuardInv'
    BY <1>1, <2>1, <2>2, UsersAlone DEF Known, AdmissionInv, GuardInv, TypeOK, GuardUser, Clearing,
       Claiming, Working
  <2>7. LockInv'
    BY <1>1, <2>1, <2>2, UsersAlone DEF Known, AdmissionInv, LockInv, TypeOK, LockUser, Clearing,
       Alive
  <2>8. RecordInv'
    BY <1>1, <2>1, <2>2 DEF Known, AdmissionInv, RecordInv, TypeOK, Recording, Alive
  <2>9. QED
    BY <2>5, <2>6, <2>7, <2>8 DEF AdmissionInv
<1>2. CASE pc[o] = "open" /\ stage[o] = "lock"
  <2>1. GuardUser(o) /\ LockUser(o)
    BY <1>2 DEF GuardUser, LockUser, Clearing, Claiming
  <2>2. /\ pc' = [pc EXCEPT ![o] = "write"]
        /\ json'["lock"] = [json["lock"] EXCEPT ![o] = "torn"] /\ json'["guard"] = json["guard"]
        /\ aged' = aged \ {"lock"}
        /\ UNCHANGED <<rel, claimVars, kind, tmp, workVars, timeVars>>
    BY <1>2, <2>1, UsersAlone DEF OpenRecord, PutRecord, Goto, Known, TypeOK, Place
  <2>5. RequestInv'
    BY <1>2, <2>1, <2>2 DEF Known, AdmissionInv, RequestInv, TypeOK, Recording
  <2>6. GuardInv'
    BY <1>2, <2>1, <2>2, UsersAlone DEF Known, AdmissionInv, GuardInv, TypeOK, GuardUser, Clearing,
       Claiming, Working
  <2>7. LockInv'
    BY <1>2, <2>1, <2>2, UsersAlone DEF Known, AdmissionInv, LockInv, TypeOK, LockUser, Clearing,
       Alive
  <2>8. RecordInv'
    BY <1>2, <2>1, <2>2 DEF Known, AdmissionInv, RecordInv, ClosureInv, TypeOK, Recording, Alive
  <2>9. QED
    BY <2>5, <2>6, <2>7, <2>8 DEF AdmissionInv
<1>3. QED
  BY <1>1, <1>2 DEF OpenRecord, Known, TypeOK, Place

(* The record becomes complete: the guard is held, or the admission granted. *)
LEMMA WriteRecordKeeps ==
  ASSUME Faults \subseteq {"torn_lock"}, Known, NEW o \in Owner, WriteRecord(o)
  PROVE  AdmissionInv'
<1> USE DEF claimVars, dirVars, workVars, timeVars
<1>1. CASE pc[o] = "write" /\ stage[o] = "guard"
  <2>1. GuardUser(o) /\ json["guard"][o] = "torn" /\ json["lock"][o] = "none" /\ ~granted[o]
    BY <1>1 DEF GuardUser, Clearing, Known, AdmissionInv, GuardInv, RequestInv, RecordInv, TypeOK,
       Place, Record, Recording, ClosureInv
  <2>2. /\ pc' = [pc EXCEPT ![o] = "mkdir"] /\ stage' = [stage EXCEPT ![o] = "lock"]
        /\ json'["guard"] = [json["guard"] EXCEPT ![o] = "pid"] /\ json'["lock"] = json["lock"]
        /\ UNCHANGED <<rel, home, seen, granted, kind, aged, tmp, workVars, timeVars>>
    BY <1>1, <2>1 DEF WriteRecord, Goto, Known, TypeOK, Place
  <2>5. RequestInv'
    BY <1>1, <2>1, <2>2 DEF Known, AdmissionInv, RequestInv, TypeOK, Recording
  <2>6. GuardInv'
    BY <1>1, <2>1, <2>2, UsersAlone DEF Known, AdmissionInv, GuardInv, TypeOK, GuardUser, Clearing,
       Claiming, Working
  <2>7. LockInv'
    BY <1>1, <2>1, <2>2 DEF Known, AdmissionInv, LockInv, TypeOK, LockUser, Clearing, Alive
  <2>8. RecordInv'
    BY <1>1, <2>1, <2>2 DEF Known, AdmissionInv, RecordInv, TypeOK, Recording, Alive
  <2>9. QED
    BY <2>5, <2>6, <2>7, <2>8 DEF AdmissionInv
<1>2. CASE pc[o] = "write" /\ stage[o] = "lock"
  <2>1. /\ GuardUser(o) /\ LockUser(o) /\ json["lock"][o] = "torn" /\ group[o] = "none"
        /\ rel[o] = "no"
    BY <1>2 DEF GuardUser, LockUser, Clearing, Claiming, Known, AdmissionInv, RecordInv,
       SupervisedInv, Unspawned, ClosureInv
  <2>2. /\ pc' = [pc EXCEPT ![o] = "unguard"] /\ granted' = [granted EXCEPT ![o] = TRUE]
        /\ json'["lock"] = [json["lock"] EXCEPT ![o] = "setup"] /\ json'["guard"] = json["guard"]
        /\ UNCHANGED <<rel, home, stage, seen, kind, aged, tmp, workVars, timeVars>>
    BY <1>2, <2>1 DEF WriteRecord, Goto, Known, TypeOK, Place
  <2>3. \A a \in Owner : stage[a] = "lock" /\ pc[a] = "unlink" => a = o
    BY <2>1, UsersAlone DEF GuardUser, Claiming
  <2>5. RequestInv'
    BY <1>2, <2>1, <2>2, <2>3 DEF Known, AdmissionInv, RequestInv, TypeOK, Recording
  <2>6. GuardInv'
    BY <1>2, <2>1, <2>2, <2>3, UsersAlone DEF Known, AdmissionInv, GuardInv, TypeOK, GuardUser,
       Clearing, Claiming, Working
  <2>7. LockInv'
    BY <1>2, <2>1, <2>2, <2>3, UsersAlone DEF Known, AdmissionInv, LockInv, TypeOK, LockUser,
       Clearing, Alive
  <2>8. RecordInv'
    BY <1>2, <2>1, <2>2, <2>3 DEF Known, AdmissionInv, RecordInv, TypeOK, Recording, Alive
  <2>9. QED
    BY <2>5, <2>6, <2>7, <2>8 DEF AdmissionInv
<1>3. QED
  BY <1>1, <1>2 DEF WriteRecord, Known, TypeOK, Place
(* readPdfImportLock returns the owner of the only record, if it is complete. *)
LEMMA ReadLockReturns ==
  ASSUME NEW p \in Place, NEW a \in Owner
  PROVE  /\ ReadLock(p) = a => kind[p] = "dir" /\ json[p][a] \notin {"none", "torn"}
         /\ /\ kind[p] = "dir" /\ json[p][a] \notin {"none", "torn"}
            /\ \A b \in Owner : b # a => json[p][b] = "none"
            => ReadLock(p) = a
         /\ ReadLock(p) \in Owner \cup {None}
<1>1. CASE kind[p] = "dir" /\ \E b \in Owner : Recorded(p) = {b} /\ json[p][b] # "torn"
  <2>1. PICK b \in Owner : Recorded(p) = {b} /\ json[p][b] # "torn"
    BY <1>1
  <2>2. ReadLock(p) = b /\ json[p][b] # "none"
    BY <1>1, <2>1 DEF ReadLock, Recorded
  <2>3. QED
    BY <1>1, <2>1, <2>2 DEF Recorded
<1>2. CASE ~(kind[p] = "dir" /\ \E b \in Owner : Recorded(p) = {b} /\ json[p][b] # "torn")
  <2>1. ReadLock(p) = None /\ None # a
    BY <1>2, NoneAssumption DEF ReadLock
  <2>2. ASSUME kind[p] = "dir", json[p][a] \notin {"none", "torn"},
               \A b \in Owner : b # a => json[p][b] = "none"
        PROVE  FALSE
    <3>1. Recorded(p) = {a}
      BY <2>2 DEF Recorded
    <3>2. QED
      BY <1>2, <2>2, <3>1
  <2>3. QED
    BY <2>1, <2>2
<1>3. QED
  BY <1>1, <1>2

(* Without slow requests, the expired setup records are those of crashed     *)
(* processes, and a record that no longer excludes others has no worker.     *)
LEMMA StaleIsDead ==
  ASSUME Known, NEW a \in Owner
  PROVE  /\ ReadLock("guard") = a /\ ~RecordIsActive("guard", a) => a \in crashed
         /\ ReadLock("lock") = a /\ ~RecordIsActive("lock", a)
              => ~Alive(a) /\ pc[a] \in {"transfer", "end"}
<1>1. ASSUME ReadLock("lock") = a, ~RecordIsActive("lock", a)
      PROVE  ~Alive(a) /\ pc[a] \in {"transfer", "end"}
  <2>1. json["lock"][a] \in {"setup", "pid"}
    BY <1>1, ReadLockReturns DEF Known, TypeOK, Place, Record
  <2>2. CASE json["lock"][a] = "setup"
    <3>1. a \in crashed /\ pc[a] = "end"
      BY <1>1, <2>2 DEF RecordIsActive, Known, AdmissionInv, RequestInv, ClosureInv
    <3>2. QED
      BY <2>2, <3>1 DEF Known, AdmissionInv, RecordInv, Alive
  <2>3. CASE json["lock"][a] = "pid"
    BY <1>1, <2>3 DEF RecordIsActive, Known, AdmissionInv, RecordInv
  <2>4. QED
    BY <2>1, <2>2, <2>3
<1>2. QED
  BY <1>1 DEF RecordIsActive

(* A guard that is old enough to be judged unreadable has a readable record. *)
LEMMA GuardIsReadable ==
  ASSUME Known, kind["guard"] = "dir", "guard" \in aged
  PROVE  ReadLock("guard") # None
<1>1. PICK a \in Owner : GuardUser(a)
  BY UsersAlone DEF Known, AdmissionInv, GuardInv
<1>2. json["guard"][a] = "pid"
  BY <1>1 DEF Known, AdmissionInv, GuardInv, GuardUser, Working, Clearing, Claiming, TypeOK, Place,
     Record
<1>3. ReadLock("guard") = a
  BY <1>1, <1>2, UsersAlone, ReadLockReturns DEF Place
<1>4. QED
  BY <1>3, NoneAssumption

(* A lock that is old enough and unreadable belongs to nobody.               *)
LEMMA UnreadableIsUnused ==
  ASSUME Known, kind["lock"] = "dir", "lock" \in aged, ReadLock("lock") = None
  PROVE  \A a \in Owner : json["lock"][a] \in {"none", "torn"} /\ rel[a] \notin {"untmp", "rmdir"}
<1>1. ASSUME NEW a \in Owner, json["lock"][a] \notin {"none", "torn"}
      PROVE  FALSE
  <2>1. LockUser(a)
    BY <1>1 DEF LockUser
  <2>2. ReadLock("lock") = a
    BY <1>1, <2>1, UsersAlone, ReadLockReturns DEF Place
  <2>3. QED
    BY <2>2, NoneAssumption
<1>2. QED
  BY <1>1 DEF Known, AdmissionInv, LockInv

(* What a claim finds in an existing directory.                              *)
LEMMA ReadExistingKeeps ==
  ASSUME Faults \subseteq {"torn_lock"}, Known, NEW o \in Owner, ReadExisting(o)
  PROVE  AdmissionInv'
<1> USE DEF claimVars, dirVars, workVars, timeVars
<1>1. CASE stage[o] = "guard" /\ Excluded("guard")
  <2>1. /\ pc[o] = "read" /\ pc' = [pc EXCEPT ![o] = "end"]
        /\ UNCHANGED <<rel, claimVars, dirVars, workVars, timeVars>>
    BY <1>1 DEF ReadExisting, LeaveClaim, Goto
  <2>5. RequestInv'
    BY <1>1, <2>1 DEF Known, AdmissionInv, RequestInv, TypeOK, Recording
  <2>6. GuardInv'
    BY <1>1, <2>1 DEF Known, AdmissionInv, GuardInv, TypeOK, GuardUser, Clearing, Claiming, Working
  <2>7. LockInv'
    BY <1>1, <2>1 DEF Known, AdmissionInv, LockInv, TypeOK, LockUser, Clearing, Alive
  <2>8. RecordInv'
    BY <1>1, <2>1 DEF Known, AdmissionInv, RecordInv, TypeOK, Recording, Alive, RequestInv
  <2>9. QED
    BY <2>5, <2>6, <2>7, <2>8 DEF AdmissionInv
<1>2. CASE stage[o] = "lock" /\ Excluded("lock")
  <2>1. /\ pc[o] = "read" /\ pc' = [pc EXCEPT ![o] = "unguard"]
        /\ UNCHANGED <<rel, claimVars, dirVars, workVars, timeVars>>
    BY <1>2 DEF ReadExisting, LeaveClaim, Goto
  <2>5. RequestInv'
    BY <1>2, <2>1 DEF Known, AdmissionInv, RequestInv, TypeOK, Recording
  <2>6. GuardInv'
    BY <1>2, <2>1 DEF Known, AdmissionInv, GuardInv, TypeOK, GuardUser, Clearing, Claiming, Working
  <2>7. LockInv'
    BY <1>2, <2>1 DEF Known, AdmissionInv, LockInv, TypeOK, LockUser, Clearing, Alive
  <2>8. RecordInv'
    BY <1>2, <2>1 DEF Known, AdmissionInv, RecordInv, TypeOK, Recording, Alive, RequestInv
  <2>9. QED
    BY <2>5, <2>6, <2>7, <2>8 DEF AdmissionInv
<1>3. CASE stage[o] = "guard" /\ ~Excluded("guard")
  <2>1. /\ pc[o] = "read" /\ pc' = [pc EXCEPT ![o] = "unlink"]
        /\ seen' = [seen EXCEPT ![o] = ReadLock("guard")]
        /\ UNCHANGED <<rel, home, stage, tries, granted, dirVars, workVars, timeVars>>
    BY <1>3 DEF ReadExisting, Goto
  <2>2. ReadLock("guard") \in crashed
    BY <1>3, GuardIsReadable, ReadLockReturns, StaleIsDead DEF Excluded, Place
  <2>5. RequestInv'
    BY <1>3, <2>1, <2>2 DEF Known, AdmissionInv, RequestInv, TypeOK, Recording
  <2>6. GuardInv'
    BY <1>3, <2>1, <2>2 DEF Known, AdmissionInv, GuardInv, TypeOK, GuardUser, Clearing, Claiming,
       Working
  <2>7. LockInv'
    BY <1>3, <2>1, <2>2 DEF Known, AdmissionInv, LockInv, TypeOK, LockUser, Clearing, Alive
  <2>8. RecordInv'
    BY <1>3, <2>1, <2>2 DEF Known, AdmissionInv, RecordInv, TypeOK, Recording, Alive
  <2>9. QED
    BY <2>5, <2>6, <2>7, <2>8 DEF AdmissionInv
<1>4. CASE stage[o] = "lock" /\ ~Excluded("lock")
  <2>1. /\ pc[o] = "read" /\ pc' = [pc EXCEPT ![o] = "unlink"]
        /\ seen' = [seen EXCEPT ![o] = ReadLock("lock")]
        /\ UNCHANGED <<rel, home, stage, tries, granted, dirVars, workVars, timeVars>>
    BY <1>4 DEF ReadExisting, Goto
  <2>2. ASSUME ReadLock("lock") # None
        PROVE  LockInv'
    <3>1. ~Alive(ReadLock("lock")) /\ pc[ReadLock("lock")] \in {"transfer", "end"}
          /\ ReadLock("lock") # o /\ ReadLock("lock") \in Owner
      BY <1>4, <2>1, <2>2, ReadLockReturns, StaleIsDead DEF Excluded, Place
    <3>2. QED
      BY <1>4, <2>1, <2>2, <3>1 DEF Known, AdmissionInv, LockInv, TypeOK, LockUser, Clearing, Alive
  <2>3. ASSUME ReadLock("lock") = None
        PROVE  LockInv'
    <3>1. \A a \in Owner : json["lock"][a] \in {"none", "torn"} /\ rel[a] \notin {"untmp", "rmdir"}
      BY <1>4, <2>3, UnreadableIsUnused DEF Excluded
    <3>2. QED
      BY <1>4, <2>1, <2>3, <3>1 DEF Known, AdmissionInv, LockInv, TypeOK, LockUser, Clearing, Alive
  <2>5. RequestInv'
    BY <1>4, <2>1 DEF Known, AdmissionInv, RequestInv, TypeOK, Recording
  <2>6. GuardInv'
    BY <1>4, <2>1 DEF Known, AdmissionInv, GuardInv, TypeOK, GuardUser, Clearing, Claiming, Working
  <2>7. LockInv'
    BY <2>2, <2>3
  <2>8. RecordInv'
    BY <1>4, <2>1 DEF Known, AdmissionInv, RecordInv, TypeOK, Recording, Alive
  <2>9. QED
    BY <2>5, <2>6, <2>7, <2>8 DEF AdmissionInv
<1>5. QED
  BY <1>1, <1>2, <1>3, <1>4 DEF Known, TypeOK, Place
(* A stale record has one remover: the claim that unlinks it, or its own     *)
(* release.                                                                  *)
LEMMA UnlinkStaleKeeps ==
  ASSUME Faults \subseteq {"torn_lock"}, Known, NEW o \in Owner, UnlinkStale(o)
  PROVE  AdmissionInv'
<1> USE DEF claimVars, dirVars, workVars, timeVars
<1>1. CASE stage[o] = "guard" /\ json["guard"][seen[o]] # "none" /\ seen[o] # None
  <2>1. /\ pc[o] = "unlink" /\ pc' = [pc EXCEPT ![o] = "untmp"]
        /\ json'["guard"] = [json["guard"] EXCEPT ![seen[o]] = "none"] /\ json'["lock"] = json["lock"]
        /\ aged' = aged \ {"guard"}
        /\ UNCHANGED <<rel, claimVars, kind, tmp, workVars, timeVars>>
    BY <1>1 DEF UnlinkStale, PutRecord, Goto, Known, TypeOK, Place
  <2>2. seen[o] \in Owner /\ seen[o] \in crashed /\ pc[seen[o]] = "end"
    BY <1>1, <2>1 DEF Known, AdmissionInv, GuardInv, ClosureInv, TypeOK
  <2>3. GuardUser(seen[o])
    BY <1>1 DEF GuardUser
  <2>4. kind["guard"] = "dir" /\ \A a \in Owner : a # seen[o] => ~GuardUser(a) /\ json["guard"][a] = "none"
    BY <2>2, <2>3, UsersAlone
  <2>5. RequestInv'
    BY <1>1, <2>1, <2>2 DEF Known, AdmissionInv, RequestInv, TypeOK, Recording
  <2>6. GuardInv'
    BY <1>1, <2>1, <2>2, <2>3, <2>4 DEF Known, AdmissionInv, GuardInv, TypeOK, GuardUser, Clearing,
       Claiming, Working
  <2>7. LockInv'
    BY <1>1, <2>1, <2>2 DEF Known, AdmissionInv, LockInv, TypeOK, LockUser, Clearing, Alive
  <2>8. RecordInv'
    BY <1>1, <2>1, <2>2 DEF Known, AdmissionInv, RecordInv, TypeOK, Recording, Alive
  <2>9. QED
    BY <2>5, <2>6, <2>7, <2>8 DEF AdmissionInv
<1>2. CASE stage[o] = "lock" /\ json["lock"][seen[o]] # "none" /\ seen[o] # None
  <2>1. /\ pc[o] = "unlink" /\ pc' = [pc EXCEPT ![o] = "untmp"]
        /\ json'["lock"] = [json["lock"] EXCEPT ![seen[o]] = "none"] /\ json'["guard"] = json["guard"]
        /\ aged' = aged \ {"lock"}
        /\ UNCHANGED <<rel, claimVars, kind, tmp, workVars, timeVars>>
    BY <1>2 DEF UnlinkStale, PutRecord, Goto, Known, TypeOK, Place
  <2>2. /\ seen[o] \in Owner /\ ~Alive(seen[o]) /\ pc[seen[o]] \in {"transfer", "end"}
        /\ rel[seen[o]] \notin {"untmp", "rmdir"}
    BY <1>2, <2>1 DEF Known, AdmissionInv, LockInv, RecordInv, TypeOK
  <2>3. LockUser(seen[o])
    BY <1>2 DEF LockUser
  <2>4. kind["lock"] = "dir" /\ \A a \in Owner : a # seen[o] => ~LockUser(a) /\ json["lock"][a] = "none"
    BY <2>2, <2>3, UsersAlone
  <2>5. RequestInv'
    BY <1>2, <2>1, <2>2 DEF Known, AdmissionInv, RequestInv, TypeOK, Recording
  <2>6. GuardInv'
    BY <1>2, <2>1, <2>2 DEF Known, AdmissionInv, GuardInv, TypeOK, GuardUser, Clearing, Claiming,
       Working
  <2>7. LockInv'
    BY <1>2, <2>1, <2>2, <2>3, <2>4 DEF Known, AdmissionInv, LockInv, TypeOK, LockUser, Clearing,
       Alive
  <2>8. RecordInv'
    BY <1>2, <2>1, <2>2, <2>4 DEF Known, AdmissionInv, RecordInv, TypeOK, Recording, Alive, LockUser
  <2>9. QED
    BY <2>5, <2>6, <2>7, <2>8 DEF AdmissionInv
<1>3. CASE LeaveClaim(o) /\ UNCHANGED <<json, aged, tmp>>
  <2>1. /\ pc[o] = "unlink" /\ pc' = [pc EXCEPT ![o] = IF stage[o] = "guard" THEN "end" ELSE "unguard"]
        /\ UNCHANGED <<rel, claimVars, dirVars, workVars, timeVars>>
    BY <1>3 DEF UnlinkStale, LeaveClaim, Goto
  <2>5. RequestInv'
    BY <1>3, <2>1 DEF Known, AdmissionInv, RequestInv, TypeOK, Recording, Place
  <2>6. GuardInv'
    BY <1>3, <2>1 DEF Known, AdmissionInv, GuardInv, TypeOK, GuardUser, Clearing, Claiming,
       Working, Place
  <2>7. LockInv'
    BY <1>3, <2>1 DEF Known, AdmissionInv, LockInv, TypeOK, LockUser, Clearing, Alive, Place
  <2>8. RecordInv'
    BY <1>3, <2>1 DEF Known, AdmissionInv, RecordInv, TypeOK, Recording, Alive, RequestInv
  <2>9. QED
    BY <2>5, <2>6, <2>7, <2>8 DEF AdmissionInv
<1>4. QED
  BY <1>1, <1>2, <1>3 DEF UnlinkStale, Known, TypeOK, Place
(* The remnants that are listed are those of a crashed claim.                *)
LEMMA ListRemnantsKeeps ==
  ASSUME Faults \subseteq {"torn_lock"}, Known, NEW o \in Owner, ListRemnants(o)
  PROVE  AdmissionInv'
<1> USE DEF claimVars, dirVars, workVars, timeVars
<1>1. pc[o] = "unlink" /\ seen[o] = None
  BY DEF ListRemnants
<1>2. stage[o] = "lock" /\ GuardUser(o)
  BY <1>1, NoneAssumption DEF Known, AdmissionInv, GuardInv, ClosureInv, GuardUser, TypeOK, Place, Claiming
<1>3. \A a \in Owner : json["lock"][a] \in {"none", "torn"} /\ rel[a] \notin {"untmp", "rmdir"}
  BY <1>1, <1>2 DEF Known, AdmissionInv, LockInv
<1>4. \A a \in Owner : a # o => ~(stage[a] = "lock" /\ pc[a] \in Claiming)
  BY <1>2, UsersAlone DEF GuardUser
<1>5. \A a \in Owner : ~Alive(a) /\ a \notin tmp
  BY <1>3 DEF Known, AdmissionInv, RecordInv, RequestInv, Recording
<1>6. CASE LeaveClaim(o) /\ UNCHANGED seen
  <2>1. /\ pc' = [pc EXCEPT ![o] = "unguard"]
        /\ UNCHANGED <<rel, claimVars, dirVars, workVars, timeVars>>
    BY <1>2, <1>6 DEF ListRemnants, LeaveClaim, Goto
  <2>2. RequestInv' /\ RecordInv'
    BY <1>1, <1>2, <2>1 DEF Known, AdmissionInv, RequestInv, RecordInv, SupervisedInv,
       ClosureInv, TypeOK, Recording, Unspawned, Alive
  <2>3. GuardInv' /\ LockInv'
    BY <1>1, <1>2, <2>1 DEF Known, AdmissionInv, GuardInv, LockInv, TypeOK, GuardUser,
       LockUser, Clearing, Claiming, Working, Alive
  <2>4. QED
    BY <2>2, <2>3 DEF AdmissionInv
<1>7. CASE kind["lock"] = "dir" /\ Entries("lock") = {} /\ Goto(o, "rmdir") /\ UNCHANGED seen
  <2>1. /\ pc' = [pc EXCEPT ![o] = "rmdir"]
        /\ UNCHANGED <<rel, claimVars, dirVars, workVars, timeVars>>
    BY <1>7 DEF ListRemnants, Goto
  <2>2. \A a \in Owner : json["lock"][a] = "none"
    BY <1>7 DEF Entries, Recorded
  <2>3. RequestInv'
    BY <1>1, <2>1 DEF Known, AdmissionInv, RequestInv, TypeOK, Recording
  <2>4. GuardInv'
    BY <1>1, <1>2, <2>1 DEF Known, AdmissionInv, GuardInv, TypeOK, GuardUser, Clearing, Claiming,
       Working
  <2>5. LockInv'
    BY <1>1, <1>2, <1>3, <1>4, <1>7, <2>1, <2>2 DEF Known, AdmissionInv, LockInv, TypeOK, LockUser,
       Clearing, Claiming, Alive
  <2>6. RecordInv'
    BY <1>1, <1>2, <2>1 DEF Known, AdmissionInv, RecordInv, TypeOK, Recording, Alive
  <2>7. QED
    BY <2>3, <2>4, <2>5, <2>6 DEF AdmissionInv
<1>8. ASSUME NEW a \in Owner, kind["lock"] = "dir", Entries("lock") = {a},
             seen' = [seen EXCEPT ![o] = a],
             Goto(o, IF a \in Recorded("lock") THEN "unlink" ELSE "untmp")
      PROVE  AdmissionInv'
  <2>1. a \in Recorded("lock") /\ json["lock"][a] = "torn"
    BY <1>3, <1>5, <1>8 DEF Entries, Recorded
  <2>2. /\ pc' = [pc EXCEPT ![o] = "unlink"]
        /\ UNCHANGED <<rel, home, stage, tries, granted, dirVars, workVars, timeVars>>
    BY <1>8, <2>1 DEF ListRemnants, Goto
  <2>3. a # o /\ a \in crashed /\ pc[a] = "end"
    BY <1>1, <1>4, <2>1 DEF Known, AdmissionInv, RecordInv, ClosureInv, TypeOK, Claiming, Clearing
  <2>4. RequestInv'
    BY <1>1, <1>8, <2>2 DEF Known, AdmissionInv, RequestInv, TypeOK, Recording
  <2>5. GuardInv'
    BY <1>1, <1>2, <1>8, <2>2 DEF Known, AdmissionInv, GuardInv, TypeOK, GuardUser, Clearing, Claiming,
       Working
  <2>6. LockInv'
    BY <1>1, <1>2, <1>4, <1>5, <1>8, <2>2, <2>3 DEF Known, AdmissionInv, LockInv, TypeOK, LockUser,
       Clearing, Claiming, Alive
  <2>7. RecordInv'
    BY <1>1, <1>2, <1>8, <2>2 DEF Known, AdmissionInv, RecordInv, TypeOK, Recording, Alive
  <2>8. QED
    BY <2>4, <2>5, <2>6, <2>7 DEF AdmissionInv
<1>9. QED
  BY <1>2, <1>6, <1>7, <1>8 DEF ListRemnants
(* No temporary record is left beside a stale one.                          *)
LEMMA UnlinkStaleTmpKeeps ==
  ASSUME Faults \subseteq {"torn_lock"}, Known, NEW o \in Owner, UnlinkStaleTmp(o)
  PROVE  AdmissionInv'
<1> USE DEF claimVars, dirVars, workVars, timeVars
<1>1. seen[o] \notin tmp \/ stage[o] = "guard"
  <2> SUFFICES ASSUME stage[o] = "lock", seen[o] \in tmp PROVE FALSE
    BY DEF Known, TypeOK, Place
  <2>1. LockUser(o) /\ seen[o] # o
    BY DEF UnlinkStaleTmp, LockUser, Clearing, Known, AdmissionInv, RecordInv
  <2>2. QED
    BY <2>1, UsersAlone DEF Known, TypeOK
<1>2. /\ pc[o] = "untmp" /\ pc' = [pc EXCEPT ![o] = "rmdir"]
      /\ UNCHANGED <<rel, claimVars, dirVars, workVars, timeVars>>
  BY <1>1 DEF UnlinkStaleTmp, Goto
<1>5. RequestInv'
  BY <1>2 DEF Known, AdmissionInv, RequestInv, TypeOK, Recording
<1>6. GuardInv'
  BY <1>2 DEF Known, AdmissionInv, GuardInv, TypeOK, GuardUser, Clearing, Claiming, Working
<1>7. LockInv'
  BY <1>2 DEF Known, AdmissionInv, LockInv, TypeOK, LockUser, Clearing, Alive
<1>8. RecordInv'
  BY <1>2 DEF Known, AdmissionInv, RecordInv, TypeOK, Recording, Alive
<1>9. QED
  BY <1>5, <1>6, <1>7, <1>8 DEF AdmissionInv

(* The claim that cleared a directory removes it, empty.                     *)
LEMMA RemoveStaleKeeps ==
  ASSUME Faults \subseteq {"torn_lock"}, Known, NEW o \in Owner, RemoveStale(o)
  PROVE  AdmissionInv'
<1> USE DEF claimVars, dirVars, workVars, timeVars
<1>1. CASE stage[o] = "guard"
  <2>1. pc[o] = "rmdir" /\ GuardUser(o) /\ json["guard"][o] = "none"
    BY <1>1 DEF RemoveStale, GuardUser, Clearing, Claiming, Known, AdmissionInv, GuardInv,
       RecordInv, RequestInv, ClosureInv,
       TypeOK, Place, Record
  <2>2. kind["guard"] = "dir" /\ Entries("guard") = {} /\ \A a \in Owner : a # o => ~GuardUser(a)
    BY <2>1, UsersAlone DEF Entries, Recorded
  <2>3. /\ \E l \in {"mkdir", "end"} : pc' = [pc EXCEPT ![o] = l]
        /\ kind'["guard"] = "absent" /\ kind'["lock"] = kind["lock"]
        /\ UNCHANGED <<rel, home, stage, seen, granted, aged, json, tmp, workVars, timeVars>>
    BY <1>1, <2>1, <2>2 DEF RemoveStale, LeaveClaim, Goto, Known, TypeOK, Place
  <2>5. RequestInv'
    BY <1>1, <2>1, <2>2, <2>3 DEF Known, AdmissionInv, RequestInv, TypeOK, Recording
  <2>6. GuardInv'
    BY <1>1, <2>1, <2>2, <2>3 DEF Known, AdmissionInv, GuardInv, TypeOK, GuardUser, Clearing,
       Claiming, Working
  <2>7. LockInv'
    BY <1>1, <2>1, <2>2, <2>3 DEF Known, AdmissionInv, LockInv, TypeOK, LockUser, Clearing, Alive
  <2>8. RecordInv'
    BY <1>1, <2>1, <2>2, <2>3 DEF Known, AdmissionInv, RecordInv, TypeOK, Recording, Alive,
       RequestInv
  <2>9. QED
    BY <2>5, <2>6, <2>7, <2>8 DEF AdmissionInv
<1>2. CASE stage[o] = "lock"
  <2>1. pc[o] = "rmdir" /\ LockUser(o) /\ json["lock"][o] = "none" /\ o \notin tmp
    BY <1>2 DEF RemoveStale, LockUser, Clearing, Claiming, Known, AdmissionInv, GuardInv,
       RecordInv, RequestInv, ClosureInv,
       TypeOK, Place, Record, Recording
  <2>2. kind["lock"] = "dir" /\ Entries("lock") = {} /\ \A a \in Owner : a # o => ~LockUser(a)
    BY <2>1, UsersAlone DEF Entries, Recorded, Known, TypeOK
  <2>3. /\ \E l \in {"mkdir", "unguard"} : pc' = [pc EXCEPT ![o] = l]
        /\ kind'["lock"] = "absent" /\ kind'["guard"] = kind["guard"]
        /\ UNCHANGED <<rel, home, stage, seen, granted, aged, json, tmp, workVars, timeVars>>
    BY <1>2, <2>1, <2>2 DEF RemoveStale, LeaveClaim, Goto, Known, TypeOK, Place
  <2>4. \A a \in Owner : ~LockUser(a)'
    BY ZenonT(40), <1>2, <2>1, <2>2, <2>3 DEF LockUser, Clearing, Known, ClosureInv, TypeOK
  <2>5. RequestInv'
    BY <1>2, <2>1, <2>2, <2>3 DEF Known, AdmissionInv, RequestInv, TypeOK, Recording
  <2>6. GuardInv'
    BY <1>2, <2>1, <2>2, <2>3 DEF Known, AdmissionInv, GuardInv, TypeOK, GuardUser, Clearing,
       Claiming, Working
  <2>7. LockInv'
    BY <1>2, <2>1, <2>2, <2>3, <2>4 DEF Known, AdmissionInv, LockInv, TypeOK, LockUser, Clearing,
       Alive
  <2>8. RecordInv'
    BY <1>2, <2>1, <2>2, <2>3 DEF Known, AdmissionInv, RecordInv, TypeOK, Recording, Alive,
       RequestInv
  <2>9. QED
    BY <2>5, <2>6, <2>7, <2>8 DEF AdmissionInv
<1>3. QED
  BY <1>1, <1>2 DEF Known, TypeOK, Place

(* The guard still holds the record of the claim that gives it up.           *)
LEMMA UnlinkGuardKeeps ==
  ASSUME Faults \subseteq {"torn_lock"}, Known, NEW o \in Owner, UnlinkGuard(o)
  PROVE  AdmissionInv'
<1> USE DEF claimVars, dirVars, workVars, timeVars
<1>1. pc[o] = "unguard" /\ stage[o] = "lock" /\ json["guard"][o] = "pid" /\ GuardUser(o)
  BY DEF UnlinkGuard, Known, AdmissionInv, RequestInv, GuardInv, GuardUser, Claiming
<1>2. /\ pc' = [pc EXCEPT ![o] = "unguardRmdir"]
      /\ json'["guard"] = [json["guard"] EXCEPT ![o] = "none"] /\ json'["lock"] = json["lock"]
      /\ aged' = aged \ {"guard"}
      /\ UNCHANGED <<rel, claimVars, kind, tmp, workVars, timeVars>>
  BY <1>1 DEF UnlinkGuard, PutRecord, Goto, Known, TypeOK, Place
<1>3. kind["guard"] = "dir" /\ \A a \in Owner : a # o => ~GuardUser(a) /\ json["guard"][a] = "none"
  BY <1>1, UsersAlone
<1>4. GuardUser(o)' /\ \A a \in Owner : a # o => ~GuardUser(a)'
  BY <1>1, <1>2, <1>3 DEF GuardUser, Clearing, Claiming, Known, TypeOK
<1>5. RequestInv'
  BY <1>1, <1>2 DEF Known, AdmissionInv, RequestInv, TypeOK, Recording
<1>6. GuardInv'
  <2>1. kind["guard"]' = "dir" /\ \A a, b \in Owner : GuardUser(a)' /\ GuardUser(b)' => a = b
    BY <1>2, <1>3, <1>4
  <2>2. \A a \in Owner : a # o => stage'[a] = stage[a] /\ pc'[a] = pc[a] /\ json["guard"]'[a] = json["guard"][a]
    BY <1>2 DEF Known, TypeOK, Place
  <2>3. pc'[o] = "unguardRmdir" /\ json["guard"]'[o] = "none"
    BY <1>2 DEF Known, TypeOK, Place
  <2>4. QED
    BY <1>2, <1>4, <2>1, <2>2, <2>3 DEF Known, AdmissionInv, GuardInv, Clearing, Claiming
<1>7. LockInv'
  BY <1>1, <1>2 DEF Known, AdmissionInv, LockInv, TypeOK, LockUser, Clearing, Alive
<1>8. RecordInv'
  BY <1>1, <1>2 DEF Known, AdmissionInv, RecordInv, TypeOK, Recording, Alive
<1>9. QED
  BY <1>5, <1>6, <1>7, <1>8 DEF AdmissionInv

(* The claim is over: the import goes on if it was granted.                  *)
LEMMA RemoveGuardKeeps ==
  ASSUME Faults \subseteq {"torn_lock"}, Known, NEW o \in Owner, RemoveGuard(o)
  PROVE  AdmissionInv'
<1> USE DEF claimVars, dirVars, workVars, timeVars
<1>1. /\ pc[o] = "unguardRmdir" /\ stage[o] = "lock" /\ json["guard"][o] = "none" /\ GuardUser(o)
  BY DEF RemoveGuard, Known, AdmissionInv, RequestInv, GuardInv, GuardUser, Claiming, Clearing,
         ClosureInv, TypeOK, Place, Record
<1>2. kind["guard"] = "dir" /\ Entries("guard") = {} /\ \A a \in Owner : a # o => ~GuardUser(a)
  BY <1>1, UsersAlone DEF Entries, Recorded
<1>3. /\ pc' = [pc EXCEPT ![o] = IF granted[o] THEN "setup" ELSE "end"]
      /\ kind'["guard"] = "absent" /\ kind'["lock"] = kind["lock"]
      /\ UNCHANGED <<rel, claimVars, aged, json, tmp, workVars, timeVars>>
  BY <1>1, <1>2 DEF RemoveGuard, Goto, Known, TypeOK, Place
<1>5. RequestInv'
  BY <1>1, <1>2, <1>3 DEF Known, AdmissionInv, RequestInv, TypeOK, Recording
<1>6. GuardInv'
  BY <1>1, <1>2, <1>3 DEF Known, AdmissionInv, GuardInv, TypeOK, GuardUser, Clearing, Claiming,
     Working
<1>7. LockInv'
  BY <1>1, <1>2, <1>3 DEF Known, AdmissionInv, LockInv, TypeOK, LockUser, Clearing, Alive
<1>8. RecordInv'
  BY <1>1, <1>2, <1>3 DEF Known, AdmissionInv, RecordInv, TypeOK, Recording, Alive
<1>9. QED
  BY <1>5, <1>6, <1>7, <1>8 DEF AdmissionInv

LEMMA ClaimStepKeeps ==
  ASSUME Faults \subseteq {"torn_lock"}, Known, NEW o \in Owner, ClaimStep(o)
  PROVE  AdmissionInv'
<1>1. ~AbortClaim(o)
  BY DEF AbortClaim, Known, AdmissionInv, RequestInv
<1>2. QED
  BY <1>1, NotReadyKeeps, MkdirKeeps, OpenRecordKeeps, WriteRecordKeeps, ReadExistingKeeps, ListRemnantsKeeps, UnlinkStaleKeeps,
     UnlinkStaleTmpKeeps, RemoveStaleKeeps, UnlinkGuardKeeps, RemoveGuardKeeps DEF ClaimStep
(* A rejected import has no worker: its complete record is released.         *)
LEMMA RejectImportKeeps ==
  ASSUME Faults \subseteq {"torn_lock"}, Known, NEW o \in Owner, RejectImport(o)
  PROVE  AdmissionInv'
<1> USE DEF claimVars, dirVars, workVars, timeVars
<1>1. /\ pc[o] = "setup" /\ pc' = [pc EXCEPT ![o] = "end"] /\ rel' = [rel EXCEPT ![o] = "unlink"]
      /\ UNCHANGED <<claimVars, dirVars, workVars, timeVars>>
  BY DEF RejectImport, Goto
<1>2. group[o] = "none" /\ rel[o] = "no" /\ json["lock"][o] = "setup" /\ granted[o]
  BY <1>1 DEF Known, SupervisedInv, Unspawned, ClosureInv, AdmissionInv, RecordInv, RequestInv,
     Recording
<1>5. RequestInv'
  BY <1>1, <1>2 DEF Known, AdmissionInv, RequestInv, TypeOK, Recording
<1>6. GuardInv'
  BY <1>1, <1>2 DEF Known, AdmissionInv, GuardInv, TypeOK, GuardUser, Clearing, Claiming, Working
<1>7. LockInv'
  BY <1>1, <1>2 DEF Known, AdmissionInv, LockInv, TypeOK, LockUser, Clearing, Alive
<1>8. RecordInv'
  BY <1>1, <1>2 DEF Known, AdmissionInv, RecordInv, TypeOK, Recording, Alive
<1>9. QED
  BY <1>5, <1>6, <1>7, <1>8 DEF AdmissionInv

(* The worker is spawned under a complete setup record.                      *)
LEMMA SpawnWorkerKeeps ==
  ASSUME Faults \subseteq {"torn_lock"}, Known, NEW o \in Owner, SpawnWorker(o)
  PROVE  AdmissionInv'
<1> USE DEF claimVars, dirVars, workVars, timeVars
<1>1. /\ pc[o] = "setup" /\ pc' = [pc EXCEPT ![o] = "tmp"] /\ group' = [group EXCEPT ![o] = "running"]
      /\ UNCHANGED <<rel, claimVars, dirVars, sup, timeVars>>
  BY DEF SpawnWorker, Goto
<1>2. group[o] = "none" /\ rel[o] = "no" /\ json["lock"][o] = "setup" /\ granted[o]
  BY <1>1 DEF Known, SupervisedInv, Unspawned, ClosureInv, AdmissionInv, RecordInv, RequestInv,
     Recording
<1>5. RequestInv'
  BY <1>1, <1>2 DEF Known, AdmissionInv, RequestInv, TypeOK, Recording
<1>6. GuardInv'
  BY <1>1, <1>2 DEF Known, AdmissionInv, GuardInv, TypeOK, GuardUser, Clearing, Claiming, Working
<1>7. LockInv'
  BY <1>1, <1>2 DEF Known, AdmissionInv, LockInv, TypeOK, LockUser, Clearing, Alive
<1>8. RecordInv'
  BY <1>1, <1>2 DEF Known, AdmissionInv, RecordInv, TypeOK, Recording, Alive
<1>9. QED
  BY <1>5, <1>6, <1>7, <1>8 DEF AdmissionInv

(* The directory of the setup record is still there for the temporary one.   *)
LEMMA WriteTmpKeeps ==
  ASSUME Faults \subseteq {"torn_lock"}, Known, NEW o \in Owner, WriteTmp(o)
  PROVE  AdmissionInv'
<1> USE DEF claimVars, dirVars, workVars, timeVars
<1>1. json["lock"][o] = "setup" /\ granted[o] /\ rel[o] = "no" /\ LockUser(o)
  BY DEF WriteTmp, Known, AdmissionInv, RecordInv, RequestInv, Recording, LockUser, ClosureInv
<1>2. /\ pc[o] = "tmp" /\ pc' = [pc EXCEPT ![o] = "check"]
      /\ tmp' = tmp \cup {o} /\ aged' = aged \ {"lock"}
      /\ UNCHANGED <<rel, claimVars, kind, json, workVars, timeVars>>
  BY <1>1, UsersAlone DEF WriteTmp, Goto
<1>5. RequestInv'
  BY <1>1, <1>2 DEF Known, AdmissionInv, RequestInv, TypeOK, Recording
<1>6. GuardInv'
  BY <1>1, <1>2 DEF Known, AdmissionInv, GuardInv, TypeOK, GuardUser, Clearing, Claiming, Working
<1>7. LockInv'
  BY <1>1, <1>2 DEF Known, AdmissionInv, LockInv, TypeOK, LockUser, Clearing, Alive
<1>8. RecordInv'
  BY <1>1, <1>2 DEF Known, AdmissionInv, RecordInv, TypeOK, Recording, Alive
<1>9. QED
  BY <1>5, <1>6, <1>7, <1>8 DEF AdmissionInv

(* The ownership check finds the own record.                                 *)
LEMMA CheckOwnerKeeps ==
  ASSUME Faults \subseteq {"torn_lock"}, Known, NEW o \in Owner, CheckOwner(o)
  PROVE  AdmissionInv'
<1> USE DEF claimVars, dirVars, workVars, timeVars
<1>1. json["lock"][o] = "setup" /\ granted[o] /\ rel[o] = "no" /\ LockUser(o)
  BY DEF CheckOwner, Known, AdmissionInv, RecordInv, RequestInv, Recording, LockUser, ClosureInv
<1>2. ReadLock("lock") = o
  BY <1>1, UsersAlone, ReadLockReturns DEF Place
<1>3. /\ pc[o] = "check" /\ pc' = [pc EXCEPT ![o] = "rename"]
      /\ UNCHANGED <<rel, claimVars, dirVars, workVars, timeVars>>
  BY <1>2 DEF CheckOwner, Goto
<1>5. RequestInv'
  BY <1>1, <1>3 DEF Known, AdmissionInv, RequestInv, TypeOK, Recording
<1>6. GuardInv'
  BY <1>1, <1>3 DEF Known, AdmissionInv, GuardInv, TypeOK, GuardUser, Clearing, Claiming, Working
<1>7. LockInv'
  BY <1>1, <1>3 DEF Known, AdmissionInv, LockInv, TypeOK, LockUser, Clearing, Alive
<1>8. RecordInv'
  BY <1>1, <1>3 DEF Known, AdmissionInv, RecordInv, TypeOK, Recording, Alive
<1>9. QED
  BY <1>5, <1>6, <1>7, <1>8 DEF AdmissionInv

(* The pid replaces the setup record in one step.                            *)
LEMMA RenameTmpKeeps ==
  ASSUME Faults \subseteq {"torn_lock"}, Known, NEW o \in Owner, RenameTmp(o)
  PROVE  AdmissionInv'
<1> USE DEF claimVars, dirVars, workVars, timeVars
<1>1. json["lock"][o] = "setup" /\ granted[o] /\ rel[o] = "no" /\ LockUser(o)
  BY DEF RenameTmp, Known, AdmissionInv, RecordInv, RequestInv, Recording, LockUser, ClosureInv
<1>2. /\ pc[o] = "rename" /\ pc' = [pc EXCEPT ![o] = "transfer"]
      /\ tmp' = tmp \ {o} /\ aged' = aged \ {"lock"}
      /\ json'["lock"] = [json["lock"] EXCEPT ![o] = "pid"] /\ json'["guard"] = json["guard"]
      /\ UNCHANGED <<rel, claimVars, kind, workVars, timeVars>>
  BY DEF RenameTmp, PutRecord, Goto, Known, TypeOK, Place, AdmissionInv, RecordInv
<1>3. \A a \in Owner : a # o => json["lock"][a] = "none" /\ ~LockUser(a)
  BY <1>1, UsersAlone
<1>4. LockUser(o)' /\ kind["lock"] = "dir" /\ \A a \in Owner : a # o => ~LockUser(a)'
  BY <1>1, <1>2, <1>3, UsersAlone DEF LockUser, Clearing, Known, TypeOK, Place
<1>5. RequestInv'
  BY <1>1, <1>2 DEF Known, AdmissionInv, RequestInv, TypeOK, Recording
<1>6. GuardInv'
  BY <1>1, <1>2 DEF Known, AdmissionInv, GuardInv, TypeOK, GuardUser, Clearing, Claiming, Working
<1>7. LockInv'
  <2>1. ASSUME NEW c \in Owner, stage[c] = "lock", pc[c] = "unlink", seen[c] = None
        PROVE  FALSE
    BY <1>1, <2>1 DEF Known, AdmissionInv, LockInv
  <2>2. \A a \in Owner : /\ pc'[a] = "unlink" => pc[a] = "unlink"
                         /\ pc[a] \in {"transfer", "end"} => pc'[a] \in {"transfer", "end"}
    BY <1>2 DEF Known, TypeOK
  <2>3. \A a, b \in Owner : LockUser(a)' /\ LockUser(b)' => a = b
    BY <1>4
  <2>4. ASSUME NEW c \in Owner, stage'[c] = "lock", pc'[c] = "unlink"
        PROVE  seen'[c] \in Owner /\ ~Alive(seen[c])' /\ pc'[seen'[c]] \in {"transfer", "end"}
    <3>1. stage[c] = "lock" /\ pc[c] = "unlink" /\ seen[c] # None /\ seen[c] \in Owner
      BY <1>2, <2>1, <2>2, <2>4 DEF Known, TypeOK
    <3>2. ~Alive(seen[c]) /\ pc[seen[c]] \in {"transfer", "end"}
      BY <3>1 DEF Known, AdmissionInv, LockInv
    <3>3. QED
      BY <1>2, <2>2, <3>1, <3>2 DEF Alive
  <2>5. QED
    BY <1>2, <1>4, <2>3, <2>4, NoneAssumption DEF LockInv, Alive
<1>8. RecordInv'
  <2>1. /\ json'["lock"][o] = "pid" /\ pc'[o] = "transfer" /\ o \notin tmp'
        /\ Alive(o)' = Alive(o) /\ (o \notin crashed => group[o] # "none")
    BY <1>1, <1>2 DEF Known, AdmissionInv, RecordInv, TypeOK, Place, Alive
  <2>2. \A a \in Owner : a # o => /\ json'["lock"][a] = json["lock"][a] /\ pc'[a] = pc[a]
                                /\ Alive(a)' = Alive(a) /\ (a \in tmp' <=> a \in tmp)
    BY <1>2 DEF Known, TypeOK, Place, Alive
  <2>3. UNCHANGED <<rel, stage, granted, group, crashed>>
    BY <1>2
  <2>4. QED
    BY <1>1, <2>1, <2>2, <2>3 DEF Known, AdmissionInv, RecordInv, Recording
<1>9. QED
  BY <1>5, <1>6, <1>7, <1>8 DEF AdmissionInv

(* The request is over; its worker goes on under the recorded pid.           *)
LEMMA TransferKeeps ==
  ASSUME Faults \subseteq {"torn_lock"}, Known, NEW o \in Owner, Transfer(o)
  PROVE  AdmissionInv'
<1> USE DEF claimVars, dirVars, workVars, timeVars
<1>1. /\ pc[o] = "transfer" /\ pc' = [pc EXCEPT ![o] = "end"]
      /\ UNCHANGED <<claimVars, dirVars, group, timeVars>>
      /\ \A a \in Owner : a # o => rel'[a] = rel[a]
      /\ rel[o] = "no" /\ (rel'[o] = "no" \/ (rel'[o] = "unlink" /\ ~Alive(o)))
  BY TransferCloses DEF Known, AdmissionInv, RequestInv, ClosureInv
<1>2. granted[o] /\ stage[o] = "lock" /\ o \notin crashed
  BY <1>1 DEF Known, AdmissionInv, RequestInv, ClosureInv
<1>5. RequestInv'
  BY <1>1, <1>2 DEF Known, AdmissionInv, RequestInv, TypeOK, Recording
<1>6. GuardInv'
  BY <1>1, <1>2 DEF Known, AdmissionInv, GuardInv, TypeOK, GuardUser, Clearing, Claiming, Working
<1>7. LockInv'
  BY <1>1, <1>2 DEF Known, AdmissionInv, LockInv, TypeOK, LockUser, Clearing, Alive
<1>8. RecordInv'
  BY <1>1, <1>2 DEF Known, AdmissionInv, RecordInv, TypeOK, Recording, Alive
<1>9. QED
  BY <1>5, <1>6, <1>7, <1>8 DEF AdmissionInv

LEMMA ImportStepKeeps ==
  ASSUME Faults \subseteq {"torn_lock"}, Known, NEW o \in Owner, ImportStep(o)
  PROVE  AdmissionInv'
<1>1. ~DropTmp(o)
  BY DEF DropTmp, Known, AdmissionInv, RequestInv
<1>2. QED
  BY <1>1, RejectImportKeeps, SpawnWorkerKeeps, WriteTmpKeeps, CheckOwnerKeeps, RenameTmpKeeps,
     TransferKeeps DEF ImportStep
(* The timers release nothing but the admission of an empty group.           *)
LEMMA TimerStepKeeps ==
  ASSUME Faults \subseteq {"torn_lock"}, Known, NEW o \in Owner, TimerStep(o)
  PROVE  AdmissionInv'
<1> USE DEF claimVars, dirVars, workVars, timeVars
<1>1. /\ UNCHANGED <<pc, claimVars, dirVars, group, timeVars>> /\ o \notin crashed
      /\ \A a \in Owner : a # o => rel'[a] = rel[a]
      /\ rel'[o] = rel[o] \/ (rel'[o] = "unlink" /\ pc[o] = "end" /\ ~Alive(o))
  BY TimerStepCloses DEF Known, Live
<1>5. RequestInv'
  BY <1>1 DEF Known, AdmissionInv, RequestInv, TypeOK, Recording
<1>6. GuardInv'
  BY <1>1 DEF Known, AdmissionInv, GuardInv, TypeOK, GuardUser, Clearing, Claiming, Working
<1>7. LockInv'
  BY <1>1 DEF Known, AdmissionInv, LockInv, TypeOK, LockUser, Clearing, Alive
<1>8. RecordInv'
  BY <1>1 DEF Known, AdmissionInv, RecordInv, TypeOK, Recording, Alive
<1>9. QED
  BY <1>5, <1>6, <1>7, <1>8 DEF AdmissionInv

(* A release unlinks its own record: it becomes the user of the directory,   *)
(* or finds that a claim took the record of its dead worker.                 *)
LEMMA ReleaseUnlinkKeeps ==
  ASSUME Faults \subseteq {"torn_lock"}, Known, NEW o \in Owner, ReleaseUnlink(o)
  PROVE  AdmissionInv'
<1> USE DEF claimVars, dirVars, workVars, timeVars
<1>1. rel[o] = "unlink" /\ pc[o] = "end" /\ o \notin crashed /\ ~Alive(o)
  BY DEF ReleaseUnlink, Known, ClosureInv, AdmissionInv, RecordInv
<1>2. CASE json["lock"][o] # "none"
  <2>1. /\ rel' = [rel EXCEPT ![o] = "untmp"] /\ aged' = aged \ {"lock"}
        /\ json'["lock"] = [json["lock"] EXCEPT ![o] = "none"] /\ json'["guard"] = json["guard"]
        /\ UNCHANGED <<pc, claimVars, kind, tmp, workVars, timeVars>>
    BY <1>2 DEF ReleaseUnlink, PutRecord, Known, TypeOK, Place
  <2>2. json["lock"][o] # "torn" /\ LockUser(o)
    BY <1>1, <1>2 DEF Known, AdmissionInv, RecordInv, LockUser
  <2>3. kind["lock"] = "dir" /\ \A a \in Owner : a # o => json["lock"][a] = "none" /\ ~LockUser(a)
    BY <2>2, UsersAlone
  <2>4. LockUser(o)' /\ \A a \in Owner : a # o => ~LockUser(a)'
    BY <2>1, <2>3 DEF LockUser, Clearing, Known, TypeOK
  <2>5. RequestInv'
    BY <1>1, <1>2, <2>1, <2>2 DEF Known, AdmissionInv, RequestInv, TypeOK, Recording
  <2>6. GuardInv'
    BY <1>1, <1>2, <2>1, <2>2 DEF Known, AdmissionInv, GuardInv, TypeOK, GuardUser, Clearing,
       Claiming, Working
  <2>7. LockInv'
    <3>1. ASSUME NEW c \in Owner, stage[c] = "lock", pc[c] = "unlink", seen[c] = None
          PROVE  FALSE
      BY <1>2, <2>2, <3>1 DEF Known, AdmissionInv, LockInv
    <3>2. \A a, b \in Owner : LockUser(a)' /\ LockUser(b)' => a = b
      BY <2>4
    <3>3. \A c \in Owner : stage[c] = "lock" /\ pc[c] = "unlink" /\ seen[c] # None
                           => ~Alive(seen[c]) /\ pc[seen[c]] \in {"transfer", "end"}
      BY DEF Known, AdmissionInv, LockInv
    <3>4. QED
      BY <2>1, <2>3, <3>1, <3>2, <3>3 DEF LockInv, Alive
  <2>8. RecordInv'
    <3>1. json'["lock"][o] = "none" /\ rel'[o] = "untmp"
      BY <2>1 DEF Known, TypeOK, Place
    <3>2. \A a \in Owner : a # o => json'["lock"][a] = json["lock"][a] /\ rel'[a] = rel[a]
      BY <2>1 DEF Known, TypeOK, Place
    <3>3. UNCHANGED <<pc, stage, tmp, granted, group, crashed>> /\ pc[o] = "end" /\ ~Alive(o)
      BY <1>1, <2>1
    <3>4. QED
      BY <3>1, <3>2, <3>3 DEF Known, AdmissionInv, RecordInv, Recording, Alive
  <2>9. QED
    BY <2>5, <2>6, <2>7, <2>8 DEF AdmissionInv
<1>3. CASE json["lock"][o] = "none"
  <2>1. /\ rel' = [rel EXCEPT ![o] = "done"]
        /\ UNCHANGED <<pc, claimVars, dirVars, workVars, timeVars>>
    BY <1>3 DEF ReleaseUnlink
  <2>5. RequestInv'
    BY <1>1, <1>3, <2>1 DEF Known, AdmissionInv, RequestInv, TypeOK, Recording
  <2>6. GuardInv'
    BY <1>1, <1>3, <2>1 DEF Known, AdmissionInv, GuardInv, TypeOK, GuardUser, Clearing, Claiming,
       Working
  <2>7. LockInv'
    BY <1>1, <1>3, <2>1 DEF Known, AdmissionInv, LockInv, TypeOK, LockUser, Clearing, Alive
  <2>8. RecordInv'
    BY <1>1, <1>3, <2>1 DEF Known, AdmissionInv, RecordInv, TypeOK, Recording, Alive
  <2>9. QED
    BY <2>5, <2>6, <2>7, <2>8 DEF AdmissionInv
<1>4. QED
  BY <1>2, <1>3

LEMMA ReleaseTmpKeeps ==
  ASSUME Faults \subseteq {"torn_lock"}, Known, NEW o \in Owner, ReleaseTmp(o)
  PROVE  AdmissionInv'
<1> USE DEF claimVars, dirVars, workVars, timeVars
<1>1. rel[o] = "untmp" /\ pc[o] = "end" /\ o \notin tmp
  BY DEF ReleaseTmp, Known, ClosureInv, AdmissionInv, RecordInv
<1>2. /\ rel' = [rel EXCEPT ![o] = "rmdir"]
      /\ UNCHANGED <<pc, claimVars, dirVars, workVars, timeVars>>
  BY <1>1 DEF ReleaseTmp
<1>5. RequestInv'
  BY <1>1, <1>2 DEF Known, AdmissionInv, RequestInv, TypeOK, Recording
<1>6. GuardInv'
  BY <1>1, <1>2 DEF Known, AdmissionInv, GuardInv, TypeOK, GuardUser, Clearing, Claiming, Working
<1>7. LockInv'
  BY <1>1, <1>2 DEF Known, AdmissionInv, LockInv, TypeOK, LockUser, Clearing, Alive
<1>8. RecordInv'
  BY <1>1, <1>2 DEF Known, AdmissionInv, RecordInv, TypeOK, Recording, Alive
<1>9. QED
  BY <1>5, <1>6, <1>7, <1>8 DEF AdmissionInv

(* The release that cleared the lock removes it, empty.                      *)
LEMMA ReleaseRmdirKeeps ==
  ASSUME Faults \subseteq {"torn_lock"}, Known, NEW o \in Owner, ReleaseRmdir(o)
  PROVE  AdmissionInv'
<1> USE DEF claimVars, dirVars, workVars, timeVars
<1>1. rel[o] = "rmdir" /\ pc[o] = "end" /\ o \notin tmp /\ json["lock"][o] = "none" /\ LockUser(o)
  BY DEF ReleaseRmdir, Known, ClosureInv, AdmissionInv, RecordInv, LockUser
<1>2. kind["lock"] = "dir" /\ Entries("lock") = {} /\ \A a \in Owner : a # o => ~LockUser(a)
  BY <1>1, UsersAlone DEF Entries, Recorded, Known, TypeOK
<1>3. /\ rel' = [rel EXCEPT ![o] = "done"]
      /\ kind'["lock"] = "absent" /\ kind'["guard"] = kind["guard"]
      /\ UNCHANGED <<pc, claimVars, aged, json, tmp, workVars, timeVars>>
  BY <1>1, <1>2 DEF ReleaseRmdir, Known, TypeOK, Place
<1>4. \A a \in Owner : ~LockUser(a)'
  BY <1>1, <1>2, <1>3 DEF LockUser, Clearing, Known, TypeOK
<1>5. RequestInv'
  BY <1>1, <1>3 DEF Known, AdmissionInv, RequestInv, TypeOK, Recording
<1>6. GuardInv'
  BY <1>1, <1>3 DEF Known, AdmissionInv, GuardInv, TypeOK, GuardUser, Clearing, Claiming, Working
<1>7. LockInv'
  BY <1>1, <1>3, <1>4 DEF Known, AdmissionInv, LockInv, TypeOK, LockUser, Clearing, Alive
<1>8. RecordInv'
  BY <1>1, <1>3 DEF Known, AdmissionInv, RecordInv, TypeOK, Recording, Alive
<1>9. QED
  BY <1>5, <1>6, <1>7, <1>8 DEF AdmissionInv

LEMMA ReleaseStepKeeps ==
  ASSUME Faults \subseteq {"torn_lock"}, Known, NEW o \in Owner, ReleaseStep(o)
  PROVE  AdmissionInv'
  BY ReleaseUnlinkKeeps, ReleaseTmpKeeps, ReleaseRmdirKeeps DEF ReleaseStep

(* Requests that arrive, workers that exit and time that passes.             *)
LEMMA EnvironmentKeeps ==
  ASSUME Faults \subseteq {"torn_lock"}, Known,
         \/ \E w \in Web, o \in Owner : ClaimMemory(w, o)
         \/ \E o \in Owner : WorkerStep(o) \/ SetupExpires(o)
         \/ \E p \in Place : DirectoryAges(p)
         \/ UNCHANGED vars
  PROVE  AdmissionInv'
<1> USE DEF claimVars, dirVars, workVars, timeVars
<1>1. ASSUME NEW w \in Web, NEW o \in Owner, ClaimMemory(w, o)
      PROVE  AdmissionInv'
  <2>1. /\ pc[o] = "idle" /\ pc' = [pc EXCEPT ![o] = "mkdir"] /\ stage[o] = "guard" /\ rel[o] = "no"
        /\ UNCHANGED <<rel, stage, seen, granted, dirVars, workVars, timeVars>>
    BY <1>1 DEF ClaimMemory, Goto, Known, SupervisedInv, AdmissionInv, RequestInv, ClosureInv
  <2>5. RequestInv'
    BY <2>1 DEF Known, AdmissionInv, RequestInv, TypeOK, Recording
  <2>6. GuardInv'
    BY <2>1 DEF Known, AdmissionInv, GuardInv, TypeOK, GuardUser, Clearing, Claiming, Working
  <2>7. LockInv'
    BY <2>1 DEF Known, AdmissionInv, LockInv, TypeOK, LockUser, Clearing, Alive
  <2>8. RecordInv'
    BY <2>1 DEF Known, AdmissionInv, RecordInv, TypeOK, Recording, Alive
  <2>9. QED
    BY <2>5, <2>6, <2>7, <2>8 DEF AdmissionInv
<1>2. ASSUME NEW o \in Owner, WorkerStep(o)
      PROVE  AdmissionInv'
  <2>1. /\ Alive(o) /\ \E g \in {"leaderless", "gone"} : group' = [group EXCEPT ![o] = g]
        /\ UNCHANGED <<pc, rel, claimVars, dirVars, sup, timeVars>>
    BY <1>2 DEF WorkerStep, LeaderExits, DescendantsExit, Alive
  <2>5. RequestInv'
    BY <2>1 DEF Known, AdmissionInv, RequestInv, TypeOK, Recording
  <2>6. GuardInv'
    BY <2>1 DEF Known, AdmissionInv, GuardInv, TypeOK, GuardUser, Clearing, Claiming, Working
  <2>7. LockInv'
    BY <2>1 DEF Known, AdmissionInv, LockInv, TypeOK, LockUser, Clearing, Alive
  <2>8. RecordInv'
    BY <2>1 DEF Known, AdmissionInv, RecordInv, TypeOK, Recording, Alive
  <2>9. QED
    BY <2>5, <2>6, <2>7, <2>8 DEF AdmissionInv
<1>3. ASSUME NEW o \in Owner, SetupExpires(o)
      PROVE  AdmissionInv'
  <2>1. /\ o \in crashed /\ expired' = expired \cup {o}
        /\ UNCHANGED <<pc, rel, claimVars, dirVars, workVars, crashed>>
    BY <1>3 DEF SetupExpires
  <2>5. RequestInv'
    BY <2>1 DEF Known, AdmissionInv, RequestInv, TypeOK, Recording
  <2>6. GuardInv'
    BY <2>1 DEF Known, AdmissionInv, GuardInv, TypeOK, GuardUser, Clearing, Claiming, Working
  <2>7. LockInv'
    BY <2>1 DEF Known, AdmissionInv, LockInv, TypeOK, LockUser, Clearing, Alive
  <2>8. RecordInv'
    BY <2>1 DEF Known, AdmissionInv, RecordInv, TypeOK, Recording, Alive
  <2>9. QED
    BY <2>5, <2>6, <2>7, <2>8 DEF AdmissionInv
<1>4. ASSUME NEW p \in Place, DirectoryAges(p)
      PROVE  AdmissionInv'
  <2>1. /\ aged' = aged \cup {p} /\ \A a \in Owner : ~Working(a, p)
        /\ UNCHANGED <<pc, rel, claimVars, kind, json, tmp, workVars, timeVars>>
    BY <1>4 DEF DirectoryAges
  <2>5. RequestInv'
    BY <2>1 DEF Known, AdmissionInv, RequestInv, TypeOK, Recording
  <2>6. GuardInv'
    BY <2>1 DEF Known, AdmissionInv, GuardInv, TypeOK, GuardUser, Clearing, Claiming, Working
  <2>7. LockInv'
    BY <2>1 DEF Known, AdmissionInv, LockInv, TypeOK, LockUser, Clearing, Alive, Working
  <2>8. RecordInv'
    BY <2>1 DEF Known, AdmissionInv, RecordInv, TypeOK, Recording, Alive
  <2>9. QED
    BY <2>5, <2>6, <2>7, <2>8 DEF AdmissionInv
<1>5. CASE UNCHANGED vars
  <2>1. UNCHANGED <<pc, rel, claimVars, dirVars, workVars, timeVars>>
    BY <1>5 DEF vars
  <2>5. RequestInv'
    BY <2>1 DEF Known, AdmissionInv, RequestInv, TypeOK, Recording
  <2>6. GuardInv'
    BY <2>1 DEF Known, AdmissionInv, GuardInv, TypeOK, GuardUser, Clearing, Claiming, Working
  <2>7. LockInv'
    BY <2>1 DEF Known, AdmissionInv, LockInv, TypeOK, LockUser, Clearing, Alive
  <2>8. RecordInv'
    BY <2>1 DEF Known, AdmissionInv, RecordInv, TypeOK, Recording, Alive
  <2>9. QED
    BY <2>5, <2>6, <2>7, <2>8 DEF AdmissionInv
<1>6. QED
  BY <1>1, <1>2, <1>3, <1>4, <1>5

(* A crash, which spares the steps that have a guard without a complete      *)
(* record and those between the spawn and the recorded pid, leaves a record  *)
(* where the request was the user of a directory, or an unused directory.    *)
LEMMA CrashWebKeeps ==
  ASSUME Faults \subseteq {"torn_lock"}, Known, NEW w \in Web, CrashWeb(w)
  PROVE  AdmissionInv'
<1> USE DEF claimVars, dirVars, workVars, timeVars
<1> DEFINE lost == {o \in Owner : home[o] = w /\ Live(o)}
<1>1. /\ crashed' = crashed \cup lost
      /\ \A o \in lost : /\ pc'[o] = "end" /\ rel'[o] = "done" /\ ~Working(o, "guard")
                         /\ pc[o] \notin {"tmp", "check", "rename"}
      /\ \A o \in Owner \ lost : pc'[o] = pc[o] /\ rel'[o] = rel[o]
      /\ UNCHANGED <<claimVars, dirVars, group, expired>>
  BY DEF CrashWeb, Spawned
<1> HIDE DEF lost
<1>2. lost \subseteq Owner
  BY DEF lost
<1>5. RequestInv'
  BY <1>1, <1>2 DEF Known, AdmissionInv, RequestInv, TypeOK, Recording
<1>6. GuardInv'
  <2>1. ASSUME NEW a \in lost
        PROVE  GuardUser(a) <=> json["guard"][a] # "none"
    BY <1>1, <1>2, <2>1 DEF GuardUser, Working, Clearing, Claiming, Known, AdmissionInv, GuardInv,
       RequestInv
  <2>2. \A a \in Owner : GuardUser(a)' <=> GuardUser(a)
    BY <1>1, <1>2, <2>1 DEF GuardUser, Clearing, Claiming
  <2>3. \A a \in lost : json["guard"][a] # "torn"
    BY <1>1, <1>2 DEF Known, AdmissionInv, GuardInv, Working
  <2>4. \A a \in Owner : a \in lost \/ (pc'[a] = pc[a] /\ (Working(a, "guard")' <=> Working(a, "guard")))
    BY <1>1, <1>2 DEF Working
  <2>5. \A a \in lost : ~Working(a, "guard")'
    BY <1>1, <1>2 DEF Working
  <2>6. QED
    BY <1>1, <1>2, <2>2, <2>3, <2>4, <2>5 DEF Known, AdmissionInv, GuardInv, TypeOK, Claiming,
       Clearing
<1>7. LockInv'
  BY <1>1, <1>2 DEF Known, AdmissionInv, LockInv, TypeOK, LockUser, Clearing, Alive
<1>8. RecordInv'
  BY <1>1, <1>2 DEF Known, AdmissionInv, RecordInv, TypeOK, Recording, Alive
<1>9. QED
  BY <1>5, <1>6, <1>7, <1>8 DEF AdmissionInv

LEMMA KnownHolds == Faults \subseteq {"torn_lock"} => (Spec => []Known)
<1> SUFFICES ASSUME Faults \subseteq {"torn_lock"} PROVE Spec => []Known
  OBVIOUS
<1> "slow_record" \notin Faults
  OBVIOUS
<1>1. Init => AdmissionInv
  <2> SUFFICES ASSUME Init PROVE AdmissionInv
    OBVIOUS
  <2>1. \A o \in Owner : /\ pc[o] = "idle" /\ stage[o] = "guard" /\ rel[o] = "no" /\ ~granted[o]
                         /\ json["guard"][o] = "none" /\ json["lock"][o] = "none"
                         /\ ~Alive(o) /\ o \notin tmp /\ o \notin expired
    BY DEF Init, Place, Alive
  <2>2. kind["guard"] # "dir" /\ \A o \in Owner : ~GuardUser(o) /\ ~LockUser(o)
    BY <2>1 DEF Init, Place, GuardUser, LockUser, Clearing, Claiming
  <2>3. RequestInv
    BY <2>1 DEF RequestInv, Recording
  <2>4. GuardInv
    BY <2>1, <2>2 DEF GuardInv, Working, Clearing, Claiming
  <2>5. LockInv
    BY <2>1, <2>2 DEF LockInv
  <2>6. RecordInv
    BY <2>1 DEF RecordInv, Recording
  <2>7. QED
    BY <2>3, <2>4, <2>5, <2>6 DEF AdmissionInv
<1>2. TypeOK /\ SupervisedInv /\ ClosureInv /\ AdmissionInv /\ [Next]_vars => AdmissionInv'
  <2> SUFFICES ASSUME Known, [Next]_vars PROVE AdmissionInv'
    BY DEF Known
  <2>1. QED
    BY ClaimStepKeeps, ImportStepKeeps, TimerStepKeeps, ReleaseStepKeeps, EnvironmentKeeps,
       CrashWebKeeps
       DEF Next
<1>3. QED
  BY <1>1, <1>2, TypeCorrect, SupervisedHolds, ClosureHolds, PTL DEF Spec, Known

(* One import at a time: two imports never have live workers, whatever the   *)
(* interleaving of the Web processes, their crashes and their restarts.      *)
THEOREM OneAtATime == Faults \subseteq {"torn_lock"} => (Spec => []OneImportAtATime)
<1> SUFFICES ASSUME Faults \subseteq {"torn_lock"} PROVE Spec => []OneImportAtATime
  OBVIOUS
<1>1. Known => OneImportAtATime
  BY DEF Known, AdmissionInv, RecordInv, LockInv, LockUser, OneImportAtATime
<1>2. QED
  BY <1>1, KnownHolds, PTL

(* The status command calls the artifacts safe only when no worker is alive. *)
THEOREM StatusTruthful == Faults \subseteq {"torn_lock"} => (Spec => []StatusIsTruthful)
<1> SUFFICES ASSUME Faults \subseteq {"torn_lock"} PROVE Spec => []StatusIsTruthful
  OBVIOUS
<1>1. Known => StatusIsTruthful
  <2> SUFFICES ASSUME Known, NEW a \in Owner, Alive(a)
               PROVE  ImportState \notin {"idle", "stale"}
    BY DEF StatusIsTruthful
  <2>1. json["lock"][a] \in {"setup", "pid"} /\ LockUser(a)
    BY DEF Known, AdmissionInv, RecordInv, LockUser
  <2>2. kind["lock"] = "dir" /\ ReadLock("lock") = a
    BY <2>1, UsersAlone, ReadLockReturns DEF Place
  <2>3. json["lock"][a] = "setup" => a \notin expired
    BY DEF Known, AdmissionInv, RecordInv, RequestInv, ClosureInv, Alive
  <2>4. QED
    BY <2>1, <2>2, <2>3, NoneAssumption DEF ImportState
<1>2. QED
  BY <1>1, KnownHolds, PTL

(* Without the four other faults no Web process reclaims the admission of a   *)
(* request that is alive, whatever crashes have left of a lock.  The           *)
(* hypothesis leaves out "slow_setup": after two minutes without a worker an   *)
(* admission is reclaimed although its request is alive (admission.ts:50-76).  *)
THEOREM AdmissionsKept == Faults \subseteq {"torn_lock"} => (Spec => []AdmissionKept)
<1> SUFFICES ASSUME Faults \subseteq {"torn_lock"} PROVE Spec => []AdmissionKept
  OBVIOUS
<1>1. Known => AdmissionKept
  <2> SUFFICES ASSUME Known, NEW o \in Owner, granted[o], o \notin crashed, rel[o] = "no",
  group[o] # "gone"
               PROVE  kind["lock"] = "dir" /\ json["lock"][o] # "none"
    BY DEF AdmissionKept
  <2>1. json["lock"][o] # "none"
    BY DEF Known, TypeOK, AdmissionInv, RecordInv, RequestInv, Recording, Alive
  <2>2. QED
    BY <2>1, UsersAlone DEF LockUser
<1>2. QED
  BY <1>1, KnownHolds, PTL

(* One request at a time inspects and replaces the lock.                     *)
THEOREM ClaimsExclusive == Faults \subseteq {"torn_lock"} => (Spec => []GuardExclusive)
<1> SUFFICES ASSUME Faults \subseteq {"torn_lock"} PROVE Spec => []GuardExclusive
  OBVIOUS
<1>1. Known => GuardExclusive
  BY DEF Known, AdmissionInv, GuardInv, RequestInv, GuardUser, GuardExclusive, InLockClaim,
     Claiming, Clearing
<1>2. QED
  BY <1>1, KnownHolds, PTL

-----------------------------------------------------------------------------
(* The refinement of SingleImport: the grant of an admission is Admit, the   *)
(* spawn Start, the exit of the last process of a group Exit and the removal *)
(* of a complete record, by its release or by a claim, Free.                 *)
Holders  == {o \in Owner : json["lock"][o] \in {"setup", "pid"}}
Workers  == {o \in Owner : Alive(o)}
Admitted == {o \in Owner : granted[o]}
Started  == {o \in Owner : group[o] # "none"}

LEMMA OneOfFew ==
  /\ OneOf({}) = None
  /\ \A a \in Owner : OneOf({a}) = a
  BY DEF OneOf

LEMMA HoldersAlone ==
  ASSUME Known
  PROVE  /\ Workers \subseteq Holders
         /\ \A a \in Holders : Holders = {a}
         /\ \A a \in Owner : LockUser(a) => Holders \subseteq {a}
  BY DEF Known, AdmissionInv, RecordInv, LockInv, LockUser, Holders, Workers

LEMMA SingleVars ==
  /\ Single!avars = <<OneOf(Holders), OneOf(Workers), Admitted, Started>>
  /\ Single!AInit <=> OneOf(Holders) = None /\ OneOf(Workers) = None /\ Admitted = {} /\ Started = {}
  BY DEF Single!avars, Single!AInit, Holders, Workers, Admitted, Started

LEMMA GrantAdmits ==
  ASSUME Known, NEW o \in Owner, WriteRecord(o), stage[o] = "lock"
  PROVE  Single!Admit(o)
<1>1. /\ pc[o] = "write" /\ granted' = [granted EXCEPT ![o] = TRUE]
      /\ json' = [json EXCEPT !["lock"][o] = IF @ = "none" THEN "none" ELSE "setup"]
      /\ group' = group
  BY DEF WriteRecord, workVars
<1>2. json["lock"][o] = "torn" /\ ~granted[o] /\ LockUser(o)
  BY <1>1 DEF Known, AdmissionInv, RecordInv, RequestInv, LockUser, Clearing, Recording
<1>3. Holders = {} /\ Workers = {}
  BY <1>2, HoldersAlone DEF Holders
<1>4. json'["lock"] = [json["lock"] EXCEPT ![o] = "setup"]
  BY <1>1, <1>2 DEF Known, TypeOK, Place
<1>5. Holders' = {o}
  BY <1>3, <1>4 DEF Holders, Known, TypeOK, Place
<1>6. Workers' = {} /\ Started' = Started
  BY <1>1, <1>3 DEF Workers, Started, Alive
<1>7. Admitted' = Admitted \cup {o} /\ o \notin Admitted
  BY <1>1, <1>2 DEF Admitted, Known, TypeOK
<1>8. QED
  BY <1>3, <1>5, <1>6, <1>7, OneOfFew DEF Single!Admit, Holders, Workers, Admitted, Started

LEMMA SpawnStarts ==
  ASSUME Known, NEW o \in Owner, SpawnWorker(o)
  PROVE  Single!Start(o)
<1>1. /\ pc[o] = "setup" /\ group' = [group EXCEPT ![o] = "running"]
      /\ json' = json /\ granted' = granted
  BY DEF SpawnWorker, dirVars, claimVars
<1>2. json["lock"][o] = "setup" /\ group[o] = "none" /\ ~Alive(o)
  BY <1>1 DEF Known, SupervisedInv, Unspawned, AdmissionInv, RecordInv, RequestInv, Recording, Alive
<1>3. Holders = {o} /\ Workers = {} /\ Holders' = Holders /\ Admitted' = Admitted
  BY <1>1, <1>2, HoldersAlone DEF Holders, Workers, Admitted
<1>4. Workers' = {o}
  BY <1>1, <1>3 DEF Workers, Alive, Known, TypeOK
<1>5. Started' = Started \cup {o} /\ o \notin Started
  BY <1>1, <1>2 DEF Started, Known, TypeOK
<1>6. QED
  BY <1>3, <1>4, <1>5, OneOfFew DEF Single!Start, Holders, Workers, Admitted, Started

LEMMA ExitExits ==
  ASSUME Known, NEW o \in Owner, WorkerStep(o)
  PROVE  Single!Exit \/ UNCHANGED Single!avars
<1>1. PICK g \in {"leaderless", "gone"} : group' = [group EXCEPT ![o] = g]
  BY DEF WorkerStep, LeaderExits, DescendantsExit
<1>2. Alive(o) /\ json' = json /\ granted' = granted
  BY DEF WorkerStep, LeaderExits, DescendantsExit, Alive, dirVars, claimVars
<1>3. Workers = {o} /\ Holders' = Holders /\ Admitted' = Admitted
  BY <1>2, HoldersAlone DEF Workers, Holders, Admitted
<1>4. Started' = Started
  BY <1>1, <1>2 DEF Started, Alive, Known, TypeOK
<1>5. CASE g = "gone"
  <2>1. Workers' = {}
    BY <1>1, <1>3, <1>5 DEF Workers, Alive, Known, TypeOK
  <2>2. OneOf(Workers) = o /\ OneOf(Workers') = None /\ o # None
    BY <1>3, <2>1, OneOfFew, NoneAssumption
  <2>3. QED
    BY <1>3, <1>4, <2>2 DEF Single!Exit, Holders, Workers, Admitted, Started
<1>6. CASE g = "leaderless"
  <2>1. Workers' = Workers
    BY <1>1, <1>3, <1>6 DEF Workers, Alive, Known, TypeOK
  <2>2. QED
    BY <1>3, <1>4, <2>1 DEF Single!avars, Holders, Workers, Admitted, Started
<1>7. QED
  BY <1>5, <1>6

(* The record of a dead import is removed: by a claim or by its release.     *)
LEMMA RemovalFrees ==
  ASSUME Known, NEW a \in Owner, json["lock"][a] # "none", ~Alive(a),
         json'["lock"] = [json["lock"] EXCEPT ![a] = "none"],
         UNCHANGED <<granted, group>>
  PROVE  Single!Free \/ UNCHANGED Single!avars
<1>1. Holders \subseteq {a} /\ Workers = {}
  BY HoldersAlone DEF LockUser, Workers
<1>2. Holders' = {}
  BY <1>1 DEF Holders, Known, TypeOK, Place
<1>3. Workers' = Workers /\ Admitted' = Admitted /\ Started' = Started
  BY DEF Workers, Admitted, Started, Alive
<1>4. CASE Holders = {a}
  BY <1>1, <1>2, <1>3, <1>4, OneOfFew, NoneAssumption DEF Single!Free, Holders, Workers, Admitted,
     Started
<1>5. CASE Holders = {}
  BY <1>2, <1>3, <1>5 DEF Single!avars, Holders, Workers, Admitted, Started
<1>6. QED
  BY <1>1, <1>4, <1>5

(* A step that leaves the complete records, the workers and the grants.      *)
LEMMA OtherwiseStutters ==
  ASSUME UNCHANGED <<granted, group>>, Holders' = Holders
  PROVE  UNCHANGED Single!avars
<1>1. Workers' = Workers /\ Admitted' = Admitted /\ Started' = Started
  BY DEF Workers, Admitted, Started, Alive
<1>2. QED
  BY <1>1 DEF Single!avars, Holders, Workers, Admitted, Started
LEMMA ClaimImplements ==
  ASSUME Known, NEW o \in Owner, ClaimStep(o)
  PROVE  [Single!ANext]_(Single!avars)
<1> USE DEF claimVars, dirVars, workVars
<1>1. CASE NotReady(o) \/ Mkdir(o) \/ AbortClaim(o) \/ ReadExisting(o) \/ ListRemnants(o) \/ UnlinkStaleTmp(o) \/ RemoveStale(o)
             \/ UnlinkGuard(o) \/ RemoveGuard(o)
  <2>1. UNCHANGED <<granted, group, json["lock"]>>
    BY <1>1 DEF NotReady, Mkdir, AbortClaim, ReadExisting, ListRemnants, UnlinkStaleTmp, RemoveStale, UnlinkGuard,
       RemoveGuard,
       PutRecord, Known, TypeOK, Place
  <2>2. Holders' = Holders
    BY <2>1 DEF Holders
  <2>3. QED
    BY <2>1, <2>2, OtherwiseStutters
<1>2. CASE OpenRecord(o) \/ (WriteRecord(o) /\ stage[o] = "guard")
  <2>1. /\ UNCHANGED <<granted, group>>
        /\ json["lock"]' = json["lock"] \/ json["lock"]' = [json["lock"] EXCEPT ![o] = "torn"]
        /\ ~granted[o]
    BY <1>2 DEF OpenRecord, WriteRecord, PutRecord, Known, TypeOK, Place, AdmissionInv, RequestInv,
       Recording
  <2>2. json["lock"][o] \notin {"setup", "pid"}
    BY <2>1 DEF Known, AdmissionInv, RecordInv
  <2>3. Holders' = Holders
    BY <2>1, <2>2 DEF Holders, Known, TypeOK, Place
  <2>4. QED
    BY <2>1, <2>3, OtherwiseStutters
<1>3. CASE WriteRecord(o) /\ stage[o] # "guard"
  BY <1>3, GrantAdmits DEF Single!ANext, Known, TypeOK, Place
<1>4. CASE UnlinkStale(o) /\ stage[o] = "lock" /\ seen[o] # None /\ json["lock"][seen[o]] # "none"
  <2>1. /\ seen[o] \in Owner /\ UNCHANGED <<granted, group>>
        /\ json'["lock"] = [json["lock"] EXCEPT ![seen[o]] = "none"]
    BY <1>4 DEF UnlinkStale, PutRecord, Known, TypeOK, Place
  <2>2. ~Alive(seen[o])
    BY <1>4 DEF UnlinkStale, Known, AdmissionInv, LockInv
  <2>3. QED
    BY <1>4, <2>1, <2>2, RemovalFrees DEF Single!ANext
<1>5. CASE UnlinkStale(o) /\ ~(stage[o] = "lock" /\ seen[o] # None /\ json["lock"][seen[o]] # "none")
  <2>1. UNCHANGED <<granted, group>>
    BY <1>5 DEF UnlinkStale
  <2>2. json["lock"]' = json["lock"]
    BY <1>5 DEF UnlinkStale, PutRecord, Known, TypeOK, Place
  <2>3. QED
    BY <2>1, <2>2, OtherwiseStutters DEF Holders
<1>6. QED
  BY <1>1, <1>2, <1>3, <1>4, <1>5 DEF ClaimStep

LEMMA ImportImplements ==
  ASSUME Known, NEW o \in Owner, ImportStep(o)
  PROVE  [Single!ANext]_(Single!avars)
<1> USE DEF claimVars, dirVars, workVars
<1>1. CASE SpawnWorker(o)
  BY <1>1, SpawnStarts DEF Single!ANext
<1>2. CASE RenameTmp(o)
  <2>1. /\ UNCHANGED <<granted, group>> /\ json["lock"][o] = "setup"
        /\ json["lock"]' = json["lock"] \/ json["lock"]' = [json["lock"] EXCEPT ![o] = "pid"]
    BY <1>2 DEF RenameTmp, PutRecord, Known, TypeOK, Place, AdmissionInv, RecordInv, RequestInv,
       Recording
  <2>2. Holders' = Holders
    BY <2>1 DEF Holders, Known, TypeOK, Place
  <2>3. QED
    BY <2>1, <2>2, OtherwiseStutters
<1>3. CASE RejectImport(o) \/ WriteTmp(o) \/ CheckOwner(o) \/ DropTmp(o) \/ Transfer(o)
  <2>1. UNCHANGED <<granted, group, json>>
    BY <1>3 DEF RejectImport, WriteTmp, CheckOwner, DropTmp, Transfer
  <2>2. QED
    BY <2>1, OtherwiseStutters DEF Holders
<1>4. QED
  BY <1>1, <1>2, <1>3 DEF ImportStep

LEMMA ReleaseImplements ==
  ASSUME Known, NEW o \in Owner, ReleaseStep(o)
  PROVE  [Single!ANext]_(Single!avars)
<1> USE DEF claimVars, dirVars, workVars
<1>1. CASE ReleaseUnlink(o) /\ json["lock"][o] # "none"
  <2>1. /\ UNCHANGED <<granted, group>> /\ json'["lock"] = [json["lock"] EXCEPT ![o] = "none"]
    BY <1>1 DEF ReleaseUnlink, PutRecord, Known, TypeOK, Place
  <2>2. ~Alive(o)
    BY <1>1 DEF ReleaseUnlink, Known, AdmissionInv, RecordInv
  <2>3. QED
    BY <1>1, <2>1, <2>2, RemovalFrees DEF Single!ANext
<1>2. CASE ~(ReleaseUnlink(o) /\ json["lock"][o] # "none")
  <2>1. UNCHANGED <<granted, group, json>>
    BY <1>2 DEF ReleaseStep, ReleaseUnlink, ReleaseTmp, ReleaseRmdir
  <2>2. QED
    BY <2>1, OtherwiseStutters DEF Holders
<1>3. QED
  BY <1>1, <1>2

LEMMA StepImplements ==
  ASSUME "slow_record" \notin Faults, Known, [Next]_vars
  PROVE  [Single!ANext]_(Single!avars)
<1> USE DEF claimVars, dirVars, workVars
<1>1. ASSUME NEW o \in Owner, WorkerStep(o)
      PROVE  [Single!ANext]_(Single!avars)
  BY <1>1, ExitExits DEF Single!ANext
<1>2. ASSUME NEW o \in Owner, TimerStep(o)
      PROVE  UNCHANGED <<granted, group, json>>
  BY <1>2, TimerStepCloses DEF Known
<1>3. ASSUME \/ \E w \in Web, o \in Owner : ClaimMemory(w, o)
             \/ \E o \in Owner : SetupExpires(o)
             \/ \E w \in Web : CrashWeb(w)
             \/ \E p \in Place : DirectoryAges(p)
             \/ UNCHANGED vars
      PROVE  UNCHANGED <<granted, group, json>>
  BY <1>3 DEF ClaimMemory, SetupExpires, CrashWeb, DirectoryAges, vars
<1>4. ASSUME UNCHANGED <<granted, group, json>>
      PROVE  [Single!ANext]_(Single!avars)
  BY <1>4, OtherwiseStutters DEF Holders
<1>5. QED
  BY <1>1, <1>2, <1>3, <1>4, ClaimImplements, ImportImplements, ReleaseImplements DEF Next

(* The two directories implement the single-import promise: an admission is  *)
(* granted when there is none and no worker, at most one worker is started   *)
(* under it, and it is not removed before that worker has exited.            *)
THEOREM Refinement == Faults \subseteq {"torn_lock"} => (Spec => ImplementsSingleImport)
<1> SUFFICES ASSUME Faults \subseteq {"torn_lock"} PROVE Spec => ImplementsSingleImport
  OBVIOUS
<1>1. Init => Single!AInit
  <2> SUFFICES ASSUME Init PROVE Single!AInit
    OBVIOUS
  <2>1. Holders = {} /\ Workers = {} /\ Admitted = {} /\ Started = {}
    BY DEF Init, Holders, Workers, Admitted, Started, Alive, Place
  <2>2. QED
    BY <2>1, OneOfFew, SingleVars
<1>2. Known /\ [Next]_vars => [Single!ANext]_(Single!avars)
  BY StepImplements
<1>3. QED
  BY <1>1, <1>2, KnownHolds, PTL DEF Spec, ImplementsSingleImport, Single!ASpec
===============================================================================
