------------------------- MODULE LibraryState_proofs -------------------------
(***************************************************************************)
(* Theorems about LibraryState for any number of processes and updates.    *)
(* The lock excludes as long as no crash and no pause leaves the directory *)
(* empty for thirty seconds; that records of live owners are kept needs no *)
(* such assumption.                                                        *)
(* The second half is about HostRules: the tags an update writes, whatever *)
(* the requests, what is accepted of a worker's stream and page map, and   *)
(* the chunks a document is packed into.                                   *)
(* What a fold computes is proved by induction over its elements, which    *)
(* the least-number principle gives for a set of naturals.                 *)
(***************************************************************************)
EXTENDS LibraryState, HostRules, WellFoundedInduction, SequenceTheorems, FiniteSetTheorems, TLAPS

Punctual == Faults \cap {"torn", "slow"} = {}

-----------------------------------------------------------------------------
(* Types.                                                                   *)

LoadedReadable ==
  \A u \in Update : pc[u] \in {"save", "rename"} => loaded[u] # Corrupt
TypeInv == TypeOK /\ LoadedReadable

LEMMA GotoType ==
  ASSUME pc \in [Update -> PC], NEW u \in Update, NEW label \in PC, Goto(u, label)
  PROVE  /\ pc' \in [Update -> PC]
         /\ pc'[u] = label
         /\ \A v \in Update \ {u} : pc'[v] = pc[v]
BY DEF Goto

LEMMA TypeInit == Init => TypeInv
BY DEF Init, TypeInv, TypeOK, LoadedReadable, Readable, PC

LEMMA ClaimStepType ==
  ASSUME TypeInv, NEW u \in Update, Live(u), ClaimStep(u)
  PROVE  TypeInv'
<1> USE DEF TypeInv, TypeOK, PC, Claiming, Updating, Readable, Return
<1>1. CASE Mkdir(u)
  <2>1. /\ pc' \in [Update -> PC]
        /\ \A v \in Update \ {u} : pc'[v] = pc[v]
        /\ pc'[u] \in {"open", "read"}
    <3>1. Goto(u, "open") \/ Goto(u, "read")
      BY <1>1 DEF Mkdir
    <3> QED
      BY <3>1, GotoType
  <2>2. lock' \in BOOLEAN /\ aged' \in BOOLEAN
    BY <1>1 DEF Mkdir
  <2> QED
    BY <1>1, <2>1, <2>2, SMT DEF Mkdir, LoadedReadable, fileVars, callVars
<1>2. CASE OpenRecord(u)
  <2>1. /\ pc' \in [Update -> PC]
        /\ \A v \in Update \ {u} : pc'[v] = pc[v]
        /\ pc'[u] \in {"load", "abandon"}
    <3>1. Goto(u, "load") \/ Goto(u, "abandon")
      BY <1>2 DEF OpenRecord
    <3> QED
      BY <3>1, GotoType
  <2>2. records' \subseteq records \cup {u} /\ aged' \in BOOLEAN
    BY <1>2 DEF OpenRecord
  <2>3. outcome' \in [Update -> {"none", "saved", "rejected", "busy", "failed"}]
    BY <1>2 DEF OpenRecord
  <2> QED
    BY <1>2, <2>1, <2>2, <2>3, SMT DEF OpenRecord, LoadedReadable, fileVars, Live
<1>3. CASE Abandon(u)
  BY <1>3, SMT DEF Abandon, Goto, LoadedReadable, fileVars, callVars
<1>4. CASE ReadRecord(u)
  BY <1>4, SMT DEF ReadRecord, Goto, LoadedReadable, fileVars, lockVars
<1>5. CASE StatEmpty(u)
  BY <1>5, SMT DEF StatEmpty, Goto, LoadedReadable, fileVars, lockVars, callVars
<1>6. CASE RmdirStale(u)
  BY <1>6, SMT DEF RmdirStale, Rmdir, Goto, LoadedReadable, fileVars, callVars
<1>7. CASE UnlinkDead(u)
  BY <1>7, SMT DEF UnlinkDead, Goto, LoadedReadable, fileVars, callVars
<1>8. CASE RmdirDead(u)
  BY <1>8, SMT DEF RmdirDead, Rmdir, Goto, LoadedReadable, fileVars, callVars
<1>9. CASE Wait(u)
  BY <1>9, SMT DEF Wait, Goto, LoadedReadable, fileVars, lockVars
<1> QED
  BY <1>1, <1>2, <1>3, <1>4, <1>5, <1>6, <1>7, <1>8, <1>9 DEF ClaimStep

LEMMA UpdateStepType ==
  ASSUME TypeInv, NEW u \in Update, Live(u), UpdateStep(u)
  PROVE  TypeInv'
<1> USE DEF TypeInv, TypeOK, PC, Claiming, Updating, Return
<1>1. CASE Load(u)
  BY <1>1, SMT DEF Load, Goto, LoadedReadable, fileVars, lockVars, Readable
<1>2. CASE SaveTemporary(u)
  BY <1>2, SMT DEF SaveTemporary, Goto, LoadedReadable, lockVars, Readable
<1>3. CASE Rename(u)
  <2>1. loaded[u] # Corrupt /\ DOMAIN loaded[u] = Paper
    BY <1>3 DEF Rename, LoadedReadable, Readable
  <2>2. Readable(papers')
    BY <1>3, <2>1 DEF Rename, Readable
  <2> QED
    BY <1>3, <2>2, SMT DEF Rename, Goto, LoadedReadable, lockVars, Readable
<1>4. CASE DropTemporary(u)
  BY <1>4, SMT DEF DropTemporary, Goto, LoadedReadable, lockVars, callVars, Readable
<1>5. CASE Release(u)
  BY <1>5, SMT DEF Release, Goto, LoadedReadable, fileVars, callVars, Readable
<1>6. CASE RmdirOwn(u)
  BY <1>6, SMT DEF RmdirOwn, Rmdir, Goto, LoadedReadable, fileVars, callVars, Readable
<1>7. CASE UpdateFails(u)
  BY <1>7, SMT DEF UpdateFails, Goto, LoadedReadable, fileVars, lockVars, Readable
<1> QED
  BY <1>1, <1>2, <1>3, <1>4, <1>5, <1>6, <1>7 DEF UpdateStep

LEMMA TypeStep == TypeInv /\ [Next]_vars => TypeInv'
<1> SUFFICES ASSUME TypeInv, [Next]_vars PROVE TypeInv'
  OBVIOUS
<1> USE DEF TypeInv, TypeOK, LoadedReadable, Readable
<1>1. CASE \E w \in Web, u \in Update : Start(w, u)
  BY <1>1, NoneAssumption, SMT DEF Start, Goto, PC, Claiming, fileVars, lockVars
<1>2. CASE \E u \in Update : Step(u)
  BY <1>2, ClaimStepType, UpdateStepType DEF Step
<1>3. CASE \E u \in Update : DeadlinePasses(u)
  BY <1>3, SMT DEF DeadlinePasses, fileVars, lockVars
<1>4. CASE DirectoryAges
  BY <1>4, SMT DEF DirectoryAges, fileVars, callVars
<1>5. CASE \E w \in Web : Crash(w)
  BY <1>5, SMT DEF Crash, fileVars, lockVars, callVars
<1>6. CASE UNCHANGED vars
  BY <1>6, SMT DEF vars, fileVars, lockVars, callVars
<1> QED
  BY <1>1, <1>2, <1>3, <1>4, <1>5, <1>6 DEF Next

(* Every reachable state is well typed.                                     *)
THEOREM TypeCorrect == Spec => []TypeOK
<1>1. TypeInv => TypeOK
  BY DEF TypeInv
<1> QED
  BY <1>1, TypeInit, TypeStep, PTL DEF Spec

-----------------------------------------------------------------------------
(* The inductive invariant of the lock.                                     *)

Owning == Emptied \cup Updating \cup {"abandon"}

(* One live call at a time has made, filled or emptied the directory ...    *)
SoleOwner ==
  \A u, v \in Update :
    Live(u) /\ pc[u] \in Owning /\ Live(v) /\ pc[v] \in Owning => u = v
(* ... which is there, with no record but its own.                          *)
OwnerHasLock ==
  \A u \in Update : Live(u) /\ pc[u] \in Owning =>
    /\ lock /\ records \subseteq {u}
    /\ pc[u] \in Updating => u \in records
    /\ pc[u] \in Emptied => u \notin records
OneRecord ==
  /\ \A a, b \in records : a = b
  /\ ~lock => records = {}
(* A record is only removed for an owner that has exited.                   *)
DeadSeen == \A u \in Update : Live(u) /\ pc[u] = "unlinkDead" => seen[u] \in crashed
(* An empty directory has a live call that answers for it, so it is young,  *)
(* and nobody takes it for stale.                                           *)
EmptyAttended ==
  lock /\ records = {} => ~aged /\ \E u \in Update : Live(u) /\ EmptyHanded(u)
NeverStale ==
  \A u \in Update : Live(u) => /\ pc[u] = "stat" => ~(lock /\ aged)
                               /\ pc[u] # "rmdirStale"

LockInv == /\ TypeInv /\ SoleOwner /\ OwnerHasLock /\ OneRecord
           /\ DeadSeen /\ EmptyAttended /\ NeverStale

(* The library an owner has loaded is still the one in the file.            *)
LoadedIsCurrent ==
  \A u \in Update : Live(u) /\ pc[u] \in {"save", "rename"} =>
    loaded[u] = papers /\ papers # Corrupt /\ Target(u) # Invalid
(* An update is saved once.                                                 *)
SavedOnce ==
  \A u \in Update : /\ home[u] = None => pc[u] = "idle"
                    /\ outcome[u] = "saved" => pc[u] \in {"dropTmp", "release", "rmdirOwn", "end"}

UpdateInv == LockInv /\ LoadedIsCurrent /\ SavedOnce

-----------------------------------------------------------------------------
(* The lock.                                                                *)

LEMMA LockInit == Init => LockInv
BY TypeInit DEF Init, LockInv, SoleOwner, OwnerHasLock, OneRecord, DeadSeen,
                EmptyAttended, NeverStale, Live

(* What every step of a call has in common: the others stay where they are. *)
LEMMA OthersStay ==
  ASSUME TypeInv, NEW u \in Update, Live(u), ClaimStep(u) \/ UpdateStep(u)
  PROVE  /\ \A v \in Update : v # u => pc'[v] = pc[v]
         /\ home' = home /\ crashed' = crashed
<1>1. \E label \in PC : Goto(u, label)
  <2> USE DEF PC, Claiming, Updating
  <2>1. CASE ClaimStep(u)
    BY <2>1 DEF ClaimStep, Mkdir, OpenRecord, Abandon, ReadRecord, StatEmpty,
                RmdirStale, UnlinkDead, RmdirDead, Wait
  <2>2. CASE UpdateStep(u)
    BY <2>2 DEF UpdateStep, Load, SaveTemporary, Rename, UpdateFails, DropTemporary, Release, RmdirOwn
  <2> QED
    BY <2>1, <2>2
<1>2. home' = home /\ crashed' = crashed
  BY DEF ClaimStep, Mkdir, OpenRecord, Abandon, ReadRecord, StatEmpty, RmdirStale,
         UnlinkDead, RmdirDead, Wait, UpdateStep, Load, SaveTemporary, Rename, UpdateFails,
         DropTemporary, Release, RmdirOwn, callVars
<1> QED
  BY <1>1, <1>2, GotoType DEF TypeInv, TypeOK

LEMMA LockClaimStep ==
  ASSUME Punctual, LockInv, NEW u \in Update, Live(u), ClaimStep(u)
  PROVE  LockInv'
<1>1. TypeInv'
  BY ClaimStepType DEF LockInv
<1>2. /\ \A v \in Update : v # u => pc'[v] = pc[v]
      /\ \A v \in Update : Live(v)' <=> Live(v)
      /\ pc'[u] \in PC /\ crashed' = crashed
      /\ records \subseteq Update /\ records' \subseteq Update
  BY <1>1, OthersStay DEF LockInv, Live, TypeInv, TypeOK
<1> USE <1>1, <1>2 DEF LockInv
<1>3. CASE Mkdir(u)
  <2>1. pc[u] = "mkdir" /\ records' = records /\ seen' = seen
    BY <1>3 DEF Mkdir, fileVars, callVars
  <2>2. \/ lock /\ pc'[u] = "read" /\ (lock' <=> lock) /\ (aged' <=> aged)
        \/ ~lock /\ pc'[u] = "open" /\ lock' /\ ~aged'
    BY <1>3, OthersStay, SMT DEF Mkdir, Goto, TypeInv, TypeOK, fileVars, callVars
  <2>9. lock \/ \A v \in Update : Live(v) => pc[v] \notin Owning
    BY DEF OwnerHasLock
  <2>3. SoleOwner'
    BY <2>1, <2>2, <2>9, SMT DEF SoleOwner, Owning, Emptied, Updating
  <2>4. OwnerHasLock'
    BY <2>1, <2>2, <2>9, SMT DEF OneRecord, OwnerHasLock, Owning, Emptied, Updating
  <2>5. OneRecord'
    BY <2>1, <2>2, SMT DEF OwnerHasLock, OneRecord, Owning, Emptied, Updating
  <2>6. DeadSeen'
    BY <2>1, <2>2, SMT DEF DeadSeen
  <2>7. EmptyAttended'
    BY <2>1, <2>2, SMT DEF EmptyAttended, EmptyHanded, Emptied, OwnerHasLock, OneRecord, Owning
  <2>8. NeverStale'
    BY <2>1, <2>2, SMT DEF NeverStale, EmptyAttended, OneRecord
  <2> QED
    BY <2>3, <2>4, <2>5, <2>6, <2>7, <2>8
<1>4. CASE OpenRecord(u)
  <2>1. pc[u] = "open" /\ (lock' <=> lock) /\ seen' = seen
    BY <1>4 DEF OpenRecord, fileVars
  <2>2. \/ lock /\ records' = records \cup {u} /\ ~aged' /\ pc'[u] \in {"load", "abandon"}
        \/ pc'[u] = "abandon" /\ records' = records /\ (aged' <=> aged)
    BY <1>4, OthersStay, SMT DEF OpenRecord, Goto, TypeInv, TypeOK, fileVars
  <2>3. SoleOwner'
    BY <2>1, <2>2, SMT DEF SoleOwner, Owning, Emptied, Updating
  <2>4. OwnerHasLock'
    BY <2>1, <2>2, SMT DEF SoleOwner, OwnerHasLock, Owning, Emptied, Updating
  <2>5. OneRecord'
    BY <2>1, <2>2, SMT DEF OwnerHasLock, OneRecord, Owning, Emptied, Updating
  <2>6. DeadSeen'
    BY <2>1, <2>2, SMT DEF DeadSeen
  <2>7. EmptyAttended'
    BY <2>1, <2>2, SMT DEF EmptyAttended, EmptyHanded, Emptied, OwnerHasLock, OneRecord, Owning
  <2>8. NeverStale'
    BY <2>1, <2>2, SMT DEF NeverStale, EmptyAttended, OneRecord
  <2> QED
    BY <2>3, <2>4, <2>5, <2>6, <2>7, <2>8
<1>5. CASE Abandon(u)
  <2>1. pc[u] = "abandon" /\ (lock' <=> lock) /\ seen' = seen
    BY <1>5 DEF Abandon, fileVars, callVars
  <2>2. /\ pc'[u] = "rmdirOwn" /\ records' = records \ {u}
        /\ aged' <=> aged /\ u \notin records
    <3>1. aged' = (aged /\ u \notin records) /\ records' = records \ {u} /\ Goto(u, "rmdirOwn")
      BY <1>5 DEF Abandon
    <3> QED
      BY <3>1, GotoType DEF TypeInv, TypeOK, PC
  <2>3. SoleOwner'
    BY <2>1, <2>2, SMT DEF SoleOwner, Owning, Emptied, Updating
  <2>4. OwnerHasLock'
    BY <2>1, <2>2, SMT DEF SoleOwner, OwnerHasLock, Owning, Emptied, Updating
  <2>5. OneRecord'
    BY <2>1, <2>2, SMT DEF OwnerHasLock, OneRecord, Owning, Emptied, Updating
  <2>6. DeadSeen'
    BY <2>1, <2>2, SMT DEF DeadSeen
  <2>7. EmptyAttended'
    BY <2>1, <2>2, SMT DEF EmptyAttended, EmptyHanded, Emptied, OwnerHasLock, OneRecord, Owning
  <2>8. NeverStale'
    BY <2>1, <2>2, SMT DEF NeverStale, EmptyAttended, OneRecord
  <2> QED
    BY <2>3, <2>4, <2>5, <2>6, <2>7, <2>8
<1>6. CASE ReadRecord(u)
  <2>1. pc[u] = "read" /\ records' = records /\ (lock' <=> lock) /\ (aged' <=> aged)
    BY <1>6 DEF ReadRecord, lockVars, StillOwns
  <2>2. \/ records = {} /\ pc'[u] = "stat" /\ seen' = seen
        \/ pc'[u] \in {"wait", "end"} /\ seen' = seen
        \/ pc'[u] = "unlinkDead" /\ \E o \in records : seen' = [seen EXCEPT ![u] = o] /\ o \in crashed
    BY <1>6, OthersStay, SMT DEF ReadRecord, Goto, TypeInv, TypeOK, lockVars, StillOwns
  <2>3. SoleOwner'
    BY <2>1, <2>2, SMT DEF SoleOwner, Owning, Emptied, Updating
  <2>4. OwnerHasLock'
    BY <2>1, <2>2, SMT DEF SoleOwner, OwnerHasLock, Owning, Emptied, Updating
  <2>5. OneRecord'
    BY <2>1, <2>2, SMT DEF OwnerHasLock, OneRecord, Owning, Emptied, Updating
  <2>6. DeadSeen'
    <3>1. pc'[u] = "unlinkDead" => seen'[u] \in crashed
      BY <2>2, SMT DEF TypeInv, TypeOK
    <3>2. \A v \in Update : v # u => seen'[v] = seen[v]
      BY <2>2, SMT DEF TypeInv, TypeOK
    <3> QED
      BY <3>1, <3>2 DEF DeadSeen
  <2>7. EmptyAttended'
    BY <2>1, <2>2, SMT DEF EmptyAttended, EmptyHanded, Emptied, OwnerHasLock, OneRecord, Owning
  <2>8. NeverStale'
    BY <2>1, <2>2, SMT DEF NeverStale, EmptyAttended, OneRecord
  <2> QED
    BY <2>3, <2>4, <2>5, <2>6, <2>7, <2>8
<1>7. CASE StatEmpty(u)
  <2>1. pc[u] = "stat" /\ records' = records /\ (lock' <=> lock) /\ (aged' <=> aged) /\ seen' = seen
    BY <1>7 DEF StatEmpty, lockVars, callVars
  <2>2. \/ lock /\ aged /\ pc'[u] = "rmdirStale"
        \/ pc'[u] = "wait"
    BY <1>7, OthersStay, SMT DEF StatEmpty, Goto, TypeInv, TypeOK, lockVars, callVars
  <2>3. SoleOwner'
    BY <2>1, <2>2, SMT DEF SoleOwner, Owning, Emptied, Updating
  <2>4. OwnerHasLock'
    BY <2>1, <2>2, SMT DEF SoleOwner, OwnerHasLock, Owning, Emptied, Updating
  <2>5. OneRecord'
    BY <2>1, <2>2, SMT DEF OwnerHasLock, OneRecord, Owning, Emptied, Updating
  <2>6. DeadSeen'
    BY <2>1, <2>2, SMT DEF DeadSeen
  <2>7. EmptyAttended'
    BY <2>1, <2>2, SMT DEF EmptyAttended, EmptyHanded, Emptied, OwnerHasLock, OneRecord, Owning
  <2>8. NeverStale'
    BY <2>1, <2>2, SMT DEF NeverStale, EmptyAttended, OneRecord
  <2> QED
    BY <2>3, <2>4, <2>5, <2>6, <2>7, <2>8
<1>8. CASE RmdirStale(u)
  BY <1>8 DEF RmdirStale, NeverStale
<1>9. CASE UnlinkDead(u)
  <2>1. pc[u] = "unlinkDead" /\ (lock' <=> lock) /\ seen' = seen
    BY <1>9 DEF UnlinkDead, fileVars, callVars
  <2>2. \/ /\ seen[u] \in records /\ pc'[u] = "rmdirDead"
           /\ records' = records \ {seen[u]} /\ ~aged'
        \/ /\ seen[u] \notin records /\ pc'[u] = "wait"
           /\ records' = records /\ (aged' <=> aged)
    <3>1. aged' = (aged /\ seen[u] \notin records) /\ records' = records \ {seen[u]}
      BY <1>9 DEF UnlinkDead
    <3>2. seen[u] \notin records => records' = records
      BY <3>1
    <3>3. pc'[u] = IF seen[u] \in records THEN "rmdirDead" ELSE "wait"
      BY <1>9, SMT DEF UnlinkDead, Goto, TypeInv, TypeOK
    <3> QED
      BY <3>1, <3>2, <3>3
  <2>9. seen[u] \notin records \/ \A v \in Update : Live(v) => pc[v] \notin Owning
    BY <2>1 DEF OwnerHasLock, DeadSeen, Live
  <2>3. SoleOwner'
    BY <2>1, <2>2, <2>9, SMT DEF SoleOwner, Owning, Emptied, Updating
  <2>4. OwnerHasLock'
    BY <2>1, <2>2, <2>9, SMT DEF OneRecord, OwnerHasLock, Owning, Emptied, Updating
  <2>5. OneRecord'
    BY <2>1, <2>2, SMT DEF OwnerHasLock, OneRecord, Owning, Emptied, Updating
  <2>6. DeadSeen'
    BY <2>1, <2>2, SMT DEF DeadSeen
  <2>7. EmptyAttended'
    BY <2>1, <2>2, SMT DEF EmptyAttended, EmptyHanded, Emptied, OwnerHasLock, OneRecord, Owning
  <2>8. NeverStale'
    BY <2>1, <2>2, SMT DEF NeverStale, EmptyAttended, OneRecord
  <2> QED
    BY <2>3, <2>4, <2>5, <2>6, <2>7, <2>8
<1>10. CASE RmdirDead(u)
  <2>1. pc[u] = "rmdirDead" /\ records' = records /\ (lock' <=> lock /\ records # {}) /\ (aged' <=> aged) /\ seen' = seen
    BY <1>10 DEF RmdirDead, Rmdir, fileVars, callVars
  <2>2. pc'[u] \in {"mkdir", "wait"}
    BY <1>10, OthersStay, SMT DEF RmdirDead, Goto, TypeInv, TypeOK, Rmdir, fileVars, callVars
  <2>3. SoleOwner'
    BY <2>1, <2>2, SMT DEF SoleOwner, Owning, Emptied, Updating
  <2>4. OwnerHasLock'
    BY <2>1, <2>2, SMT DEF SoleOwner, OwnerHasLock, Owning, Emptied, Updating
  <2>5. OneRecord'
    BY <2>1, <2>2, SMT DEF OwnerHasLock, OneRecord, Owning, Emptied, Updating
  <2>6. DeadSeen'
    BY <2>1, <2>2, SMT DEF DeadSeen
  <2>7. EmptyAttended'
    BY <2>1, <2>2, SMT DEF EmptyAttended, EmptyHanded, Emptied, OwnerHasLock, OneRecord, Owning
  <2>8. NeverStale'
    BY <2>1, <2>2, SMT DEF NeverStale, EmptyAttended, OneRecord
  <2> QED
    BY <2>3, <2>4, <2>5, <2>6, <2>7, <2>8
<1>11. CASE Wait(u)
  <2>1. pc[u] = "wait" /\ records' = records /\ (lock' <=> lock) /\ (aged' <=> aged) /\ seen' = seen
    BY <1>11 DEF Wait, fileVars, lockVars
  <2>2. pc'[u] \in {"mkdir", "end"}
    BY <1>11, OthersStay, SMT DEF Wait, Goto, TypeInv, TypeOK, fileVars, lockVars
  <2>3. SoleOwner'
    BY <2>1, <2>2, SMT DEF SoleOwner, Owning, Emptied, Updating
  <2>4. OwnerHasLock'
    BY <2>1, <2>2, SMT DEF SoleOwner, OwnerHasLock, Owning, Emptied, Updating
  <2>5. OneRecord'
    BY <2>1, <2>2, SMT DEF OwnerHasLock, OneRecord, Owning, Emptied, Updating
  <2>6. DeadSeen'
    BY <2>1, <2>2, SMT DEF DeadSeen
  <2>7. EmptyAttended'
    BY <2>1, <2>2, SMT DEF EmptyAttended, EmptyHanded, Emptied, OwnerHasLock, OneRecord, Owning
  <2>8. NeverStale'
    BY <2>1, <2>2, SMT DEF NeverStale, EmptyAttended, OneRecord
  <2> QED
    BY <2>3, <2>4, <2>5, <2>6, <2>7, <2>8
<1> QED
  BY <1>3, <1>4, <1>5, <1>6, <1>7, <1>8, <1>9, <1>10, <1>11 DEF ClaimStep

LEMMA LockUpdateStep ==
  ASSUME LockInv, NEW u \in Update, Live(u), UpdateStep(u)
  PROVE  LockInv'
<1>1. TypeInv'
  BY UpdateStepType DEF LockInv
<1>2. /\ \A v \in Update : v # u => pc'[v] = pc[v]
      /\ \A v \in Update : Live(v)' <=> Live(v)
      /\ pc'[u] \in PC /\ crashed' = crashed
      /\ records \subseteq Update /\ records' \subseteq Update
  BY <1>1, OthersStay DEF LockInv, Live, TypeInv, TypeOK
<1>3. seen' = seen
  BY DEF UpdateStep, Load, SaveTemporary, Rename, UpdateFails, DropTemporary, Release, RmdirOwn, callVars
<1> USE <1>1, <1>2, <1>3 DEF LockInv
<1>4. CASE Load(u) \/ SaveTemporary(u) \/ Rename(u) \/ UpdateFails(u) \/ DropTemporary(u)
  <2>1. records' = records /\ (lock' <=> lock) /\ (aged' <=> aged)
    BY <1>4 DEF Load, SaveTemporary, Rename, UpdateFails, DropTemporary, lockVars
  <2>2. pc[u] \in Updating /\ pc'[u] \in Updating
    <3>1. \E label \in Updating : Goto(u, label)
      BY <1>4 DEF Load, SaveTemporary, Rename, UpdateFails, DropTemporary, Updating
    <3> QED
      BY <1>4, <3>1, GotoType DEF Load, SaveTemporary, Rename, UpdateFails, DropTemporary, Updating, PC,
         TypeInv, TypeOK
  <2>3. SoleOwner'
    BY <2>1, <2>2, SMT DEF SoleOwner, Owning, Emptied, Updating
  <2>4. OwnerHasLock'
    BY <2>1, <2>2, SMT DEF SoleOwner, OwnerHasLock, Owning, Emptied, Updating
  <2>5. OneRecord'
    BY <2>1, <2>2, SMT DEF OwnerHasLock, OneRecord, Owning, Emptied, Updating
  <2>6. DeadSeen'
    BY <2>1, <2>2, SMT DEF DeadSeen, Updating
  <2>7. EmptyAttended'
    BY <2>1, <2>2, SMT DEF EmptyAttended, EmptyHanded, Emptied, Updating, OwnerHasLock, OneRecord,
       Owning
  <2>8. NeverStale'
    BY <2>1, <2>2, SMT DEF NeverStale, EmptyAttended, OneRecord, Updating
  <2> QED
    BY <2>3, <2>4, <2>5, <2>6, <2>7, <2>8
<1>5. CASE Release(u)
  <2>1. pc[u] = "release" /\ pc'[u] = "rmdirOwn" /\ (lock' <=> lock)
    BY <1>5, SMT DEF Release, Goto, TypeInv, TypeOK, OwnerHasLock, Owning, Updating
  <2>2. records' = records \ {u} /\ ~aged'
    BY <1>5 DEF Release, OwnerHasLock, Owning, Updating
  <2>3. SoleOwner'
    BY <2>1, <2>2, SMT DEF SoleOwner, Owning, Emptied, Updating
  <2>4. OwnerHasLock'
    BY <2>1, <2>2, SMT DEF SoleOwner, OwnerHasLock, Owning, Emptied, Updating
  <2>5. OneRecord'
    BY <2>1, <2>2, SMT DEF OwnerHasLock, OneRecord, Owning, Emptied, Updating
  <2>6. DeadSeen'
    BY <2>1, <2>2, SMT DEF DeadSeen
  <2>7. EmptyAttended'
    BY <2>1, <2>2, SMT DEF EmptyAttended, EmptyHanded, Emptied, Updating, OwnerHasLock, OneRecord,
       Owning
  <2>8. NeverStale'
    BY <2>1, <2>2, SMT DEF NeverStale, EmptyAttended, OneRecord
  <2> QED
    BY <2>3, <2>4, <2>5, <2>6, <2>7, <2>8
<1>6. CASE RmdirOwn(u)
  <2>1. pc[u] = "rmdirOwn" /\ pc'[u] = "end"
    BY <1>6, SMT DEF RmdirOwn, Goto, TypeInv, TypeOK
  <2>2. records' = records /\ (lock' <=> lock /\ records # {}) /\ (aged' <=> aged)
    BY <1>6 DEF RmdirOwn, Rmdir
  <2>3. SoleOwner'
    BY <2>1, <2>2, SMT DEF SoleOwner, Owning, Emptied, Updating
  <2>4. OwnerHasLock'
    BY <2>1, <2>2, SMT DEF SoleOwner, OwnerHasLock, Owning, Emptied, Updating
  <2>5. OneRecord'
    BY <2>1, <2>2, SMT DEF OwnerHasLock, OneRecord, Owning, Emptied, Updating
  <2>6. DeadSeen'
    BY <2>1, <2>2, SMT DEF DeadSeen
  <2>7. EmptyAttended'
    BY <2>1, <2>2, SMT DEF EmptyAttended, EmptyHanded, Emptied, Updating, OwnerHasLock, OneRecord,
       Owning
  <2>8. NeverStale'
    BY <2>1, <2>2, SMT DEF NeverStale, EmptyAttended, OneRecord
  <2> QED
    BY <2>3, <2>4, <2>5, <2>6, <2>7, <2>8
<1> QED
  BY <1>4, <1>5, <1>6 DEF UpdateStep

LEMMA LockStep == Punctual /\ LockInv /\ [Next]_vars => LockInv'
<1> SUFFICES ASSUME Punctual, LockInv, [Next]_vars PROVE LockInv'
  OBVIOUS
<1>1. TypeInv'
  BY TypeStep DEF LockInv
<1> USE <1>1 DEF LockInv
<1>2. ASSUME NEW w \in Web, NEW u \in Update, Start(w, u) PROVE LockInv'
  <2>1. /\ records' = records /\ (lock' <=> lock) /\ (aged' <=> aged)
        /\ seen' = seen /\ crashed' = crashed
    BY <1>2 DEF Start, lockVars
  <2>2. /\ \A v \in Update : v # u => pc'[v] = pc[v] /\ (Live(v)' <=> Live(v))
        /\ pc'[u] = "mkdir" /\ ~Live(u)
    BY <1>2, <2>1, SMT DEF Start, Goto, TypeInv, TypeOK, Live
  <2>3. SoleOwner'
    BY <2>1, <2>2, SMT DEF SoleOwner, Owning, Emptied, Updating
  <2>4. OwnerHasLock'
    BY <2>1, <2>2, SMT DEF SoleOwner, OwnerHasLock, Owning, Emptied, Updating
  <2>5. OneRecord'
    BY <2>1, <2>2, SMT DEF OwnerHasLock, OneRecord, Owning, Emptied, Updating
  <2>6. DeadSeen'
    BY <2>1, <2>2, SMT DEF DeadSeen
  <2>7. EmptyAttended'
    BY <2>1, <2>2, SMT DEF EmptyAttended, EmptyHanded, Emptied, Updating, OwnerHasLock, OneRecord,
       Owning
  <2>8. NeverStale'
    BY <2>1, <2>2, SMT DEF NeverStale, EmptyAttended, OneRecord
  <2> QED
    BY <2>3, <2>4, <2>5, <2>6, <2>7, <2>8
<1>3. CASE \E u \in Update : Step(u)
  BY <1>3, LockClaimStep, LockUpdateStep DEF Step
<1>4. CASE (\E u \in Update : DeadlinePasses(u)) \/ UNCHANGED vars
  <2>1. /\ records' = records /\ lock' = lock /\ aged' = aged
        /\ seen' = seen /\ crashed' = crashed /\ pc' = pc /\ home' = home
    BY <1>4 DEF DeadlinePasses, lockVars, callVars, vars
  <2>2. \A v \in Update : Live(v)' <=> Live(v)
    BY <2>1 DEF Live
  <2>3. SoleOwner'
    BY <2>1, <2>2, SMT DEF SoleOwner, Owning, Emptied, Updating
  <2>4. OwnerHasLock'
    BY <2>1, <2>2, SMT DEF SoleOwner, OwnerHasLock, Owning, Emptied, Updating
  <2>5. OneRecord'
    BY <2>1, <2>2, SMT DEF OwnerHasLock, OneRecord, Owning, Emptied, Updating
  <2>6. DeadSeen'
    BY <2>1, <2>2, SMT DEF DeadSeen
  <2>7. EmptyAttended'
    BY <2>1, <2>2, SMT DEF EmptyAttended, EmptyHanded, Emptied, Updating, OwnerHasLock, OneRecord,
       Owning
  <2>8. NeverStale'
    BY <2>1, <2>2, SMT DEF NeverStale, EmptyAttended, OneRecord
  <2> QED
    BY <2>3, <2>4, <2>5, <2>6, <2>7, <2>8
<1>5. CASE DirectoryAges
  <2>1. /\ records' = records /\ lock' = lock /\ lock
        /\ seen' = seen /\ crashed' = crashed /\ pc' = pc /\ home' = home
    BY <1>5 DEF DirectoryAges, callVars
  <2>2. /\ \A v \in Update : Live(v)' <=> Live(v)
        /\ \A v \in Update : Live(v) => pc[v] \notin InPass
    BY <1>5, <2>1 DEF DirectoryAges, Live, Punctual
  <2>3. SoleOwner'
    BY <2>1, <2>2, SMT DEF SoleOwner, Owning, Emptied, Updating
  <2>4. OwnerHasLock'
    BY <2>1, <2>2, SMT DEF SoleOwner, OwnerHasLock, Owning, Emptied, Updating
  <2>5. OneRecord'
    BY <2>1, <2>2, SMT DEF OwnerHasLock, OneRecord, Owning, Emptied, Updating
  <2>6. DeadSeen'
    BY <2>1, <2>2, SMT DEF DeadSeen
  <2>7. EmptyAttended'
    BY <2>1, <2>2, SMT DEF EmptyAttended, EmptyHanded, InPass, Emptied, Updating, OwnerHasLock,
       OneRecord, Owning
  <2>8. NeverStale'
    BY <2>1, <2>2, SMT DEF NeverStale, InPass, EmptyAttended, OneRecord
  <2> QED
    BY <2>3, <2>4, <2>5, <2>6, <2>7, <2>8
<1>6. ASSUME NEW w \in Web, Crash(w) PROVE LockInv'
  <2>1. /\ records' = records /\ (lock' <=> lock) /\ (aged' <=> aged)
        /\ seen' = seen /\ pc' = pc /\ home' = home /\ crashed \subseteq crashed'
    BY <1>6 DEF Crash, lockVars, callVars
  <2>2. /\ \A v \in Update : Live(v)' => Live(v)
        /\ \A v \in Update : Live(v) /\ EmptyHanded(v) => Live(v)'
    BY <1>6, <2>1 DEF Crash, Live, Punctual
  <2>3. SoleOwner'
    BY <2>1, <2>2, SMT DEF SoleOwner, Owning, Emptied, Updating
  <2>4. OwnerHasLock'
    BY <2>1, <2>2, SMT DEF SoleOwner, OwnerHasLock, Owning, Emptied, Updating
  <2>5. OneRecord'
    BY <2>1, <2>2, SMT DEF OwnerHasLock, OneRecord, Owning, Emptied, Updating
  <2>6. DeadSeen'
    BY <2>1, <2>2, SMT DEF DeadSeen
  <2>7. EmptyAttended'
    BY <2>1, <2>2, SMT DEF EmptyAttended, EmptyHanded, Emptied, Updating, OwnerHasLock, OneRecord,
       Owning
  <2>8. NeverStale'
    BY <2>1, <2>2, SMT DEF NeverStale, EmptyAttended, OneRecord
  <2> QED
    BY <2>3, <2>4, <2>5, <2>6, <2>7, <2>8
<1> QED
  BY <1>2, <1>3, <1>4, <1>5, <1>6 DEF Next

(* Updates exclude each other whatever owners died, as long as no crash and *)
(* no pause left the directory empty for thirty seconds.                    *)
THEOREM MutualExclusion == Punctual => (Spec => []OneUpdateAtATime)
<1> SUFFICES ASSUME Punctual PROVE Spec => []OneUpdateAtATime
  OBVIOUS
<1>1. LockInv => OneUpdateAtATime
  BY DEF LockInv, SoleOwner, OneUpdateAtATime, Inside, Owning
<1> QED
  BY <1>1, LockInit, LockStep, PTL DEF Spec

-----------------------------------------------------------------------------
(* Records of live owners.                                                  *)

RecordInv == TypeInv /\ DeadSeen

LEMMA RecordStep == RecordInv /\ [Next]_vars => RecordInv'
<1> SUFFICES ASSUME RecordInv, [Next]_vars PROVE RecordInv'
  OBVIOUS
<1>1. TypeInv'
  BY TypeStep DEF RecordInv
<1> USE <1>1 DEF RecordInv
<1>2. ASSUME NEW u \in Update, Live(u), ClaimStep(u) \/ UpdateStep(u) PROVE DeadSeen'
  <2>1. /\ \A v \in Update : v # u => pc'[v] = pc[v]
        /\ \A v \in Update : Live(v)' <=> Live(v)
        /\ crashed' = crashed
    BY <1>2, OthersStay DEF Live
  <2>2. CASE ReadRecord(u)
    <3>1. pc'[u] = "unlinkDead" => seen'[u] \in crashed
      BY <2>2, SMT DEF ReadRecord, StillOwns, Goto, TypeInv, TypeOK
    <3>2. \A v \in Update : v # u => seen'[v] = seen[v]
      BY <2>2, SMT DEF ReadRecord, TypeInv, TypeOK
    <3> QED
      BY <2>1, <3>1, <3>2 DEF DeadSeen
  <2>3. CASE ~ReadRecord(u)
    <3>1. seen' = seen
      BY <1>2, <2>3 DEF ClaimStep, Mkdir, OpenRecord, Abandon, StatEmpty, RmdirStale,
                        UnlinkDead, RmdirDead, Wait, UpdateStep, Load, SaveTemporary, Rename, UpdateFails,
                        DropTemporary, Release, RmdirOwn, callVars
    <3>2. \E label \in PC \ {"unlinkDead"} : Goto(u, label)
      <4> USE DEF PC, Claiming, Updating
      <4>1. CASE ClaimStep(u)
        BY <2>3, <4>1 DEF ClaimStep, Mkdir, OpenRecord, Abandon, StatEmpty,
                    RmdirStale, UnlinkDead, RmdirDead, Wait
      <4>2. CASE UpdateStep(u)
        BY <4>2 DEF UpdateStep, Load, SaveTemporary, Rename, UpdateFails, DropTemporary, Release, RmdirOwn
      <4> QED
        BY <1>2, <4>1, <4>2
    <3>3. pc'[u] # "unlinkDead"
      BY <3>2, GotoType DEF TypeInv, TypeOK
    <3> QED
      BY <2>1, <3>1, <3>3 DEF DeadSeen
  <2> QED
    BY <2>2, <2>3
<1>3. ASSUME NEW w \in Web, NEW u \in Update, Start(w, u) PROVE DeadSeen'
  <2>1. seen' = seen /\ crashed' = crashed
    BY <1>3 DEF Start
  <2>2. /\ \A v \in Update : v # u => pc'[v] = pc[v] /\ (Live(v)' <=> Live(v))
        /\ pc'[u] = "mkdir"
    BY <1>3, <2>1, SMT DEF Start, Goto, TypeInv, TypeOK, Live
  <2> QED
    BY <2>1, <2>2 DEF DeadSeen
<1>4. CASE (\E u \in Update : DeadlinePasses(u)) \/ DirectoryAges \/ UNCHANGED vars
  <2>1. seen' = seen /\ crashed' = crashed /\ pc' = pc /\ home' = home
    BY <1>4 DEF DeadlinePasses, DirectoryAges, callVars, vars
  <2> QED
    BY <2>1 DEF DeadSeen, Live
<1>5. ASSUME NEW w \in Web, Crash(w) PROVE DeadSeen'
  <2>1. seen' = seen /\ pc' = pc /\ home' = home /\ crashed \subseteq crashed'
    BY <1>5 DEF Crash, callVars
  <2> QED
    BY <2>1 DEF DeadSeen, Live
<1> QED
  BY <1>2, <1>3, <1>4, <1>5 DEF Next, Step

(* Only the owner of a record removes it, or a call that found its process  *)
(* dead: under every fault.                                                 *)
THEOREM RecordsAreKept == Spec => LiveRecordKept
<1> DEFINE Kept == \A o \in records \ records' : o \in crashed \/ pc[o] \in {"release", "abandon"}
<1>1. Init => RecordInv
  BY TypeInit DEF Init, RecordInv, DeadSeen
<1>2. RecordInv /\ [Next]_vars => [Kept]_vars
  <2> SUFFICES ASSUME RecordInv, Next PROVE Kept
    OBVIOUS
  <2>1. ASSUME NEW u \in Update, Live(u), ClaimStep(u) PROVE Kept
    BY <2>1 DEF ClaimStep, Mkdir, OpenRecord, Abandon, ReadRecord, StatEmpty, RmdirStale,
                UnlinkDead, RmdirDead, Wait, lockVars, RecordInv, DeadSeen
  <2>2. ASSUME NEW u \in Update, UpdateStep(u) PROVE Kept
    BY <2>2 DEF UpdateStep, Load, SaveTemporary, Rename, UpdateFails, DropTemporary, Release, RmdirOwn, lockVars
  <2>3. CASE \/ \E w \in Web, u \in Update : Start(w, u)
             \/ \E u \in Update : DeadlinePasses(u)
             \/ DirectoryAges
             \/ \E w \in Web : Crash(w)
    BY <2>3 DEF Start, DeadlinePasses, DirectoryAges, Crash, lockVars
  <2> QED
    BY <2>1, <2>2, <2>3 DEF Next, Step
<1> QED
  BY <1>1, <1>2, RecordStep, PTL DEF Spec, LiveRecordKept

-----------------------------------------------------------------------------
(* No lost update.                                                          *)

LEMMA UpdateInvInit == Init => UpdateInv
BY LockInit DEF Init, UpdateInv, LoadedIsCurrent, SavedOnce

(* A step of a call under the lock keeps what the others have loaded: there *)
(* are none, or the library stays as it is.                                 *)
LEMMA LoadedStep ==
  ASSUME UpdateInv, NEW u \in Update, Live(u), ClaimStep(u) \/ UpdateStep(u)
  PROVE  LoadedIsCurrent'
<1> USE DEF UpdateInv, LockInv
<1>1. /\ \A v \in Update : v # u => pc'[v] = pc[v]
      /\ \A v \in Update : Live(v)' <=> Live(v)
  BY OthersStay DEF Live
<1>2. /\ \A v \in Update : v # u => loaded'[v] = loaded[v]
      /\ DOMAIN loaded = Update
  BY DEF ClaimStep, Mkdir, OpenRecord, Abandon, ReadRecord, StatEmpty, RmdirStale,
         UnlinkDead, RmdirDead, Wait, UpdateStep, Load, SaveTemporary, Rename, UpdateFails,
         DropTemporary, Release, RmdirOwn, callVars, TypeInv, TypeOK
<1>3. CASE Load(u)
  <2>1. papers' = papers /\ loaded'[u] = papers
    BY <1>2, <1>3 DEF Load, fileVars
  <2>2. pc'[u] = "save" => papers # Corrupt /\ Patched(papers[PaperOf[u]], PatchOf[u]) # Invalid
    BY <1>3, SMT DEF Load, Goto, TypeInv, TypeOK
  <2>3. pc'[u] # "rename"
    BY <1>3, SMT DEF Load, Goto, TypeInv, TypeOK
  <2> QED
    BY <1>1, <1>2, <2>1, <2>2, <2>3 DEF LoadedIsCurrent, Target
<1>4. CASE SaveTemporary(u)
  <2>1. papers' = papers /\ loaded' = loaded /\ pc[u] = "save"
    BY <1>4 DEF SaveTemporary
  <2> QED
    BY <1>1, <2>1 DEF LoadedIsCurrent, Target
<1>5. CASE Rename(u)
  <2>1. pc[u] = "rename" /\ pc'[u] = "dropTmp"
    BY <1>5, SMT DEF Rename, Goto, TypeInv, TypeOK
  <2>2. \A v \in Update : Live(v) /\ v # u => pc[v] \notin {"save", "rename"}
    BY <2>1 DEF SoleOwner, Owning, Updating
  <2> QED
    BY <1>1, <2>1, <2>2 DEF LoadedIsCurrent
<1>6. CASE ~(Load(u) \/ SaveTemporary(u) \/ Rename(u))
  <2>1. papers' = papers /\ loaded' = loaded
    BY <1>6 DEF ClaimStep, Mkdir, OpenRecord, Abandon, ReadRecord, StatEmpty, RmdirStale,
         UnlinkDead, RmdirDead, Wait, UpdateStep, UpdateFails, DropTemporary, Release, RmdirOwn,
         callVars, fileVars
  <2>2. \E label \in PC \ {"save", "rename"} : Goto(u, label)
    <3> USE DEF PC, Claiming, Updating
    <3>1. CASE ClaimStep(u)
      BY <3>1 DEF ClaimStep, Mkdir, OpenRecord, Abandon, ReadRecord, StatEmpty,
                  RmdirStale, UnlinkDead, RmdirDead, Wait
    <3>2. CASE UpdateStep(u)
      BY <1>6, <3>2 DEF UpdateStep, UpdateFails, DropTemporary, Release, RmdirOwn
    <3> QED
      BY <3>1, <3>2
  <2>3. pc'[u] \notin {"save", "rename"}
    BY <2>2, GotoType DEF TypeInv, TypeOK
  <2> QED
    BY <1>1, <2>1, <2>3 DEF LoadedIsCurrent, Target
<1> QED
  BY <1>3, <1>4, <1>5, <1>6

(* The outcome "saved" is set by Rename, and no later step changes it.      *)
LEMMA OutcomeStep ==
  ASSUME UpdateInv, NEW u \in Update, Live(u), ClaimStep(u) \/ UpdateStep(u)
  PROVE  /\ SavedOnce'
         /\ ~Rename(u) => \A v \in Update : outcome'[v] = "saved" <=> outcome[v] = "saved"
         /\ Rename(u) => \A v \in Update : outcome'[v] = "saved" <=> v = u \/ outcome[v] = "saved"
<1> USE DEF UpdateInv, LockInv
<1>1. /\ \A v \in Update : v # u => pc'[v] = pc[v]
      /\ home' = home
  BY OthersStay
<1>2. CASE outcome' = outcome /\ ~Rename(u)
  <2>1. outcome[u] = "saved" => pc'[u] \in {"dropTmp", "release", "rmdirOwn", "end"}
    <3> SUFFICES ASSUME outcome[u] = "saved" PROVE pc'[u] \in {"release", "rmdirOwn", "end"}
      OBVIOUS
    <3>1. pc[u] \in {"dropTmp", "release", "rmdirOwn", "end"}
      BY DEF SavedOnce
    <3>2. \E label \in {"release", "rmdirOwn", "end"} : Goto(u, label)
      BY <3>1 DEF ClaimStep, Mkdir, OpenRecord, Abandon, ReadRecord, StatEmpty, RmdirStale,
           UnlinkDead, RmdirDead, Wait, UpdateStep, Load, SaveTemporary, Rename, UpdateFails,
           DropTemporary, Release, RmdirOwn
    <3> QED
      BY <3>2, GotoType DEF TypeInv, TypeOK, PC, Updating
  <2>2. home[u] # None
    BY DEF Live
  <2> QED
    BY <1>1, <1>2, <2>1, <2>2 DEF SavedOnce
<1>3. CASE ~Rename(u) /\ \E result \in {"rejected", "busy", "failed"} : Return(u, result)
  <2>1. \A v \in Update : v # u => outcome'[v] = outcome[v]
    BY <1>3 DEF Return, TypeInv, TypeOK
  <2>2. outcome'[u] # "saved"
    BY <1>3 DEF Return, TypeInv, TypeOK
  <2>3. pc[u] \in {"open", "read", "wait", "load", "save", "rename"} \/ outcome' = outcome
    BY <1>3 DEF ClaimStep, Mkdir, OpenRecord, Abandon, ReadRecord, StatEmpty, RmdirStale,
           UnlinkDead, RmdirDead, Wait, UpdateStep, Load, SaveTemporary, UpdateFails,
           DropTemporary, Release, RmdirOwn, callVars
  <2>4. outcome[u] # "saved"
    BY <2>2, <2>3 DEF SavedOnce
  <2>5. home[u] # None
    BY DEF Live
  <2> QED
    BY <1>1, <1>3, <2>1, <2>2, <2>4, <2>5 DEF SavedOnce
<1>4. CASE Rename(u)
  <2>1. Return(u, "saved") /\ Goto(u, "dropTmp")
    BY <1>4 DEF Rename
  <2>2. \A v \in Update : outcome'[v] = IF v = u THEN "saved" ELSE outcome[v]
    BY <2>1 DEF Return, TypeInv, TypeOK
  <2>3. pc'[u] = "dropTmp"
    BY <2>1, GotoType DEF TypeInv, TypeOK, PC, Updating
  <2>4. home[u] # None
    BY DEF Live
  <2> QED
    BY <1>1, <1>4, <2>2, <2>3, <2>4 DEF SavedOnce
<1>5. ~Rename(u) => outcome' = outcome \/ \E result \in {"rejected", "busy", "failed"} : Return(u, result)
  BY DEF ClaimStep, Mkdir, OpenRecord, Abandon, ReadRecord, StatEmpty, RmdirStale,
         UnlinkDead, RmdirDead, Wait, UpdateStep, Load, SaveTemporary, UpdateFails,
         DropTemporary, Release, RmdirOwn, callVars
<1> QED
  BY <1>2, <1>3, <1>4, <1>5

LEMMA OtherStep ==
  ASSUME UpdateInv,
         \/ \E w \in Web, u \in Update : Start(w, u)
         \/ \E u \in Update : DeadlinePasses(u)
         \/ DirectoryAges
         \/ \E w \in Web : Crash(w)
         \/ UNCHANGED vars
  PROVE  /\ LoadedIsCurrent' /\ SavedOnce'
         /\ papers' = papers /\ outcome' = outcome
<1> USE DEF UpdateInv, LockInv
<1>1. papers' = papers /\ outcome' = outcome /\ loaded' = loaded
  BY DEF Start, DeadlinePasses, DirectoryAges, Crash, vars, callVars, fileVars
<1>2. ASSUME NEW w \in Web, NEW u \in Update, Start(w, u) PROVE LoadedIsCurrent' /\ SavedOnce'
  <2>1. /\ \A v \in Update : v # u => pc'[v] = pc[v] /\ (Live(v)' <=> Live(v)) /\ home'[v] = home[v]
        /\ pc'[u] = "mkdir" /\ pc[u] = "idle" /\ home'[u] # None
    BY <1>2, NoneAssumption, SMT DEF Start, Goto, TypeInv, TypeOK, Live, SavedOnce
  <2>2. outcome[u] # "saved"
    BY <2>1 DEF SavedOnce
  <2> QED
    BY <1>1, <2>1, <2>2 DEF LoadedIsCurrent, SavedOnce, Target
<1>3. CASE ~\E w \in Web, u \in Update : Start(w, u)
  <2>1. home' = home /\ pc' = pc /\ crashed \subseteq crashed'
    BY <1>3 DEF DeadlinePasses, DirectoryAges, Crash, vars, callVars
  <2> QED
    BY <1>1, <2>1 DEF LoadedIsCurrent, SavedOnce, Target, Live
<1> QED
  BY <1>1, <1>2, <1>3

LEMMA UpdateInvStep == Punctual /\ UpdateInv /\ [Next]_vars => UpdateInv'
<1> SUFFICES ASSUME Punctual, UpdateInv, [Next]_vars PROVE UpdateInv'
  OBVIOUS
<1>1. LockInv'
  BY LockStep DEF UpdateInv
<1>2. LoadedIsCurrent' /\ SavedOnce'
  BY OtherStep, LoadedStep, OutcomeStep DEF Next, Step
<1> QED
  BY <1>1, <1>2 DEF UpdateInv

(* Rename is Apply of the abstract library; no other step touches it.       *)
LEMMA StepImplements ==
  ASSUME UpdateInv, [Next]_vars
  PROVE  [Library!Next]_<<papers, {u \in Update : outcome[u] = "saved"}>>
<1>1. ASSUME NEW u \in Update, Live(u), Rename(u)
      PROVE  Library!Apply(u)
  <2>1. pc[u] = "rename"
    BY <1>1 DEF Rename
  <2>2. loaded[u] = papers /\ papers # Corrupt /\ Target(u) # Invalid /\ outcome[u] # "saved"
    BY <1>1, <2>1 DEF UpdateInv, LoadedIsCurrent, SavedOnce
  <2>3. papers' = [papers EXCEPT ![PaperOf[u]] = Patched(papers[PaperOf[u]], PatchOf[u])]
    BY <1>1, <2>2 DEF Rename, Target
  <2>4. {v \in Update : outcome'[v] = "saved"} = {v \in Update : outcome[v] = "saved"} \cup {u}
    BY <1>1, OutcomeStep DEF UpdateStep
  <2> QED
    BY <2>2, <2>3, <2>4 DEF Library!Apply, Target
<1>2. ASSUME NEW u \in Update, Live(u), ClaimStep(u) \/ UpdateStep(u), ~Rename(u)
      PROVE  papers' = papers /\ {v \in Update : outcome'[v] = "saved"} = {v \in Update : outcome[v] = "saved"}
  <2>1. papers' = papers
    BY <1>2 DEF ClaimStep, Mkdir, OpenRecord, Abandon, ReadRecord, StatEmpty, RmdirStale,
         UnlinkDead, RmdirDead, Wait, UpdateStep, Load, SaveTemporary, UpdateFails, DropTemporary,
         Release, RmdirOwn, fileVars
  <2>2. \A v \in Update : outcome'[v] = "saved" <=> outcome[v] = "saved"
    BY <1>2, OutcomeStep
  <2> QED
    BY <2>1, <2>2
<1>3. CASE \E u \in Update : Step(u)
  <2>1. PICK u \in Update : Step(u)
    BY <1>3
  <2> QED
    BY <1>1, <1>2, <2>1 DEF Step, Library!Next
<1> QED
  BY <1>3, OtherStep DEF Next

(* No update is lost: the saved library is the result of applying the saved *)
(* updates one after the other, each to the library before it.              *)
THEOREM Refinement == Punctual => (Spec => ImplementsLibraryUpdates)
<1> SUFFICES ASSUME Punctual PROVE Spec => ImplementsLibraryUpdates
  OBVIOUS
<1>1. Init => {u \in Update : outcome[u] = "saved"} = {}
  BY DEF Init
<1> QED
  BY <1>1, UpdateInvInit, UpdateInvStep, StepImplements, PTL
  DEF Spec, ImplementsLibraryUpdates, Library!Spec

(* The claim never throws for another's sake: every call that is not busy   *)
(* gets to its update.                                                      *)
THEOREM NoFailure == Punctual /\ "io_error" \notin Faults => (Spec => []NoSpuriousFailure)
<1> SUFFICES ASSUME Punctual, "io_error" \notin Faults PROVE Spec => []NoSpuriousFailure
  OBVIOUS
<1>1. Init => NoSpuriousFailure
  BY DEF Init, NoSpuriousFailure
<1>2. LockInv /\ NoSpuriousFailure /\ [Next]_vars => NoSpuriousFailure'
  <2> SUFFICES ASSUME LockInv, NoSpuriousFailure, Next PROVE NoSpuriousFailure'
    BY DEF vars, callVars, NoSpuriousFailure
  <2>1. ASSUME NEW u \in Update, Live(u), OpenRecord(u) PROVE NoSpuriousFailure'
    <3>1. lock
      BY <2>1 DEF OpenRecord, LockInv, OwnerHasLock, Owning, Emptied
    <3> QED
      BY <2>1, <3>1 DEF OpenRecord, NoSpuriousFailure
  <2>2. ASSUME NEW u \in Update, Live(u), ReadRecord(u) PROVE NoSpuriousFailure'
    BY <2>2 DEF ReadRecord, LockInv, OneRecord, NoSpuriousFailure
  <2>3. ASSUME NEW u \in Update, Wait(u) \/ Load(u) \/ SaveTemporary(u) \/ Rename(u) \/ UpdateFails(u)
        PROVE  NoSpuriousFailure'
    <3>1. outcome' = outcome \/ \E result \in {"busy", "rejected", "saved"} : Return(u, result)
      BY <2>3 DEF Wait, Load, SaveTemporary, Rename, UpdateFails
    <3> QED
      BY <3>1, SMT DEF Return, NoSpuriousFailure, LockInv, TypeInv, TypeOK
  <2>4. ASSUME NEW u \in Update,
               \/ Mkdir(u) \/ Abandon(u) \/ StatEmpty(u) \/ RmdirStale(u) \/ UnlinkDead(u)
               \/ RmdirDead(u) \/ DropTemporary(u) \/ Release(u) \/ RmdirOwn(u)
        PROVE  NoSpuriousFailure'
    BY <2>4 DEF Mkdir, Abandon, StatEmpty, RmdirStale, UnlinkDead, RmdirDead, DropTemporary,
                Release, RmdirOwn, callVars, NoSpuriousFailure
  <2>5. CASE \/ \E w \in Web, u \in Update : Start(w, u)
             \/ \E u \in Update : DeadlinePasses(u)
             \/ DirectoryAges
             \/ \E w \in Web : Crash(w)
    BY <2>5 DEF Start, DeadlinePasses, DirectoryAges, Crash, callVars, NoSpuriousFailure
  <2> QED
    BY <2>1, <2>2, <2>3, <2>4, <2>5 DEF Next, Step, ClaimStep, UpdateStep
<1> QED
  BY <1>1, <1>2, LockInit, LockStep, PTL DEF Spec

-----------------------------------------------------------------------------
(* The rules of the host: what the folds of their models compute.          *)

(* The least-number principle for sets of naturals, and induction from it. *)
LEMMA LeastNatural ==
  ASSUME NEW T, T \subseteq Nat, T # {}
  PROVE  \E x \in T : \A y \in T : x <= y
<1> DEFINE R == OpToRel(<, Nat)
<1>1. IsWellFoundedOn(R, Nat)
  BY NatLessThanWellFounded
<1>2. \A y, x \in Nat : y < x => <<y, x>> \in R
  BY DEF OpToRel
<1> HIDE DEF R
<1>3. PICK x \in T : \A y \in T : ~ (<<y, x>> \in R)
  BY <1>1, WFMin
<1>4. ASSUME NEW y \in T PROVE x <= y
  <2>1. y \in Nat /\ x \in Nat /\ ~ (y < x)
    BY <1>2, <1>3
  <2> QED
    BY <2>1
<1> QED
  BY <1>4

LEMMA UpTo ==
  ASSUME NEW n \in Nat, NEW T, 0 \in T, \A k \in 1 .. n : k - 1 \in T => k \in T
  PROVE  0 .. n \subseteq T
<1> SUFFICES ASSUME (0 .. n) \ T # {} PROVE FALSE
  OBVIOUS
<1>1. PICK x \in (0 .. n) \ T : \A y \in (0 .. n) \ T : x <= y
  <2>1. (0 .. n) \ T \subseteq Nat
    OBVIOUS
  <2> QED
    BY <2>1, LeastNatural
<1>2. x \in 1 .. n /\ x - 1 \in 0 .. n /\ ~ (x <= x - 1)
  BY <1>1
<1> QED
  BY <1>1, <1>2

LEMMA MaxOf ==
  ASSUME NEW n \in Nat, NEW s \in SUBSET (1 .. n), s # {}
  PROVE  Max(s) \in s /\ \A y \in s : Max(s) >= y
<1> DEFINE T == {n - x : x \in s}
<1>1. T \subseteq Nat /\ T # {}
  <2>1. \A x \in s : x \in Nat /\ x <= n
    OBVIOUS
  <2>2. PICK x \in s : TRUE
    OBVIOUS
  <2>3. \A y \in s : n - y \in Nat
    BY <2>1
  <2> QED
    BY <2>2, <2>3
<1>2. PICK d \in T : \A y \in T : d <= y
  <2> HIDE DEF T
  <2> QED
    BY <1>1, LeastNatural
<1>3. PICK x \in s : d = n - x
  BY <1>2
<1>4. \A y \in s : x >= y
  <2> SUFFICES ASSUME NEW y \in s PROVE x >= y
    OBVIOUS
  <2>1. d <= n - y /\ x \in 1 .. n /\ y \in 1 .. n
    BY <1>2, <1>3
  <2> QED
    BY <2>1, <1>3
<1> QED
  BY <1>4 DEF Max

LEMMA TopOf ==
  ASSUME NEW m \in Nat, NEW s \in SUBSET (1 .. m), m \in s
  PROVE  Max(s) = m
<1>1. Max(s) \in s /\ \A y \in s : Max(s) >= y
  BY MaxOf
<1>2. Max(s) \in 1 .. m /\ Max(s) >= m
  BY <1>1
<1> QED
  BY <1>2

\* f folds step over every set of indices, from the least to the greatest.
FoldsSets(f, n, V, base, step) ==
  /\ f \in [SUBSET (1 .. n) -> V]
  /\ \A s \in SUBSET (1 .. n) : f[s] = IF s = {} THEN base ELSE step[<<Max(s), f[s \ {Max(s)}]>>]
LEMMA SetIterates ==
  ASSUME NEW n \in Nat, NEW V, NEW base \in V, NEW step \in [(1 .. n) \X V -> V]
  PROVE  \E f : FoldsSets(f, n, V, base, step)
<1> DEFINE At(f, s) == IF s = {} THEN base ELSE step[<<Max(s), f[s \ {Max(s)}]>>]
           Solvable(m) == \E f \in [SUBSET (1 .. m) -> V] : \A s \in SUBSET (1 .. m) : f[s] = At(f, s)
           T == {m \in 0 .. n : Solvable(m)}
<1>1. Solvable(0)
  <2> DEFINE f == [s \in SUBSET (1 .. 0) |-> base]
  <2>1. \A s \in SUBSET (1 .. 0) : s = {}
    OBVIOUS
  <2>2. f \in [SUBSET (1 .. 0) -> V] /\ \A s \in SUBSET (1 .. 0) : f[s] = At(f, s)
    BY <2>1
  <2> QED
    <3> HIDE DEF f, At
    <3> QED
      BY <2>2
<1>2. ASSUME NEW m \in 1 .. n, Solvable(m - 1) PROVE Solvable(m)
  <2>1. PICK f \in [SUBSET (1 .. m - 1) -> V] : \A s \in SUBSET (1 .. m - 1) : f[s] = At(f, s)
    BY <1>2
  <2> DEFINE g == [s \in SUBSET (1 .. m) |-> IF m \in s THEN step[<<m, f[s \ {m}]>>] ELSE f[s]]
  <2>2. \A s \in SUBSET (1 .. m) : s \ {m} \in SUBSET (1 .. m - 1)
    OBVIOUS
  <2>3. g \in [SUBSET (1 .. m) -> V]
    <3>1. \A s \in SUBSET (1 .. m) : f[s \ {m}] \in V
      BY <2>1, <2>2
    <3>2. \A s \in SUBSET (1 .. m) : m \in s => step[<<m, f[s \ {m}]>>] \in V
      BY <3>1
    <3>3. \A s \in SUBSET (1 .. m) : m \notin s => f[s] \in V
      <4> SUFFICES ASSUME NEW s \in SUBSET (1 .. m), m \notin s PROVE f[s] \in V
        OBVIOUS
      <4>1. s \ {m} = s
        OBVIOUS
      <4> QED
        BY <3>1, <4>1
    <3> QED
      BY <3>2, <3>3
  <2>4. \A s \in SUBSET (1 .. m) : g[s] = IF m \in s THEN step[<<m, f[s \ {m}]>>] ELSE f[s]
    OBVIOUS
  <2> HIDE DEF g
  <2>5. ASSUME NEW s \in SUBSET (1 .. m) PROVE g[s] = At(g, s)
    <3>1. CASE m \in s
      <4>1. m \in Nat
        OBVIOUS
      <4>3. Max(s) = m
        BY <3>1, <4>1, TopOf
      <4>4. g[s \ {m}] = f[s \ {m}]
        BY <2>4
      <4> QED
        BY <2>4, <3>1, <4>3, <4>4
    <3>2. CASE m \notin s
      <4>1. s \in SUBSET (1 .. m - 1)
        BY <3>2
      <4>2. g[s] = f[s] /\ f[s] = At(f, s)
        BY <2>1, <2>4, <3>2, <4>1
      <4>3. g[s \ {Max(s)}] = f[s \ {Max(s)}]
        BY <2>4, <3>2
      <4> QED
        BY <4>2, <4>3
    <3> QED
      BY <3>1, <3>2
  <2> QED
    <3> HIDE DEF At
    <3> QED
      BY <2>3, <2>5
<1> HIDE DEF Solvable
<1>3. 0 .. n \subseteq T
  <2>1. 0 \in T
    BY <1>1
  <2>2. \A k \in 1 .. n : k - 1 \in T => k \in T
    BY <1>2
  <2> HIDE DEF T
  <2> QED
    BY <2>1, <2>2, UpTo
<1>4. Solvable(n)
  BY <1>3
<1> QED
  BY <1>4 DEF Solvable, FoldsSets

\* iter is such a fold as long as it stays in V.
IteratesSets(iter, n, V, base, step) ==
  /\ iter[{}] = base
  /\ \A x \in SUBSET (1 .. n) :
       x # {} /\ iter[x \ {Max(x)}] \in V => iter[x] = step[<<Max(x), iter[x \ {Max(x)}]>>]
\* h holds what the fold has made of the first k elements.
FoldsUp(h, iter, n, V, base, step) ==
  /\ h \in [0 .. n -> V]
  /\ h[0] = base /\ h[n] = iter[1 .. n]
  /\ \A k \in 1 .. n : h[k] = step[<<k, h[k - 1]>>]

LEMMA FoldSteps ==
  ASSUME NEW n \in Nat, NEW V, NEW base \in V, NEW step \in [(1 .. n) \X V -> V], NEW iter,
         IteratesSets(iter, n, V, base, step)
  PROVE  \E h : FoldsUp(h, iter, n, V, base, step)
<1> DEFINE h == [k \in 0 .. n |-> iter[1 .. k]]
           T == {k \in 0 .. n : iter[1 .. k] \in V}
<1>1. ASSUME NEW k \in 1 .. n, iter[1 .. k - 1] \in V
      PROVE  iter[1 .. k] = step[<<k, iter[1 .. k - 1]>>]
  <2>1. 1 .. k \in SUBSET (1 .. n) /\ k \in 1 .. k /\ k \in Nat
    OBVIOUS
  <2>2. (1 .. k) \ {k} = 1 .. k - 1
    OBVIOUS
  <2>3. Max(1 .. k) = k
    BY <2>1, TopOf
  <2> QED
    BY <1>1, <2>1, <2>2, <2>3 DEF IteratesSets
<1>2. 1 .. 0 = {} /\ 0 \in 0 .. n /\ n \in 0 .. n
  OBVIOUS
<1>3. 0 \in T
  BY <1>2 DEF IteratesSets
<1>4. ASSUME NEW k \in 1 .. n, k - 1 \in T PROVE k \in T
  <2>1. k \in 0 .. n /\ iter[1 .. k - 1] \in V
    BY <1>4
  <2> QED
    BY <1>1, <2>1
<1>5. 0 .. n \subseteq T
  <2> HIDE DEF T
  <2> QED
    BY <1>3, <1>4, UpTo
<1>6. h \in [0 .. n -> V] /\ h[0] = base /\ h[n] = iter[1 .. n]
  BY <1>2, <1>5 DEF IteratesSets
<1>7. ASSUME NEW k \in 1 .. n PROVE h[k] = step[<<k, h[k - 1]>>]
  <2>1. k \in 0 .. n /\ k - 1 \in 0 .. n
    OBVIOUS
  <2> QED
    BY <1>1, <1>5, <2>1
<1> HIDE DEF h
<1> QED
  BY <1>6, <1>7 DEF FoldsUp

(* The folds of the models, one by one: op takes values of V to values of V. *)
LEMMA KeepFirstFold ==
  ASSUME NEW s \in Seq(Tag)
  PROVE  \E h \in [0 .. Len(s) -> Seq(Tag)] :
           /\ h[0] = <<>> /\ \A k \in 1 .. Len(s) : h[k] = KeepFirst(h[k - 1], s[k])
           /\ FoldLeft(KeepFirst, <<>>, s) = h[Len(s)]
<1> DEFINE n == Len(s)
           V == Seq(Tag)
           step == [p \in (1 .. n) \X V |-> KeepFirst(p[2], s[p[1]])]
           Solves(f) == f = [x \in SUBSET DOMAIN s |->
                               IF x = {} THEN <<>> ELSE KeepFirst(f[x \ {Max(x)}], s[Max(x)])]
           iter == CHOOSE f : Solves(f)
<1>1. FoldLeft(KeepFirst, <<>>, s) = iter[DOMAIN s]
  BY DEF FoldLeft, MapThenFoldSet
<1>2. n \in Nat /\ DOMAIN s = 1 .. n /\ <<>> \in V /\ \A k \in 1 .. n : s[k] \in Tag
  OBVIOUS
<1>3. \A v \in V, t \in Tag : KeepFirst(v, t) \in V
  BY DEF KeepFirst
<1>4. step \in [(1 .. n) \X V -> V] /\ \A k \in 1 .. n, v \in V : step[<<k, v>>] = KeepFirst(v, s[k])
  BY <1>2, <1>3
<1> HIDE DEF step
<1>5. PICK f : FoldsSets(f, n, V, <<>>, step)
  BY <1>2, <1>4, SetIterates
<1>6. Solves(f)
  <2>1. ASSUME NEW x \in SUBSET (1 .. n), x # {}
        PROVE f[x] = KeepFirst(f[x \ {Max(x)}], s[Max(x)])
    <3>1. Max(x) \in 1 .. n /\ x \ {Max(x)} \in SUBSET (1 .. n)
      BY <2>1, <1>2, MaxOf
    <3> QED
      BY <1>4, <1>5, <2>1, <3>1 DEF FoldsSets
  <2> QED
    BY <1>2, <1>5, <2>1 DEF FoldsSets
<1>7. Solves(iter)
  <2> HIDE DEF Solves
  <2> QED
    BY <1>6
<1> HIDE DEF iter
<1>8. iter[{}] = <<>>
  BY <1>2, <1>7
<1>9. ASSUME NEW x \in SUBSET (1 .. n), x # {}, iter[x \ {Max(x)}] \in V
      PROVE  iter[x] = step[<<Max(x), iter[x \ {Max(x)}]>>]
  <2>1. Max(x) \in 1 .. n
    BY <1>2, <1>9, MaxOf
  <2> QED
    BY <1>2, <1>4, <1>7, <1>9, <2>1
<1>10. PICK h : FoldsUp(h, iter, n, V, <<>>, step)
  <2> HIDE DEF n, V
  <2>1. IteratesSets(iter, n, V, <<>>, step)
    BY <1>8, <1>9 DEF IteratesSets
  <2> QED
    BY <1>2, <1>4, <2>1, FoldSteps
<1>11. ASSUME NEW k \in 1 .. n PROVE h[k] = KeepFirst(h[k - 1], s[k])
  <2>1. k - 1 \in 0 .. n
    BY <1>2
  <2>2. h[k - 1] \in V /\ h[k] = step[<<k, h[k - 1]>>]
    BY <1>10, <2>1 DEF FoldsUp
  <2> QED
    BY <1>4, <2>2
<1>12. h \in [0 .. n -> V] /\ h[0] = <<>>
  BY <1>10 DEF FoldsUp
<1>13. FoldLeft(KeepFirst, <<>>, s) = h[n]
  BY <1>1, <1>2, <1>10 DEF FoldsUp
<1> QED
  BY <1>11, <1>12, <1>13

LEMMA WithoutFold ==
  ASSUME NEW s \in Seq(Tag), NEW gone
  PROVE  \E h \in [0 .. Len(s) -> Seq(Tag)] :
           /\ h[0] = <<>>
           /\ \A k \in 1 .. Len(s) :
                h[k] = IF Fold[s[k]] \in gone THEN h[k - 1] ELSE Append(h[k - 1], s[k])
           /\ Without(s, gone) = h[Len(s)]
<1> DEFINE n == Len(s)
           V == Seq(Tag)
           Drop(v, t) == IF Fold[t] \in gone THEN v ELSE Append(v, t)
           step == [p \in (1 .. n) \X V |-> Drop(p[2], s[p[1]])]
           Solves(f) == f = [x \in SUBSET DOMAIN s |->
                               IF x = {} THEN <<>> ELSE Drop(f[x \ {Max(x)}], s[Max(x)])]
           iter == CHOOSE f : Solves(f)
<1>1. Without(s, gone) = iter[DOMAIN s]
  BY DEF Without, FoldLeft, MapThenFoldSet
<1>2. n \in Nat /\ DOMAIN s = 1 .. n /\ <<>> \in V /\ \A k \in 1 .. n : s[k] \in Tag
  OBVIOUS
<1>3. \A v \in V, t \in Tag : Drop(v, t) \in V
  OBVIOUS
<1>4. step \in [(1 .. n) \X V -> V] /\ \A k \in 1 .. n, v \in V : step[<<k, v>>] = Drop(v, s[k])
  BY <1>2, <1>3
<1> HIDE DEF step
<1>5. PICK f : FoldsSets(f, n, V, <<>>, step)
  BY <1>2, <1>4, SetIterates
<1>6. Solves(f)
  <2>1. ASSUME NEW x \in SUBSET (1 .. n), x # {}
        PROVE f[x] = Drop(f[x \ {Max(x)}], s[Max(x)])
    <3>1. Max(x) \in 1 .. n /\ x \ {Max(x)} \in SUBSET (1 .. n)
      BY <2>1, <1>2, MaxOf
    <3> HIDE DEF Drop
    <3> QED
      BY <1>4, <1>5, <2>1, <3>1 DEF FoldsSets
  <2> HIDE DEF Drop
  <2> QED
    BY <1>2, <1>5, <2>1 DEF FoldsSets
<1>7. Solves(iter)
  <2> HIDE DEF Solves
  <2> QED
    BY <1>6
<1> HIDE DEF iter, Drop
<1>8. iter[{}] = <<>>
  BY <1>2, <1>7
<1>9. ASSUME NEW x \in SUBSET (1 .. n), x # {}, iter[x \ {Max(x)}] \in V
      PROVE  iter[x] = step[<<Max(x), iter[x \ {Max(x)}]>>]
  <2>1. Max(x) \in 1 .. n
    BY <1>2, <1>9, MaxOf
  <2> QED
    BY <1>2, <1>4, <1>7, <1>9, <2>1
<1>10. PICK h : FoldsUp(h, iter, n, V, <<>>, step)
  <2> HIDE DEF n, V
  <2>1. IteratesSets(iter, n, V, <<>>, step)
    BY <1>8, <1>9 DEF IteratesSets
  <2> QED
    BY <1>2, <1>4, <2>1, FoldSteps
<1>11. ASSUME NEW k \in 1 .. n PROVE h[k] = Drop(h[k - 1], s[k])
  <2>1. k - 1 \in 0 .. n
    BY <1>2
  <2>2. h[k - 1] \in V /\ h[k] = step[<<k, h[k - 1]>>]
    BY <1>10, <2>1 DEF FoldsUp
  <2> QED
    BY <1>4, <2>2
<1>12. h \in [0 .. n -> V] /\ h[0] = <<>>
  BY <1>10 DEF FoldsUp
<1>13. Without(s, gone) = h[n]
  BY <1>1, <1>2, <1>10 DEF FoldsUp
<1> QED
  BY <1>11, <1>12, <1>13 DEF Drop

(* Lists without a blank and with one spelling of each form.                *)
Clean(tags) ==
  /\ \A i \in DOMAIN tags : tags[i] # Blank
  /\ \A i, j \in DOMAIN tags : Fold[tags[i]] = Fold[tags[j]] => i = j
Begins(x, y) == Len(x) <= Len(y) /\ \A i \in 1 .. Len(x) : x[i] = y[i]

LEMMA KeepFirstStep ==
  ASSUME NEW kept \in Seq(Tag), Clean(kept), NEW t \in Tag
  PROVE  /\ KeepFirst(kept, t) \in Seq(Tag) /\ Clean(KeepFirst(kept, t))
         /\ Begins(kept, KeepFirst(kept, t))
         /\ Range(KeepFirst(kept, t)) \subseteq Range(kept) \cup {t}
BY DEF KeepFirst, Clean, Begins, Range

LEMMA KeepFirstCleans ==
  ASSUME NEW s \in Seq(Tag)
  PROVE  LET kept == FoldLeft(KeepFirst, <<>>, s)
         IN  kept \in Seq(Tag) /\ Clean(kept) /\ Range(kept) \subseteq Range(s)
<1>1. PICK h \in [0 .. Len(s) -> Seq(Tag)] :
        /\ h[0] = <<>> /\ \A k \in 1 .. Len(s) : h[k] = KeepFirst(h[k - 1], s[k])
        /\ FoldLeft(KeepFirst, <<>>, s) = h[Len(s)]
  BY KeepFirstFold
<1> DEFINE T == {k \in 0 .. Len(s) : Clean(h[k]) /\ Range(h[k]) \subseteq Range(s)}
<1>2. 0 \in T
  BY <1>1 DEF Clean, Range
<1>3. ASSUME NEW k \in 1 .. Len(s), k - 1 \in T PROVE k \in T
  <2>1. k - 1 \in 0 .. Len(s) /\ k \in 0 .. Len(s) /\ h[k - 1] \in Seq(Tag) /\ s[k] \in Tag /\ s[k] \in Range(s)
    BY <1>1 DEF Range
  <2>2. Clean(h[k - 1]) /\ Range(h[k - 1]) \subseteq Range(s)
    BY <1>3
  <2>3. /\ Clean(KeepFirst(h[k - 1], s[k]))
        /\ Range(KeepFirst(h[k - 1], s[k])) \subseteq Range(h[k - 1]) \cup {s[k]}
    BY <2>1, <2>2, KeepFirstStep
  <2>4. h[k] = KeepFirst(h[k - 1], s[k])
    BY <1>1
  <2> QED
    BY <2>1, <2>2, <2>3, <2>4
<1>4. Len(s) \in Nat /\ Len(s) \in 0 .. Len(s)
  OBVIOUS
<1>5. Len(s) \in T
  <2>1. 0 .. Len(s) \subseteq T
    <3> HIDE DEF T
    <3> QED
      BY <1>2, <1>3, <1>4, UpTo
  <2> QED
    BY <1>4, <2>1
<1> QED
  BY <1>1, <1>4, <1>5

LEMMA KeepFirstKeeps ==
  ASSUME NEW x \in Seq(Tag), Clean(x), NEW s \in Seq(Tag), Begins(x, s)
  PROVE  /\ Begins(x, FoldLeft(KeepFirst, <<>>, s))
         /\ Len(s) = Len(x) => FoldLeft(KeepFirst, <<>>, s) = x
<1>1. PICK h \in [0 .. Len(s) -> Seq(Tag)] :
        /\ h[0] = <<>> /\ \A k \in 1 .. Len(s) : h[k] = KeepFirst(h[k - 1], s[k])
        /\ FoldLeft(KeepFirst, <<>>, s) = h[Len(s)]
  BY KeepFirstFold
<1> DEFINE T == {k \in 0 .. Len(s) :
                   /\ Clean(h[k])
                   /\ k <= Len(x) => Len(h[k]) = k /\ \A i \in 1 .. k : h[k][i] = x[i]
                   /\ k >= Len(x) => Begins(x, h[k])}
<1>2. 0 \in T
  BY <1>1 DEF Clean, Begins
<1>3. ASSUME NEW k \in 1 .. Len(s), k - 1 \in T PROVE k \in T
  <2>1. k - 1 \in 0 .. Len(s) /\ k \in 0 .. Len(s) /\ h[k - 1] \in Seq(Tag) /\ s[k] \in Tag /\ h[k] \in Seq(Tag)
    BY SMTT(40), <1>1
  <2>2. h[k] = KeepFirst(h[k - 1], s[k])
    BY <1>1
  <2>3. Clean(h[k]) /\ Begins(h[k - 1], h[k])
    <3>1. Clean(KeepFirst(h[k - 1], s[k])) /\ Begins(h[k - 1], KeepFirst(h[k - 1], s[k]))
      BY <1>3, <2>1, KeepFirstStep
    <3> QED
      BY <2>2, <3>1
  <2>4. CASE k <= Len(x)
    <3>1. Len(h[k - 1]) = k - 1 /\ \A i \in 1 .. k - 1 : h[k - 1][i] = x[i]
      BY <1>3, <2>4
    <3>2. s[k] = x[k] /\ s[k] # Blank
      BY <2>4 DEF Begins, Clean
    <3>3. ASSUME NEW v \in Range(h[k - 1]), Fold[v] = Fold[s[k]] PROVE FALSE
      <4>1. PICK i \in 1 .. k - 1 : v = x[i]
        <5>1. DOMAIN h[k - 1] = 1 .. k - 1
          BY <2>1, <3>1
        <5> QED
          BY <3>1, <3>3, <5>1 DEF Range
      <4>2. i \in DOMAIN x /\ k \in DOMAIN x /\ i # k
        BY <2>4
      <4> QED
        BY <3>2, <3>3, <4>1, <4>2 DEF Clean
    <3>4. h[k] = Append(h[k - 1], s[k])
      BY <2>2, <3>2, <3>3 DEF KeepFirst
    <3>5. Len(h[k]) = k /\ \A i \in 1 .. k : h[k][i] = x[i]
      BY <2>1, <3>1, <3>2, <3>4
    <3> QED
      BY <2>1, <2>3, <2>4, <3>5 DEF Begins
  <2>5. CASE k > Len(x)
    <3>1. k - 1 >= Len(x) /\ Begins(x, h[k - 1])
      BY <1>3, <2>5
    <3> QED
      BY <2>1, <2>3, <2>5, <3>1 DEF Begins
  <2> QED
    BY <2>4, <2>5
<1>4. Len(s) \in Nat /\ Len(s) \in 0 .. Len(s) /\ Len(s) >= Len(x) /\ Len(x) \in Nat
  BY DEF Begins
<1>5. Len(s) \in T
  <2>1. 0 .. Len(s) \subseteq T
    <3> HIDE DEF T
    <3> QED
      BY <1>2, <1>3, <1>4, UpTo
  <2> QED
    BY <1>4, <2>1
<1>6. Begins(x, h[Len(s)]) /\ (Len(s) = Len(x) => Len(h[Len(s)]) = Len(x))
  BY <1>4, <1>5
<1>7. ASSUME Len(s) = Len(x) PROVE h[Len(s)] = x
  BY SMTT(40), <1>1, <1>4, <1>6, <1>7 DEF Begins
<1> QED
  BY <1>1, <1>6, <1>7

(* What the file may hold of a paper: what normalizeTags leaves as it is.   *)
Normal(tags) ==
  /\ tags \in Seq(Tag) /\ Len(tags) <= MaxTags
  /\ Clean(tags)
  /\ \A i \in DOMAIN tags : Trim[tags[i]] = tags[i] /\ tags[i] \notin TooLong

LEMMA NormalizedIsNormal ==
  ASSUME NEW x \in Seq(Tag), NormalizeTags(x) # Invalid
  PROVE  Normal(NormalizeTags(x))
<1> DEFINE trimmed == [i \in DOMAIN x |-> Trim[x[i]]]
           kept == FoldLeft(KeepFirst, <<>>, trimmed)
<1>1. trimmed \in Seq(Tag)
  BY TagAssumption
<1>2. kept \in Seq(Tag) /\ Clean(kept) /\ Range(kept) \subseteq Range(trimmed)
  <2> HIDE DEF trimmed
  <2> QED
    BY <1>1, KeepFirstCleans
<1>3. NormalizeTags(x) = kept /\ Range(trimmed) \cap TooLong = {} /\ ~ (Len(kept) > MaxTags)
  BY DEF NormalizeTags
<1>4. \A t \in Range(trimmed) : Trim[t] = t
  <2> SUFFICES ASSUME NEW t \in Range(trimmed) PROVE Trim[t] = t
    OBVIOUS
  <2>1. PICK i \in DOMAIN x : t = Trim[x[i]]
    BY DEF Range
  <2>2. x[i] \in Tag
    OBVIOUS
  <2> QED
    BY <2>1, <2>2, TagAssumption
<1> HIDE DEF trimmed, kept
<1>5. \A i \in DOMAIN kept : kept[i] \in Range(kept)
  BY DEF Range
<1>6. \A i \in DOMAIN kept : Trim[kept[i]] = kept[i] /\ kept[i] \notin TooLong
  BY <1>2, <1>3, <1>4, <1>5
<1>7. Len(kept) <= MaxTags
  <2>1. Len(kept) \in Nat /\ MaxTags \in Nat
    BY <1>2, TagAssumption
  <2> QED
    BY <1>3, <2>1
<1> QED
  BY <1>2, <1>3, <1>6, <1>7 DEF Normal

LEMMA NormalStays ==
  ASSUME NEW x, Normal(x)
  PROVE  NormalizeTags(x) = x
<1> DEFINE trimmed == [i \in DOMAIN x |-> Trim[x[i]]]
<1>1. x \in Seq(Tag)
  BY DEF Normal
<1>2. trimmed = x
  BY <1>1 DEF Normal
<1> HIDE DEF trimmed
<1>3. FoldLeft(KeepFirst, <<>>, x) = x
  BY <1>1, KeepFirstKeeps DEF Normal, Begins
<1>4. Range(x) \cap TooLong = {}
  BY DEF Normal, Range
<1>5. ~ (Len(x) > MaxTags)
  BY <1>1, TagAssumption DEF Normal
<1> QED
  BY <1>2, <1>3, <1>4, <1>5 DEF NormalizeTags, trimmed

LEMMA MergeKeeps ==
  ASSUME NEW x, Normal(x), NEW y \in Seq(Tag), NormalizeTags(x \o y) # Invalid
  PROVE  Begins(x, NormalizeTags(x \o y))
<1> DEFINE all == x \o y
           trimmed == [i \in DOMAIN all |-> Trim[all[i]]]
<1>1. x \in Seq(Tag) /\ all \in Seq(Tag) /\ Clean(x)
  BY DEF Normal
<1>2. trimmed \in Seq(Tag) /\ Len(trimmed) = Len(all)
  BY <1>1, TagAssumption
<1>3. Begins(x, trimmed)
  <2>1. Len(x) <= Len(all) /\ \A i \in 1 .. Len(x) : i \in DOMAIN all /\ all[i] = x[i] /\ i \in DOMAIN x
    BY <1>1
  <2> QED
    BY <1>2, <2>1 DEF Begins, Normal
<1>4. Begins(x, FoldLeft(KeepFirst, <<>>, trimmed))
  <2> HIDE DEF trimmed
  <2> QED
    BY <1>1, <1>2, <1>3, KeepFirstKeeps
<1> QED
  BY <1>4 DEF NormalizeTags

LEMMA WithoutIsNormal ==
  ASSUME NEW x, Normal(x), NEW gone
  PROVE  /\ Normal(Without(x, gone))
         /\ \A t \in Range(Without(x, gone)) : Fold[t] \notin gone
<1>1. x \in Seq(Tag)
  BY DEF Normal
<1>2. PICK h \in [0 .. Len(x) -> Seq(Tag)] :
        /\ h[0] = <<>>
        /\ \A k \in 1 .. Len(x) : h[k] = IF Fold[x[k]] \in gone THEN h[k - 1] ELSE Append(h[k - 1], x[k])
        /\ Without(x, gone) = h[Len(x)]
  BY <1>1, WithoutFold
<1> DEFINE From(v, k) == \A i \in DOMAIN v : \E j \in 1 .. k : v[i] = x[j] /\ Fold[x[j]] \notin gone
           T == {k \in 0 .. Len(x) : Len(h[k]) <= k /\ Clean(h[k]) /\ From(h[k], k)}
<1>3. 0 \in T
  BY <1>2 DEF Clean
<1>4. ASSUME NEW k \in 1 .. Len(x), k - 1 \in T PROVE k \in T
  <2>1. k - 1 \in 0 .. Len(x) /\ k \in 0 .. Len(x) /\ h[k - 1] \in Seq(Tag) /\ x[k] \in Tag /\ h[k] \in Seq(Tag)
    BY <1>1, <1>2
  <2>2. Len(h[k - 1]) <= k - 1 /\ Clean(h[k - 1]) /\ From(h[k - 1], k - 1)
    BY <1>4
  <2>3. From(h[k - 1], k)
    BY <2>2
  <2>4. CASE Fold[x[k]] \in gone
    <3>1. h[k] = h[k - 1]
      BY <1>2, <2>4
    <3>2. Len(h[k]) <= k
      BY <2>1, <2>2, <3>1
    <3> QED
      BY SMTT(40), <2>1, <2>2, <2>3, <3>1, <3>2
  <2>5. CASE Fold[x[k]] \notin gone
    <3>1. h[k] = Append(h[k - 1], x[k])
      BY <1>2, <2>5
    <3>2. Len(h[k]) <= k /\ DOMAIN h[k] = DOMAIN h[k - 1] \cup {Len(h[k])}
          /\ h[k][Len(h[k])] = x[k] /\ \A i \in DOMAIN h[k - 1] : h[k][i] = h[k - 1][i]
      BY <2>1, <2>2, <3>1
    <3>3. From(h[k], k)
      BY SMTT(40), <2>3, <2>5, <3>2
    <3>4. x[k] # Blank
      BY <1>1 DEF Normal, Clean
    <3>5. \A i \in DOMAIN h[k - 1] : Fold[h[k - 1][i]] # Fold[x[k]]
      <4> SUFFICES ASSUME NEW i \in DOMAIN h[k - 1], Fold[h[k - 1][i]] = Fold[x[k]] PROVE FALSE
        OBVIOUS
      <4>1. PICK j \in 1 .. k - 1 : h[k - 1][i] = x[j]
        BY <2>2
      <4>2. j \in DOMAIN x /\ k \in DOMAIN x /\ j # k
        BY <1>1
      <4> QED
        BY <4>1, <4>2 DEF Normal, Clean
    <3>6. Clean(h[k])
      BY <2>2, <3>2, <3>4, <3>5 DEF Clean
    <3> QED
      BY <2>1, <3>2, <3>3, <3>6
  <2> QED
    BY <2>4, <2>5
<1>5. Len(x) \in Nat /\ Len(x) \in 0 .. Len(x)
  BY <1>1
<1>6. Len(x) \in T
  <2>1. 0 .. Len(x) \subseteq T
    <3> HIDE DEF T
    <3> QED
      BY <1>3, <1>4, <1>5, UpTo
  <2> QED
    BY <1>5, <2>1
<1>7. h[Len(x)] \in Seq(Tag) /\ Len(h[Len(x)]) <= MaxTags
  <2>1. h[Len(x)] \in Seq(Tag) /\ Len(h[Len(x)]) <= Len(x)
    BY <1>2, <1>5, <1>6
  <2> QED
    BY <1>5, <2>1, TagAssumption DEF Normal
<1>8. From(h[Len(x)], Len(x)) /\ 1 .. Len(x) = DOMAIN x
  BY <1>1, <1>6
<1>9. Normal(h[Len(x)])
  <2>1. \A i \in DOMAIN h[Len(x)] : Trim[h[Len(x)][i]] = h[Len(x)][i] /\ h[Len(x)][i] \notin TooLong
    BY <1>8 DEF Normal
  <2> QED
    BY <1>6, <1>7, <2>1 DEF Normal
<1> QED
  BY <1>2, <1>8, <1>9 DEF Range

LEMMA WithoutKeeps ==
  ASSUME NEW x \in Seq(Tag), NEW y \in Seq(Tag), Begins(x, y), NEW gone
  PROVE  Begins(Without(x, gone), Without(y, gone))
<1>1. PICK f \in [0 .. Len(x) -> Seq(Tag)] :
        /\ f[0] = <<>>
        /\ \A k \in 1 .. Len(x) : f[k] = IF Fold[x[k]] \in gone THEN f[k - 1] ELSE Append(f[k - 1], x[k])
        /\ Without(x, gone) = f[Len(x)]
  BY WithoutFold
<1>2. PICK h \in [0 .. Len(y) -> Seq(Tag)] :
        /\ h[0] = <<>>
        /\ \A k \in 1 .. Len(y) : h[k] = IF Fold[y[k]] \in gone THEN h[k - 1] ELSE Append(h[k - 1], y[k])
        /\ Without(y, gone) = h[Len(y)]
  BY WithoutFold
<1>0. Len(x) \in Nat /\ Len(y) \in Nat /\ Len(x) <= Len(y)
  BY DEF Begins
<1> DEFINE T == {k \in 0 .. Len(y) : IF k <= Len(x) THEN h[k] = f[k] ELSE Begins(f[Len(x)], h[k])}
<1>3. 0 \in T
  BY <1>0, <1>1, <1>2
<1>4. ASSUME NEW k \in 1 .. Len(y), k - 1 \in T PROVE k \in T
  <2>1. k - 1 \in 0 .. Len(y) /\ k \in 0 .. Len(y) /\ h[k - 1] \in Seq(Tag) /\ y[k] \in Tag
    <3>1. k - 1 \in 0 .. Len(y) /\ k \in 0 .. Len(y) /\ y[k] \in Tag
      BY <1>0
    <3> QED
      BY <1>2, <3>1
  <2>2. h[k] = IF Fold[y[k]] \in gone THEN h[k - 1] ELSE Append(h[k - 1], y[k])
    BY <1>2
  <2>3. CASE k <= Len(x)
    <3>1. k \in 1 .. Len(x) /\ k - 1 <= Len(x) /\ y[k] = x[k]
      BY <2>3 DEF Begins
    <3>2. h[k - 1] = f[k - 1]
      BY <1>4, <3>1
    <3>3. f[k] = IF Fold[x[k]] \in gone THEN f[k - 1] ELSE Append(f[k - 1], x[k])
      BY <1>1, <3>1
    <3> QED
      BY <2>1, <2>2, <2>3, <3>1, <3>2, <3>3
  <2>4. CASE k > Len(x)
    <3>1. Len(x) \in 0 .. Len(x) /\ f[Len(x)] \in Seq(Tag)
      BY <1>1
    <3>2. Begins(f[Len(x)], h[k - 1])
      <4>1. CASE k - 1 <= Len(x)
        <5>1. k - 1 = Len(x)
          BY <2>4, <4>1
        <5> QED
          BY <1>4, <3>1, <5>1 DEF Begins
      <4>2. CASE k - 1 > Len(x)
        BY <1>4, <4>2
      <4> QED
        BY <4>1, <4>2
    <3>3. Begins(f[Len(x)], h[k])
      BY <2>1, <2>2, <3>1, <3>2 DEF Begins
    <3> QED
      BY <2>1, <2>4, <3>3
  <2> QED
    BY <2>3, <2>4
<1>5. Len(y) \in 0 .. Len(y) /\ Len(x) \in 0 .. Len(x)
  BY <1>0
<1>6. Len(y) \in T
  <2>1. 0 .. Len(y) \subseteq T
    <3> HIDE DEF T
    <3> QED
      BY <1>0, <1>3, <1>4, UpTo
  <2> QED
    BY <1>5, <2>1
<1>7. Begins(f[Len(x)], h[Len(y)])
  <2>1. f[Len(x)] \in Seq(Tag)
    BY <1>1, <1>5
  <2>2. CASE Len(y) <= Len(x)
    <3>1. Len(y) = Len(x)
      BY <1>0, <2>2
    <3> QED
      BY <1>6, <2>1, <3>1 DEF Begins
  <2>3. CASE Len(y) > Len(x)
    BY <1>6, <2>3
  <2> QED
    BY <1>0, <2>2, <2>3
<1> QED
  BY <1>1, <1>2, <1>7

-----------------------------------------------------------------------------
(* The tags of a paper under the two routes.                                *)

TagsInv ==
  /\ state \in [tags : Seq(Tag), isRead : BOOLEAN, favorite : BOOLEAN]
  /\ added \in Seq(Tag) /\ removed \in Seq(Tag)
  /\ Normal(state.tags)

LEMMA NothingIsNormal == Normal(<<>>)
BY TagAssumption DEF Normal, Clean

(* What an accepted change makes of the tags.                               *)
LEMMA ChangedTags ==
  ASSUME NEW tags, Normal(tags), NEW add \in Seq(Tag), NEW remove \in Seq(Tag),
         RemovedTags(AddedTags(tags, add), remove) # Invalid
  PROVE  LET gone == {Fold[t] : t \in Range(NormalizeTags(remove))} IN
         /\ NormalizeTags(remove) # Invalid
         /\ Normal(RemovedTags(AddedTags(tags, add), remove))
         /\ Begins(Without(tags, gone), RemovedTags(AddedTags(tags, add), remove))
         /\ \A t \in Range(RemovedTags(AddedTags(tags, add), remove)) : Fold[t] \notin gone
<1> DEFINE merged == NormalizeTags(tags \o NormalizeTags(add))
           gone == {Fold[t] : t \in Range(NormalizeTags(remove))}
<1>1. tags \in Seq(Tag) /\ add # Unset /\ remove # Unset
  BY SentinelAssumption DEF Normal
<1>2. NormalizeTags(add) # Invalid /\ merged # Invalid /\ AddedTags(tags, add) = merged
  BY <1>1 DEF AddedTags, RemovedTags
<1>3. /\ NormalizeTags(remove) # Invalid
      /\ RemovedTags(AddedTags(tags, add), remove) = Without(merged, gone)
  BY <1>1, <1>2 DEF RemovedTags
<1>4. NormalizeTags(add) \in Seq(Tag)
  BY <1>2, NormalizedIsNormal DEF Normal
<1>5. Normal(merged) /\ Begins(tags, merged)
  <2>1. tags \o NormalizeTags(add) \in Seq(Tag)
    BY <1>1, <1>4
  <2> QED
    BY <1>2, <1>4, <2>1, NormalizedIsNormal, MergeKeeps
<1>6. Normal(Without(merged, gone)) /\ \A t \in Range(Without(merged, gone)) : Fold[t] \notin gone
  <2> HIDE DEF merged, gone
  <2> QED
    BY <1>5, WithoutIsNormal
<1>7. Begins(Without(tags, gone), Without(merged, gone))
  <2> HIDE DEF merged, gone
  <2> QED
    BY <1>1, <1>5, WithoutKeeps DEF Normal
<1> QED
  BY <1>3, <1>6, <1>7

(* A change that names nothing to add and only valid words to remove.       *)
LEMMA RemovedOnly ==
  ASSUME NEW tags, Normal(tags), NEW remove \in Seq(Tag), NormalizeTags(remove) # Invalid
  PROVE  RemovedTags(AddedTags(tags, <<>>), remove)
           = Without(tags, {Fold[t] : t \in Range(NormalizeTags(remove))})
<1>1. tags \in Seq(Tag) /\ <<>> \in Seq(Tag) /\ tags \o <<>> = tags
  BY DEF Normal
<1>2. <<>> # Unset /\ remove # Unset /\ <<>> # Invalid /\ tags # Invalid
  BY <1>1, SentinelAssumption
<1>3. NormalizeTags(<<>>) = <<>> /\ NormalizeTags(tags) = tags
  BY NothingIsNormal, NormalStays
<1>4. AddedTags(tags, <<>>) = tags
  BY <1>1, <1>2, <1>3 DEF AddedTags
<1> QED
  BY <1>2, <1>4 DEF RemovedTags

(* What savePaperLibraryStateAt makes of the state of the paper.            *)
LEMMA PatchedState ==
  ASSUME TagsInv, NEW tags, NEW add, NEW remove,
         Patched(state, Patch(tags, add, remove)) # Invalid
  PROVE  /\ PatchedTags(state.tags, Patch(tags, add, remove)) # Invalid
         /\ Patched(state, Patch(tags, add, remove))
              = [state EXCEPT !.tags = PatchedTags(state.tags, Patch(tags, add, remove))]
<1> DEFINE patch == Patch(tags, add, remove)
<1>1. patch.isRead = Unset /\ patch.favorite = Unset
  BY DEF Patch
<1>2. PatchedTags(state.tags, patch) # Invalid
  BY DEF Patched
<1>3. Patched(state, patch)
        = [tags |-> PatchedTags(state.tags, patch), isRead |-> state.isRead,
        favorite |-> state.favorite]
  BY <1>1, <1>2 DEF Patched, PatchedFlag
<1> QED
  BY <1>2, <1>3 DEF TagsInv

LEMMA SendKeeps ==
  ASSUME TagsInv, NEW patch, Send(patch),
         Patched(state, patch) # Invalid =>
           \E new : Normal(new) /\ Patched(state, patch) = [state EXCEPT !.tags = new]
  PROVE  TagsInv'
<1>1. added' = <<>> /\ removed' = <<>>
  BY DEF Send
<1>2. CASE Patched(state, patch) = Invalid
  BY <1>1, <1>2 DEF Send, TagsInv
<1>3. CASE Patched(state, patch) # Invalid
  <2>1. PICK new : Normal(new) /\ Patched(state, patch) = [state EXCEPT !.tags = new]
    BY <1>3
  <2>2. state' = [state EXCEPT !.tags = new] /\ new \in Seq(Tag)
    BY <1>3, <2>1 DEF Send, Normal
  <2>3. state' \in [tags : Seq(Tag), isRead : BOOLEAN, favorite : BOOLEAN] /\ state'.tags = new
    BY <2>2 DEF TagsInv
  <2> QED
    BY <1>1, <2>1, <2>3 DEF TagsInv, Normal, Clean
<1> QED
  BY <1>2, <1>3

LEMMA ChangePatches ==
  ASSUME TagsInv
  PROVE  /\ PatchedTags(state.tags, Patch(Unset, added, removed))
              = RemovedTags(AddedTags(state.tags, added), removed)
         /\ PatchedTags(state.tags, Patch(added, Unset, Unset)) = NormalizeTags(added)
  BY SentinelAssumption DEF PatchedTags, Patch, TagsInv

LEMMA TagsInit == RulesInit => TagsInv
<1> SUFFICES ASSUME RulesInit PROVE TagsInv
  OBVIOUS
<1>1. state.tags = <<>>
  BY DEF RulesInit, TagInit, EmptyState
<1> QED
  BY <1>1, NothingIsNormal DEF RulesInit, TagInit, EmptyState, TagsInv

LEMMA TagsStep == TagsInv /\ [RulesNext]_ruleVars => TagsInv'
<1> SUFFICES ASSUME TagsInv, [RulesNext]_ruleVars PROVE TagsInv'
  OBVIOUS
<1>1. CASE UNCHANGED tagVars
  BY <1>1 DEF TagsInv, tagVars, Normal, Clean
<1>2. CASE Write
  <2>1. PICK t \in Tag : \/ added' = Append(added, t) /\ UNCHANGED removed
                         \/ removed' = Append(removed, t) /\ UNCHANGED added
    BY <1>2 DEF Write
  <2>2. state' = state
    BY <1>2 DEF Write
  <2>3. added' \in Seq(Tag) /\ removed' \in Seq(Tag)
    <3>1. added \in Seq(Tag) /\ removed \in Seq(Tag)
      BY DEF TagsInv
    <3>2. Append(added, t) \in Seq(Tag) /\ Append(removed, t) \in Seq(Tag)
      BY <3>1
    <3> QED
      BY <2>1, <3>1, <3>2
  <2> QED
    BY <2>2, <2>3 DEF TagsInv, Normal, Clean
<1>3. CASE SendTags
  <2> DEFINE patch == Patch(added, Unset, Unset)
  <2>1. ASSUME Patched(state, patch) # Invalid
        PROVE  \E new : Normal(new) /\ Patched(state, patch) = [state EXCEPT !.tags = new]
    <3>1. NormalizeTags(added) # Invalid /\ Patched(state, patch) = [state EXCEPT !.tags = NormalizeTags(added)]
      BY <2>1, ChangePatches, PatchedState
    <3> QED
      BY <3>1, NormalizedIsNormal DEF TagsInv
  <2>2. Send(patch)
    BY <1>3 DEF SendTags
  <2> HIDE DEF patch
  <2> QED
    BY <2>1, <2>2, SendKeeps
<1>4. CASE SendChange
  <2> DEFINE patch == Patch(Unset, added, removed)
             new == RemovedTags(AddedTags(state.tags, added), removed)
  <2>1. ASSUME Patched(state, patch) # Invalid
        PROVE  \E v : Normal(v) /\ Patched(state, patch) = [state EXCEPT !.tags = v]
    <3>1. new # Invalid /\ Patched(state, patch) = [state EXCEPT !.tags = new]
      BY <2>1, ChangePatches, PatchedState
    <3>2. Normal(new)
      BY <3>1, ChangedTags DEF TagsInv
    <3> QED
      BY <3>1, <3>2
  <2>2. Send(patch)
    BY <1>4 DEF SendChange
  <2> HIDE DEF patch
  <2> QED
    BY <2>1, <2>2, SendKeeps
<1>5. UNCHANGED tagVars \/ Write \/ SendTags \/ SendChange
  BY DEF RulesNext, TagStep, TagNext, WriteLine, MapPages, OpenSection, AddItem, Translate, ruleVars
<1> QED
  BY <1>1, <1>2, <1>3, <1>4, <1>5

LEMMA TagsAreNormal == RulesSpec => []TagsInv
BY TagsInit, TagsStep, PTL DEF RulesSpec

(* Whatever is written into the requests of the two routes, and in whatever *)
(* order they are accepted and refused, loadMetadata accepts the tags that  *)
(* savePaperLibraryStateAt leaves in the file.                              *)
THEOREM StoredTagsLoad == RulesSpec => []StoredStateLoads
<1>1. TagsInv => StoredStateLoads
  BY NormalStays DEF TagsInv, StoredStateLoads, Loadable
<1> QED
  BY <1>1, TagsAreNormal, PTL

(* An accepted change of tags keeps the others with order and spelling and  *)
(* leaves none of the removed words in any spelling; one that only removes  *)
(* is refused only for the words it names.                                  *)
THEOREM ChangesAreExact == RulesSpec => ChangeIsExact
<1> DEFINE gone == IF NormalizeTags(removed) = Invalid THEN {} ELSE Folded(NormalizeTags(removed))
           kept == Without(state.tags, gone)
           Exact == /\ state' # state => IsPrefix(kept, state'.tags) /\ Folded(state'.tags) \cap gone = {}
                    /\ added = <<>> /\ NormalizeTags(removed) # Invalid => state'.tags = kept
<1>1. ASSUME TagsInv, SendChange PROVE Exact
  <2> DEFINE patch == Patch(Unset, added, removed)
             new == RemovedTags(AddedTags(state.tags, added), removed)
  <2>1. /\ Normal(state.tags) /\ state.tags \in Seq(Tag) /\ added \in Seq(Tag) /\ removed \in Seq(Tag)
        /\ PatchedTags(state.tags, patch) = new
    BY <1>1, ChangePatches DEF TagsInv
  <2>2. Send(patch)
    BY <1>1 DEF SendChange
  <2>3. ASSUME new # Invalid
        PROVE  /\ Patched(state, patch) # Invalid
               /\ state' = [state EXCEPT !.tags = new]
               /\ state'.tags = new
    <3>1. patch.isRead = Unset /\ patch.favorite = Unset
      BY DEF Patch
    <3>2. Patched(state, patch) = [tags |-> new, isRead |-> state.isRead,
    favorite |-> state.favorite]
      <4> HIDE DEF patch, new
      <4> QED
        BY <2>1, <2>3, <3>1 DEF Patched, PatchedFlag
    <3>3. new \in Seq(Tag)
      BY <2>1, <2>3, ChangedTags DEF Normal
    <3>4. Patched(state, patch) # Invalid
      <4>1. [tags |-> new, isRead |-> state.isRead, favorite |-> state.favorite]
              \in [tags : Seq(Tag), isRead : BOOLEAN, favorite : BOOLEAN]
        <5> HIDE DEF new
        <5> QED
          BY <1>1, <3>3 DEF TagsInv
      <4> QED
        BY <3>2, <4>1, SentinelAssumption
    <3> HIDE DEF patch, new
    <3>5. state' = Patched(state, patch)
      BY <2>2, <3>4 DEF Send
    <3> QED
      BY <1>1, <3>2, <3>4, <3>5 DEF TagsInv
  <2>4. ASSUME new = Invalid PROVE state' = state
    <3>1. Patched(state, patch) = Invalid
      <4> HIDE DEF patch, new
      <4> QED
        BY <2>1, <2>4 DEF Patched
    <3> HIDE DEF patch, new
    <3> QED
      BY <2>2, <3>1 DEF Send
  <2>5. ASSUME state' # state
        PROVE  IsPrefix(kept, state'.tags) /\ Folded(state'.tags) \cap gone = {}
    <3>1. new # Invalid /\ state'.tags = new
      BY <2>3, <2>4, <2>5
    <3>2. /\ NormalizeTags(removed) # Invalid
          /\ Begins(Without(state.tags, {Fold[t] : t \in Range(NormalizeTags(removed))}), new)
          /\ \A t \in Range(new) : Fold[t] \notin {Fold[u] : u \in Range(NormalizeTags(removed))}
      BY <2>1, <3>1, ChangedTags
    <3>3. gone = {Fold[t] : t \in Range(NormalizeTags(removed))}
      BY <3>2 DEF Folded
    <3>4. Begins(kept, new)
      BY <3>2, <3>3
    <3>5. kept \in Seq(Tag) /\ new \in Seq(Tag)
      <4> HIDE DEF gone
      <4> QED
        BY <2>1, <3>1, WithoutIsNormal, ChangedTags DEF Normal
    <3>6. IsPrefix(kept, new)
      <4> HIDE DEF kept, new
      <4> QED
        BY <3>4, <3>5 DEF IsPrefix, Begins
    <3>7. Folded(new) \cap gone = {}
      <4> HIDE DEF new
      <4> QED
        BY <3>2, <3>3 DEF Folded
    <3> QED
      BY <3>1, <3>6, <3>7
  <2>6. ASSUME added = <<>>, NormalizeTags(removed) # Invalid PROVE state'.tags = kept
    <3>1. new = Without(state.tags, {Fold[t] : t \in Range(NormalizeTags(removed))})
      BY <2>1, <2>6, RemovedOnly
    <3>2. new = kept
      BY <2>6, <3>1 DEF Folded
    <3>3. new # Invalid
      <4>1. new \in Seq(Tag)
        <5> HIDE DEF gone
        <5> QED
          BY <2>1, <3>2, WithoutIsNormal DEF Normal
      <4> QED
        BY <4>1, SentinelAssumption
    <3> QED
      BY <2>3, <3>2, <3>3
  <2> QED
    BY <2>5, <2>6
<1>2. TagsInv => [SendChange => Exact]_tagVars
  BY <1>1
<1> QED
  BY <1>2, TagsAreNormal, PTL DEF ChangeIsExact

-----------------------------------------------------------------------------
(* The stream and the page map of a worker.                                 *)

WorkerInv ==
  /\ lines \in Seq(Line)
  /\ pageMap \in Seq(MapEntry)
  /\ subject = "pages" => pdfs \in PdfPair

LEMMA WorkerStep == WorkerInv /\ [RulesNext]_ruleVars => WorkerInv'
<1> SUFFICES ASSUME WorkerInv, [RulesNext]_ruleVars PROVE WorkerInv'
  OBVIOUS
<1>1. CASE WriteLine
  <2>1. PICK line \in Line : lines' = Append(lines, line)
    BY <1>1 DEF WriteLine
  <2>2. lines \in Seq(Line)
    BY DEF WorkerInv
  <2>3. lines' \in Seq(Line)
    BY <2>1, <2>2
  <2> QED
    BY <1>1, <2>3 DEF WriteLine, WorkerInv
<1>2. CASE MapPages
  <2>1. PICK entry \in MapEntry : pageMap' = Append(pageMap, entry)
    BY <1>2 DEF MapPages
  <2>2. pageMap \in Seq(MapEntry)
    BY DEF WorkerInv
  <2>3. pageMap' \in Seq(MapEntry)
    BY <2>1, <2>2
  <2> QED
    BY <1>2, <2>3 DEF MapPages, WorkerInv
<1>3. CASE UNCHANGED <<lines, pageMap, subject, pdfs>>
  BY SMTT(40), <1>3 DEF WorkerInv
<1>4. WriteLine \/ MapPages \/ UNCHANGED <<lines, pageMap, subject, pdfs>>
  BY DEF RulesNext, TagStep, OpenSection, AddItem, Translate, ruleVars
<1> QED
  BY <1>1, <1>2, <1>3, <1>4

LEMMA WorkerWrites == RulesSpec => []WorkerInv
<1>1. RulesInit => WorkerInv
  BY DEF RulesInit, WorkerInv
<1> QED
  BY <1>1, WorkerStep, PTL DEF RulesSpec

(* What one comparison with the line before gives for all lines before.     *)
LEMMA LinesInOrder ==
  ASSUME lines \in Seq(Line), \A i \in DOMAIN lines : i > 1 => LineFollows(lines[i], lines[i - 1])
  PROVE  \A i, j \in DOMAIN lines :
           i < j => lines[i].sequence < lines[j].sequence /\ lines[i].time <= lines[j].time
<1> DEFINE n == Len(lines)
           Ordered(i, j) == lines[i].sequence < lines[j].sequence /\ lines[i].time <= lines[j].time
           T == {k \in 0 .. n : \A i \in 1 .. k - 1 : Ordered(i, k)}
<1>1. n \in Nat /\ DOMAIN lines = 1 .. n
  OBVIOUS
<1>2. \A i \in 1 .. n : lines[i].sequence \in Int /\ lines[i].time \in Nat
  BY LineAssumption
<1>3. 0 \in T
  BY <1>1
<1>4. ASSUME NEW k \in 1 .. n, k - 1 \in T PROVE k \in T
  <2> SUFFICES ASSUME NEW i \in 1 .. k - 1 PROVE Ordered(i, k)
    BY <1>1
  <2>1. k - 1 \in 1 .. n /\ i \in 1 .. n /\ k \in DOMAIN lines /\ k > 1
    BY <1>1
  <2>2. Ordered(k - 1, k)
    BY <2>1 DEF LineFollows
  <2>3. i = k - 1 \/ Ordered(i, k - 1)
    <3>1. i = k - 1 \/ i \in 1 .. (k - 1) - 1
      BY <2>1
    <3> QED
      BY <1>4, <3>1
  <2> QED
    BY SMTT(40), <1>2, <2>1, <2>2, <2>3
<1>5. 0 .. n \subseteq T
  <2> HIDE DEF T, n
  <2> QED
    BY <1>1, <1>3, <1>4, UpTo
<1>6. ASSUME NEW i \in 1 .. n, NEW j \in 1 .. n, i < j PROVE Ordered(i, j)
  <2>1. j \in T /\ i \in 1 .. j - 1
    BY <1>1, <1>5, <1>6
  <2> QED
    BY <2>1
<1> QED
  BY <1>1, <1>6

(* Whatever a worker writes, validate_ndjson_events, which compares every   *)
(* line with the one before, accepts exactly the whole streams of its run.  *)
THEOREM StreamsAreWhole == RulesSpec => []AcceptedStreamIsWhole
<1>1. ASSUME lines \in Seq(Line), EventsAccepted("r", lines) PROVE StreamIsWhole
  <2>1. Len(lines) \in Nat /\ DOMAIN lines = 1 .. Len(lines) /\ Len(lines) # 0
    BY <1>1 DEF EventsAccepted
  <2>2. {i \in DOMAIN lines : lines[i].type \in {"started"}} = {1}
    BY <1>1, <2>1 DEF EventsAccepted, LineFollows
  <2>3. ASSUME NEW i \in DOMAIN lines, lines[i].type \in Terminal PROVE i = Len(lines)
    <3>1. ~ (i + 1 \in DOMAIN lines)
      <4> SUFFICES ASSUME i + 1 \in DOMAIN lines PROVE FALSE
        OBVIOUS
      <4>1. i + 1 > 1 /\ (i + 1) - 1 = i
        BY <2>1
      <4>2. LineFollows(lines[i + 1], lines[(i + 1) - 1])
        BY <1>1, <4>1 DEF EventsAccepted
      <4> QED
        BY <2>3, <4>1, <4>2 DEF LineFollows
    <3> QED
      BY <2>1, <3>1
  <2>4. {i \in DOMAIN lines : lines[i].type \in Terminal} = {Len(lines)}
    BY <1>1, <2>1, <2>3 DEF EventsAccepted, LastOf
  <2>5. \A i, j \in DOMAIN lines :
          i < j => lines[i].sequence < lines[j].sequence /\ lines[i].time <= lines[j].time
    BY <1>1, LinesInOrder DEF EventsAccepted
  <2> QED
    BY <1>1, <2>2, <2>4, <2>5 DEF StreamIsWhole, EventsAccepted
<1>2. ASSUME lines \in Seq(Line), StreamIsWhole PROVE EventsAccepted("r", lines)
  <2>1. Len(lines) \in Nat /\ DOMAIN lines = 1 .. Len(lines)
    BY <1>2
  <2>2. /\ {i \in DOMAIN lines : lines[i].type \in {"started"}} = {1}
        /\ {i \in DOMAIN lines : lines[i].type \in Terminal} = {Len(lines)}
    BY <1>2 DEF StreamIsWhole
  <2>3. 1 \in DOMAIN lines /\ lines[1].type = "started" /\ LastOf(lines).type \in Terminal
    BY <2>2 DEF LastOf
  <2>4. ASSUME NEW i \in DOMAIN lines, i > 1 PROVE LineFollows(lines[i], lines[i - 1])
    <3>1. i - 1 \in DOMAIN lines /\ i - 1 < i /\ i - 1 # Len(lines) /\ i # 1
      BY <2>1, <2>4
    <3>2. lines[i - 1].type \notin Terminal /\ lines[i].type # "started"
      BY <2>2, <3>1
    <3>3. lines[i - 1].sequence < lines[i].sequence /\ lines[i - 1].time <= lines[i].time
      BY <1>2, <3>1 DEF StreamIsWhole
    <3>4. /\ lines[i].sequence \in Int /\ lines[i - 1].sequence \in Int
          /\ lines[i].time \in Nat /\ lines[i - 1].time \in Nat
      BY <1>2, <3>1, LineAssumption
    <3> QED
      BY <3>2, <3>3, <3>4 DEF LineFollows
  <2>5. \A i \in DOMAIN lines :
          lines[i].runId = "r" /\ lines[i].type \in EventTypes /\ lines[i].sequence > 0
    BY <1>2 DEF StreamIsWhole
  <2> QED
    BY <2>3, <2>4, <2>5 DEF EventsAccepted
<1>3. WorkerInv => AcceptedStreamIsWhole
  BY <1>1, <1>2 DEF WorkerInv, AcceptedStreamIsWhole
<1> QED
  BY <1>3, WorkerWrites, PTL

(* Whatever a worker writes, a page map that _validate_page_map accepts     *)
(* puts every output page beside the one source page it was made of.        *)
THEOREM MapsPairPages == RulesSpec => []AcceptedMapPairsPages
<1>1. ASSUME WorkerInv, subject = "pages", PageMapAccepted(pageMap, pdfs.role, pdfs.source, pdfs.output)
      PROVE  /\ \A o \in DOMAIN pdfs.output :
                  LET page == ((o - 1) \div PagesPerSource(pdfs.role)) + 1
                  IN  SourcesOf(o) = {page} /\ pdfs.output[o] = pdfs.source[page]
             /\ {pageMap[i].sourcePage : i \in DOMAIN pageMap} = DOMAIN pdfs.source
  <2> DEFINE n == Len(pdfs.source)
             per == PagesPerSource(pdfs.role)
             Pages(i) == IF pdfs.role = "mono" THEN {i} ELSE {2 * i - 1, 2 * i}
  <2>1. pdfs.source \in Seq(Geometry) /\ pdfs.output \in Seq(Geometry)
    BY <1>1, PairAssumption DEF WorkerInv
  <2>2. n \in Nat /\ per \in {1, 2} /\ per * n \in Nat
    <3>1. n \in Nat /\ per \in {1, 2}
      BY <2>1 DEF PagesPerSource
    <3> QED
      BY <3>1
  <2>3. DOMAIN pdfs.source = 1 .. n /\ DOMAIN pageMap = 1 .. n /\ DOMAIN pdfs.output = 1 .. per * n
    BY <1>1, <2>1 DEF PageMapAccepted, WorkerInv
  <2>4. ASSUME NEW i \in 1 .. n
        PROVE  /\ pageMap[i].sourcePage = i
               /\ Range(pageMap[i].outputPages) = Pages(i)
               /\ \A o \in Pages(i) : pdfs.output[o] = pdfs.source[i]
    <3>1. pageMap[i] = [sourcePage |-> i, outputPages |-> ExpectedOutput(pdfs.role, i)]
      BY <1>1, <2>3 DEF PageMapAccepted
    <3>2. pageMap[i].sourcePage = i /\ pageMap[i].outputPages = ExpectedOutput(pdfs.role, i)
      BY <3>1
    <3>3. Range(ExpectedOutput(pdfs.role, i)) = Pages(i)
      BY DEF Range, ExpectedOutput
    <3>4. \A o \in Range(pageMap[i].outputPages) : pdfs.output[o] = pdfs.source[i]
      BY <1>1, <2>3, <3>2 DEF PageMapAccepted, Range
    <3> QED
      BY <3>2, <3>3, <3>4
  <2>5. ASSUME NEW o \in 1 .. per * n
        PROVE  LET page == ((o - 1) \div per) + 1
               IN  page \in 1 .. n /\ \A i \in 1 .. n : o \in Pages(i) <=> i = page
    <3>1. CASE pdfs.role = "mono"
      <4>1. per = 1 /\ ((o - 1) \div 1) + 1 = o
        BY <3>1 DEF PagesPerSource
      <4> QED
        BY <2>2, <3>1, <4>1
    <3>2. CASE pdfs.role # "mono"
      <4>1. per = 2
        BY <3>2 DEF PagesPerSource
      <4> DEFINE half == (o - 1) \div 2
      <4>2. o \in 1 .. 2 * n
        BY <4>1
      <4>3. half \in Nat /\ (o = 2 * half + 1 \/ o = 2 * half + 2)
        BY <2>2, <4>2
      <4> HIDE DEF half
      <4>4. half + 1 \in 1 .. n /\ \A i \in 1 .. n : (o = 2 * i - 1 \/ o = 2 * i) <=> i = half + 1
        BY <2>2, <4>2, <4>3
      <4> QED
        BY <3>2, <4>1, <4>4 DEF half
    <3> QED
      BY <3>1, <3>2
  <2>6. ASSUME NEW o \in DOMAIN pdfs.output
        PROVE  LET page == ((o - 1) \div per) + 1
               IN  SourcesOf(o) = {page} /\ pdfs.output[o] = pdfs.source[page]
    <3> DEFINE page == ((o - 1) \div per) + 1
    <3>1. page \in 1 .. n /\ \A i \in 1 .. n : o \in Pages(i) <=> i = page
      BY <2>3, <2>5
    <3>2. DOMAIN pageMap = 1 .. n /\ \A i \in 1 .. n :
            Range(pageMap[i].outputPages) = Pages(i) /\ pageMap[i].sourcePage = i
      BY <2>3, <2>4
    <3> HIDE DEF page, Pages, per, n
    <3>3. {k \in DOMAIN pageMap : o \in Range(pageMap[k].outputPages)} = {page}
      BY <3>1, <3>2
    <3>4. SourcesOf(o) = {page}
      BY <3>1, <3>2, <3>3 DEF SourcesOf
    <3> QED
      BY <2>4, <3>1, <3>4 DEF page
  <2>7. {pageMap[i].sourcePage : i \in DOMAIN pageMap} = DOMAIN pdfs.source
    <3>1. \A i \in 1 .. n : pageMap[i].sourcePage = i
      BY <2>4
    <3> HIDE DEF n
    <3> QED
      BY <2>3, <3>1
  <2> QED
    BY <2>6, <2>7
<1>2. WorkerInv => AcceptedMapPairsPages
  BY <1>1 DEF AcceptedMapPairsPages
<1> QED
  BY <1>2, WorkerWrites, PTL

-----------------------------------------------------------------------------
(* The chunks of a document.  Its two programs run over the same units, one *)
(* with the chunks in hand and one with counts only; unit by unit the       *)
(* counts stay those of the chunks.                                         *)

\* The provers do not know that a quoted word is a STRING.
Unit == [type : STRING \cup {"unit"}, kind : STRING \cup {"heading"}, size : Nat, done : BOOLEAN]
Chunk == Seq(Unit) \ {<<>>}
Section == [title : Unit, content : Seq(Unit)]
Counts == [closed : Nat, completed : Nat, count : Nat, size : Nat, done : BOOLEAN]

\* The loops, unit by unit: the size of a chunk,
LEMMA SizeFold ==
  ASSUME NEW s \in Seq(Unit)
  PROVE  \E h \in [0 .. Len(s) -> Nat] :
           /\ h[0] = 0 /\ \A k \in 1 .. Len(s) : h[k] = h[k - 1] + s[k].size
           /\ TotalSize(s) = h[Len(s)]
<1> DEFINE n == Len(s)
           V == Nat
           step == [p \in (1 .. n) \X V |-> p[2] + s[p[1]].size]
           Solves(f) == f = [x \in SUBSET DOMAIN s |-> IF x = {} THEN 0 ELSE f[x \ {Max(x)}] + s[Max(x)].size]
           iter == CHOOSE f : Solves(f)
<1>1. TotalSize(s) = iter[DOMAIN s]
  BY DEF FoldLeft, MapThenFoldSet, TotalSize
<1>2. n \in Nat /\ DOMAIN s = 1 .. n /\ 0 \in V /\ \A k \in 1 .. n : s[k] \in Unit
  OBVIOUS
<1>3. \A v \in V, t \in Unit : v + t.size \in V
  BY DEF Unit
<1>4. step \in [(1 .. n) \X V -> V] /\ \A k \in 1 .. n, v \in V : step[<<k, v>>] = v + s[k].size
  BY <1>2, <1>3
<1> HIDE DEF step
<1>5. PICK f : FoldsSets(f, n, V, 0, step)
  BY <1>2, <1>4, SetIterates
<1>6. Solves(f)
  <2>1. ASSUME NEW x \in SUBSET (1 .. n), x # {}
        PROVE f[x] = f[x \ {Max(x)}] + s[Max(x)].size
    <3>1. Max(x) \in 1 .. n /\ x \ {Max(x)} \in SUBSET (1 .. n)
      BY <2>1, <1>2, MaxOf
    <3> QED
      BY <1>4, <1>5, <2>1, <3>1 DEF FoldsSets
  <2> QED
    BY <1>2, <1>5, <2>1 DEF FoldsSets
<1>7. Solves(iter)
  <2> HIDE DEF Solves
  <2> QED
    BY <1>6
<1> HIDE DEF iter
<1>8. iter[{}] = 0
  BY <1>2, <1>7
<1>9. ASSUME NEW x \in SUBSET (1 .. n), x # {}, iter[x \ {Max(x)}] \in V
      PROVE  iter[x] = step[<<Max(x), iter[x \ {Max(x)}]>>]
  <2>1. Max(x) \in 1 .. n
    BY <1>2, <1>9, MaxOf
  <2> QED
    BY <1>2, <1>4, <1>7, <1>9, <2>1
<1>10. PICK h : FoldsUp(h, iter, n, V, 0, step)
  <2> HIDE DEF n, V
  <2>1. IteratesSets(iter, n, V, 0, step)
    BY <1>8, <1>9 DEF IteratesSets
  <2> QED
    BY <1>2, <1>4, <2>1, FoldSteps
<1>11. ASSUME NEW k \in 1 .. n PROVE h[k] = h[k - 1] + s[k].size
  <2>1. k - 1 \in 0 .. n
    BY <1>2
  <2>2. h[k - 1] \in V /\ h[k] = step[<<k, h[k - 1]>>]
    BY <1>10, <2>1 DEF FoldsUp
  <2> QED
    BY <1>4, <2>2
<1>12. h \in [0 .. n -> V] /\ h[0] = 0
  BY <1>10 DEF FoldsUp
<1>13. TotalSize(s) = h[n]
  BY <1>1, <1>2, <1>10 DEF FoldsUp
<1> QED
  BY <1>11, <1>12, <1>13

\* chunks put together,
LEMMA JoinFold ==
  ASSUME NEW s \in Seq(Chunk)
  PROVE  \E h \in [0 .. Len(s) -> Seq(Unit)] :
           /\ h[0] = <<>> /\ \A k \in 1 .. Len(s) : h[k] = h[k - 1] \o s[k]
           /\ Joined(s) = h[Len(s)]
<1> DEFINE n == Len(s)
           V == Seq(Unit)
           step == [p \in (1 .. n) \X V |-> p[2] \o s[p[1]]]
           Solves(f) == f = [x \in SUBSET DOMAIN s |-> IF x = {} THEN <<>> ELSE f[x \ {Max(x)}] \o s[Max(x)]]
           iter == CHOOSE f : Solves(f)
<1>1. Joined(s) = iter[DOMAIN s]
  BY DEF FoldLeft, MapThenFoldSet, Joined
<1>2. n \in Nat /\ DOMAIN s = 1 .. n /\ <<>> \in V /\ \A k \in 1 .. n : s[k] \in Chunk
  OBVIOUS
<1>3. \A v \in V, t \in Chunk : v \o t \in V
  BY ConcatProperties DEF Chunk
<1>4. step \in [(1 .. n) \X V -> V] /\ \A k \in 1 .. n, v \in V : step[<<k, v>>] = v \o s[k]
  BY <1>2, <1>3
<1> HIDE DEF step
<1>5. PICK f : FoldsSets(f, n, V, <<>>, step)
  BY <1>2, <1>4, SetIterates
<1>6. Solves(f)
  <2>1. ASSUME NEW x \in SUBSET (1 .. n), x # {}
        PROVE f[x] = f[x \ {Max(x)}] \o s[Max(x)]
    <3>1. Max(x) \in 1 .. n /\ x \ {Max(x)} \in SUBSET (1 .. n)
      BY <2>1, <1>2, MaxOf
    <3> QED
      BY <1>4, <1>5, <2>1, <3>1 DEF FoldsSets
  <2> QED
    BY <1>2, <1>5, <2>1 DEF FoldsSets
<1>7. Solves(iter)
  <2> HIDE DEF Solves
  <2> QED
    BY <1>6
<1> HIDE DEF iter
<1>8. iter[{}] = <<>>
  BY <1>2, <1>7
<1>9. ASSUME NEW x \in SUBSET (1 .. n), x # {}, iter[x \ {Max(x)}] \in V
      PROVE  iter[x] = step[<<Max(x), iter[x \ {Max(x)}]>>]
  <2>1. Max(x) \in 1 .. n
    BY <1>2, <1>9, MaxOf
  <2> QED
    BY <1>2, <1>4, <1>7, <1>9, <2>1
<1>10. PICK h : FoldsUp(h, iter, n, V, <<>>, step)
  <2> HIDE DEF n, V
  <2>1. IteratesSets(iter, n, V, <<>>, step)
    BY <1>8, <1>9 DEF IteratesSets
  <2> QED
    BY <1>2, <1>4, <2>1, FoldSteps
<1>11. ASSUME NEW k \in 1 .. n PROVE h[k] = h[k - 1] \o s[k]
  <2>1. k - 1 \in 0 .. n
    BY <1>2
  <2>2. h[k - 1] \in V /\ h[k] = step[<<k, h[k - 1]>>]
    BY <1>10, <2>1 DEF FoldsUp
  <2> QED
    BY <1>4, <2>2
<1>12. h \in [0 .. n -> V] /\ h[0] = <<>>
  BY <1>10 DEF FoldsUp
<1>13. Joined(s) = h[n]
  BY <1>1, <1>2, <1>10 DEF FoldsUp
<1> QED
  BY <1>11, <1>12, <1>13

\* the units of a section,
LEMMA YieldFold ==
  ASSUME NEW b \in Chunk, NEW s \in Seq(Unit)
  PROVE  \E h \in [0 .. Len(s) -> Chunk] :
           /\ h[0] = b /\ \A k \in 1 .. Len(s) : h[k] = Yield(h[k - 1], s[k])
           /\ FoldLeft(Yield, b, s) = h[Len(s)]
<1> DEFINE n == Len(s)
           V == Chunk
           step == [p \in (1 .. n) \X V |-> Yield(p[2], s[p[1]])]
           Solves(f) == f = [x \in SUBSET DOMAIN s |-> IF x = {} THEN b ELSE Yield(f[x \ {Max(x)}], s[Max(x)])]
           iter == CHOOSE f : Solves(f)
<1>1. FoldLeft(Yield, b, s) = iter[DOMAIN s]
  BY DEF FoldLeft, MapThenFoldSet
<1>2. n \in Nat /\ DOMAIN s = 1 .. n /\ b \in V /\ \A k \in 1 .. n : s[k] \in Unit
  OBVIOUS
<1>3. \A v \in V, t \in Unit : Yield(v, t) \in V
  BY AppendProperties DEF Yield, Chunk
<1>4. step \in [(1 .. n) \X V -> V] /\ \A k \in 1 .. n, v \in V : step[<<k, v>>] = Yield(v, s[k])
  BY <1>2, <1>3
<1> HIDE DEF step
<1>5. PICK f : FoldsSets(f, n, V, b, step)
  BY <1>2, <1>4, SetIterates
<1>6. Solves(f)
  <2>1. ASSUME NEW x \in SUBSET (1 .. n), x # {}
        PROVE f[x] = Yield(f[x \ {Max(x)}], s[Max(x)])
    <3>1. Max(x) \in 1 .. n /\ x \ {Max(x)} \in SUBSET (1 .. n)
      BY <2>1, <1>2, MaxOf
    <3> QED
      BY <1>4, <1>5, <2>1, <3>1 DEF FoldsSets
  <2> QED
    BY <1>2, <1>5, <2>1 DEF FoldsSets
<1>7. Solves(iter)
  <2> HIDE DEF Solves
  <2> QED
    BY <1>6
<1> HIDE DEF iter
<1>8. iter[{}] = b
  BY <1>2, <1>7
<1>9. ASSUME NEW x \in SUBSET (1 .. n), x # {}, iter[x \ {Max(x)}] \in V
      PROVE  iter[x] = step[<<Max(x), iter[x \ {Max(x)}]>>]
  <2>1. Max(x) \in 1 .. n
    BY <1>2, <1>9, MaxOf
  <2> QED
    BY <1>2, <1>4, <1>7, <1>9, <2>1
<1>10. PICK h : FoldsUp(h, iter, n, V, b, step)
  <2> HIDE DEF n, V
  <2>1. IteratesSets(iter, n, V, b, step)
    BY <1>8, <1>9 DEF IteratesSets
  <2> QED
    BY <1>2, <1>4, <2>1, FoldSteps
<1>11. ASSUME NEW k \in 1 .. n PROVE h[k] = Yield(h[k - 1], s[k])
  <2>1. k - 1 \in 0 .. n
    BY <1>2
  <2>2. h[k - 1] \in V /\ h[k] = step[<<k, h[k - 1]>>]
    BY <1>10, <2>1 DEF FoldsUp
  <2> QED
    BY <1>4, <2>2
<1>12. h \in [0 .. n -> V] /\ h[0] = b
  BY <1>10 DEF FoldsUp
<1>13. FoldLeft(Yield, b, s) = h[n]
  BY <1>1, <1>2, <1>10 DEF FoldsUp
<1> QED
  BY <1>11, <1>12, <1>13

\* the units of a document,
LEMMA SectionsFold ==
  ASSUME NEW b \in Chunk, NEW s \in Seq(Section)
  PROVE  \E h \in [0 .. Len(s) -> Chunk] :
           /\ h[0] = b /\ \A k \in 1 .. Len(s) : h[k] = YieldSection(h[k - 1], s[k])
           /\ FoldLeft(YieldSection, b, s) = h[Len(s)]
<1> DEFINE n == Len(s)
           V == Chunk
           step == [p \in (1 .. n) \X V |-> YieldSection(p[2], s[p[1]])]
           Solves(f) == f = [x \in SUBSET DOMAIN s |-> IF x = {} THEN b ELSE YieldSection(f[x \ {Max(x)}], s[Max(x)])]
           iter == CHOOSE f : Solves(f)
<1>1. FoldLeft(YieldSection, b, s) = iter[DOMAIN s]
  BY DEF FoldLeft, MapThenFoldSet
<1>2. n \in Nat /\ DOMAIN s = 1 .. n /\ b \in V /\ \A k \in 1 .. n : s[k] \in Section
  OBVIOUS
<1>3. \A v \in V, t \in Section : YieldSection(v, t) \in V
  <2> SUFFICES ASSUME NEW v \in V, NEW t \in Section
               PROVE  YieldSection(v, t) \in V
    OBVIOUS
  <2>1. Append(v, t.title) \in Chunk /\ t.content \in Seq(Unit)
    BY AppendProperties DEF Chunk, Section
  <2>2. Len(t.content) \in 0 .. Len(t.content)
    BY <2>1
  <2>3. PICK h \in [0 .. Len(t.content) -> Chunk] :
                 FoldLeft(Yield, Append(v, t.title), t.content) = h[Len(t.content)]
    BY ZenonT(40), <2>1, YieldFold
  <2>4. h[Len(t.content)] \in V
    BY <2>2, <2>3
  <2> QED
    BY <2>3, <2>4 DEF YieldSection
<1>4. step \in [(1 .. n) \X V -> V] /\ \A k \in 1 .. n, v \in V : step[<<k, v>>] = YieldSection(v, s[k])
  BY <1>2, <1>3
<1> HIDE DEF step
<1>5. PICK f : FoldsSets(f, n, V, b, step)
  BY <1>2, <1>4, SetIterates
<1>6. Solves(f)
  <2>1. ASSUME NEW x \in SUBSET (1 .. n), x # {}
        PROVE f[x] = YieldSection(f[x \ {Max(x)}], s[Max(x)])
    <3>1. Max(x) \in 1 .. n /\ x \ {Max(x)} \in SUBSET (1 .. n)
      BY <2>1, <1>2, MaxOf
    <3> QED
      BY <1>4, <1>5, <2>1, <3>1 DEF FoldsSets
  <2> QED
    BY <1>2, <1>5, <2>1 DEF FoldsSets
<1>7. Solves(iter)
  <2> HIDE DEF Solves
  <2> QED
    BY <1>6
<1> HIDE DEF iter
<1>8. iter[{}] = b
  BY <1>2, <1>7
<1>9. ASSUME NEW x \in SUBSET (1 .. n), x # {}, iter[x \ {Max(x)}] \in V
      PROVE  iter[x] = step[<<Max(x), iter[x \ {Max(x)}]>>]
  <2>1. Max(x) \in 1 .. n
    BY <1>2, <1>9, MaxOf
  <2> QED
    BY <1>2, <1>4, <1>7, <1>9, <2>1
<1>10. PICK h : FoldsUp(h, iter, n, V, b, step)
  <2> HIDE DEF n, V
  <2>1. IteratesSets(iter, n, V, b, step)
    BY <1>8, <1>9 DEF IteratesSets
  <2> QED
    BY <1>2, <1>4, <2>1, FoldSteps
<1>11. ASSUME NEW k \in 1 .. n PROVE h[k] = YieldSection(h[k - 1], s[k])
  <2>1. k - 1 \in 0 .. n
    BY <1>2
  <2>2. h[k - 1] \in V /\ h[k] = step[<<k, h[k - 1]>>]
    BY <1>10, <2>1 DEF FoldsUp
  <2> QED
    BY <1>4, <2>2
<1>12. h \in [0 .. n -> V] /\ h[0] = b
  BY <1>10 DEF FoldsUp
<1>13. FoldLeft(YieldSection, b, s) = h[n]
  BY <1>1, <1>2, <1>10 DEF FoldsUp
<1> QED
  BY <1>11, <1>12, <1>13

\* (what one step of the packing loops takes and gives)
LEMMA PackedType == ASSUME NEW chunks \in Seq(Chunk), NEW unit \in Unit PROVE Packed(chunks, unit) \in Seq(Chunk)
<1>1. <<unit>> \in Chunk
  BY DEF Chunk
<1>2. ASSUME chunks # <<>>
      PROVE  Front(chunks) \in Seq(Chunk) /\ Last(chunks) \in Chunk
  <2>1. Len(chunks) \in Nat \ {0} /\ \A i \in 1 .. Len(chunks) : chunks[i] \in Chunk
    BY <1>2
  <2> QED
    BY <2>1, SubSeqProperties DEF Front, Last
<1>3. \A c \in Chunk : Append(c, unit) \in Chunk
  BY AppendProperties DEF Chunk
<1> QED
  BY <1>1, <1>2, <1>3, AppendProperties DEF Packed

LEMMA CountedType == ASSUME NEW open \in Counts, NEW unit \in Unit PROVE Counted(open, unit) \in Counts
<1>1. /\ open.closed \in Nat /\ open.completed \in Nat /\ open.count \in Nat /\ open.size \in Nat /\ unit.size \in Nat
      /\ open.done \in BOOLEAN /\ unit.done \in BOOLEAN
  BY DEF Counts, Unit
<1>2. /\ open.closed + 1 \in Nat /\ open.completed + (IF open.done THEN 1 ELSE 0) \in Nat
      /\ open.count + 1 \in Nat /\ open.size + unit.size \in Nat /\ 1 \in Nat
      /\ (open.done /\ unit.done) \in BOOLEAN
  BY <1>1
<1>3. ASSUME NEW c \in Nat, NEW z \in Nat, NEW d \in BOOLEAN
      PROVE  [open EXCEPT !.count = c, !.size = z, !.done = d] \in Counts
  BY Zenon DEF Counts
<1>4. ASSUME NEW k \in Nat, NEW m \in Nat
      PROVE  [closed |-> k, completed |-> m, count |-> 1, size |-> unit.size, done |-> unit.done] \in Counts
  BY <1>1, <1>2, Zenon DEF Counts
<1> QED
  BY <1>1, <1>2, <1>3, <1>4, Zenon DEF Counted

\* the packing of them,
LEMMA PackedFold ==
  ASSUME NEW s \in Seq(Unit)
  PROVE  \E h \in [0 .. Len(s) -> Seq(Chunk)] :
           /\ h[0] = <<>> /\ \A k \in 1 .. Len(s) : h[k] = Packed(h[k - 1], s[k])
           /\ FoldLeft(Packed, <<>>, s) = h[Len(s)]
<1> DEFINE n == Len(s)
           V == Seq(Chunk)
           step == [p \in (1 .. n) \X V |-> Packed(p[2], s[p[1]])]
           Solves(f) == f = [x \in SUBSET DOMAIN s |-> IF x = {} THEN <<>> ELSE Packed(f[x \ {Max(x)}], s[Max(x)])]
           iter == CHOOSE f : Solves(f)
<1>1. FoldLeft(Packed, <<>>, s) = iter[DOMAIN s]
  BY DEF FoldLeft, MapThenFoldSet
<1>2. n \in Nat /\ DOMAIN s = 1 .. n /\ <<>> \in V /\ \A k \in 1 .. n : s[k] \in Unit
  OBVIOUS
<1>3. \A v \in V, t \in Unit : Packed(v, t) \in V
  BY PackedType
<1>4. step \in [(1 .. n) \X V -> V] /\ \A k \in 1 .. n, v \in V : step[<<k, v>>] = Packed(v, s[k])
  BY <1>2, <1>3
<1> HIDE DEF step
<1>5. PICK f : FoldsSets(f, n, V, <<>>, step)
  BY <1>2, <1>4, SetIterates
<1>6. Solves(f)
  <2>1. ASSUME NEW x \in SUBSET (1 .. n), x # {}
        PROVE f[x] = Packed(f[x \ {Max(x)}], s[Max(x)])
    <3>1. Max(x) \in 1 .. n /\ x \ {Max(x)} \in SUBSET (1 .. n)
      BY <2>1, <1>2, MaxOf
    <3> QED
      BY <1>4, <1>5, <2>1, <3>1 DEF FoldsSets
  <2> QED
    BY <1>2, <1>5, <2>1 DEF FoldsSets
<1>7. Solves(iter)
  <2> HIDE DEF Solves
  <2> QED
    BY <1>6
<1> HIDE DEF iter
<1>8. iter[{}] = <<>>
  BY <1>2, <1>7
<1>9. ASSUME NEW x \in SUBSET (1 .. n), x # {}, iter[x \ {Max(x)}] \in V
      PROVE  iter[x] = step[<<Max(x), iter[x \ {Max(x)}]>>]
  <2>1. Max(x) \in 1 .. n
    BY <1>2, <1>9, MaxOf
  <2> QED
    BY <1>2, <1>4, <1>7, <1>9, <2>1
<1>10. PICK h : FoldsUp(h, iter, n, V, <<>>, step)
  <2> HIDE DEF n, V
  <2>1. IteratesSets(iter, n, V, <<>>, step)
    BY <1>8, <1>9 DEF IteratesSets
  <2> QED
    BY <1>2, <1>4, <2>1, FoldSteps
<1>11. ASSUME NEW k \in 1 .. n PROVE h[k] = Packed(h[k - 1], s[k])
  <2>1. k - 1 \in 0 .. n
    BY <1>2
  <2>2. h[k - 1] \in V /\ h[k] = step[<<k, h[k - 1]>>]
    BY <1>10, <2>1 DEF FoldsUp
  <2> QED
    BY <1>4, <2>2
<1>12. h \in [0 .. n -> V] /\ h[0] = <<>>
  BY <1>10 DEF FoldsUp
<1>13. FoldLeft(Packed, <<>>, s) = h[n]
  BY <1>1, <1>2, <1>10 DEF FoldsUp
<1> QED
  BY <1>11, <1>12, <1>13

\* and the loop of the Web.
LEMMA CountedFold ==
  ASSUME NEW s \in Seq(Unit)
  PROVE  \E h \in [0 .. Len(s) -> Counts] :
           /\ h[0] = NoUnits /\ \A k \in 1 .. Len(s) : h[k] = Counted(h[k - 1], s[k])
           /\ FoldLeft(Counted, NoUnits, s) = h[Len(s)]
<1> DEFINE n == Len(s)
           V == Counts
           step == [p \in (1 .. n) \X V |-> Counted(p[2], s[p[1]])]
           Solves(f) == f = [x \in SUBSET DOMAIN s |-> IF x = {} THEN NoUnits ELSE Counted(f[x \ {Max(x)}], s[Max(x)])]
           iter == CHOOSE f : Solves(f)
<1>1. FoldLeft(Counted, NoUnits, s) = iter[DOMAIN s]
  BY DEF FoldLeft, MapThenFoldSet
<1>2. n \in Nat /\ DOMAIN s = 1 .. n /\ NoUnits \in V /\ \A k \in 1 .. n : s[k] \in Unit
  BY DEF NoUnits, Counts
<1>3. \A v \in V, t \in Unit : Counted(v, t) \in V
  BY CountedType
<1>4. step \in [(1 .. n) \X V -> V] /\ \A k \in 1 .. n, v \in V : step[<<k, v>>] = Counted(v, s[k])
  BY <1>2, <1>3
<1> HIDE DEF step
<1>5. PICK f : FoldsSets(f, n, V, NoUnits, step)
  BY <1>2, <1>4, SetIterates
<1>6. Solves(f)
  <2>1. ASSUME NEW x \in SUBSET (1 .. n), x # {}
        PROVE f[x] = Counted(f[x \ {Max(x)}], s[Max(x)])
    <3>1. Max(x) \in 1 .. n /\ x \ {Max(x)} \in SUBSET (1 .. n)
      BY <2>1, <1>2, MaxOf
    <3> QED
      BY <1>4, <1>5, <2>1, <3>1 DEF FoldsSets
  <2> QED
    BY <1>2, <1>5, <2>1 DEF FoldsSets
<1>7. Solves(iter)
  <2> HIDE DEF Solves
  <2> QED
    BY <1>6
<1> HIDE DEF iter
<1>8. iter[{}] = NoUnits
  BY <1>2, <1>7
<1>9. ASSUME NEW x \in SUBSET (1 .. n), x # {}, iter[x \ {Max(x)}] \in V
      PROVE  iter[x] = step[<<Max(x), iter[x \ {Max(x)}]>>]
  <2>1. Max(x) \in 1 .. n
    BY <1>2, <1>9, MaxOf
  <2> QED
    BY <1>2, <1>4, <1>7, <1>9, <2>1
<1>10. PICK h : FoldsUp(h, iter, n, V, NoUnits, step)
  <2> HIDE DEF n, V
  <2>1. IteratesSets(iter, n, V, NoUnits, step)
    BY <1>8, <1>9 DEF IteratesSets
  <2> QED
    BY <1>2, <1>4, <2>1, FoldSteps
<1>11. ASSUME NEW k \in 1 .. n PROVE h[k] = Counted(h[k - 1], s[k])
  <2>1. k - 1 \in 0 .. n
    BY <1>2
  <2>2. h[k - 1] \in V /\ h[k] = step[<<k, h[k - 1]>>]
    BY <1>10, <2>1 DEF FoldsUp
  <2> QED
    BY <1>4, <2>2
<1>12. h \in [0 .. n -> V] /\ h[0] = NoUnits
  BY <1>10 DEF FoldsUp
<1>13. FoldLeft(Counted, NoUnits, s) = h[n]
  BY <1>1, <1>2, <1>10 DEF FoldsUp
<1> QED
  BY <1>11, <1>12, <1>13

(* What one more unit, or one more chunk, adds.                             *)
LEMMA SizeMore ==
  ASSUME NEW s \in Seq(Unit), NEW x \in Unit
  PROVE  TotalSize(s) \in Nat /\ TotalSize(Append(s, x)) = TotalSize(s) + x.size
<1> DEFINE n == Len(s)
           m == Append(s, x)
<1>1. m \in Seq(Unit) /\ Len(m) = n + 1 /\ n \in Nat /\ m[n + 1] = x /\ \A k \in 1 .. n : m[k] = s[k]
  BY AppendProperties
<1>2. PICK h \in [0 .. n -> Nat] : /\ h[0] = 0 /\ \A k \in 1 .. n : h[k] = h[k - 1] + s[k].size
                                   /\ TotalSize(s) = h[n]
  BY SizeFold
<1>3. PICK g \in [0 .. n + 1 -> Nat] : /\ g[0] = 0 /\ \A k \in 1 .. n + 1 : g[k] = g[k - 1] + m[k].size
                                       /\ TotalSize(m) = g[n + 1]
  BY <1>1, SizeFold
<1> HIDE DEF m, n
<1> DEFINE T == {k \in 0 .. n : g[k] = h[k]}
<1>4. 0 .. n \subseteq T
  <2>1. 0 \in T
    BY <1>1, <1>2, <1>3
  <2>2. ASSUME NEW k \in 1 .. n, k - 1 \in T PROVE k \in T
    <3>1. g[k - 1] = h[k - 1] /\ k \in 0 .. n /\ k \in 1 .. n + 1 /\ m[k] = s[k]
      BY SMTT(40), <1>1, <2>2
    <3> QED
      BY <1>2, <1>3, <3>1
  <2> HIDE DEF T
  <2> QED
    BY <1>1, <2>1, <2>2, UpTo
<1>5. g[n] = h[n] /\ n \in 0 .. n
  BY <1>1, <1>4
<1>6. g[n + 1] = g[(n + 1) - 1] + m[n + 1].size /\ (n + 1) - 1 = n
  BY <1>1, <1>3
<1> QED
  BY <1>1, <1>2, <1>3, <1>5, <1>6 DEF m

LEMMA SizeOne == ASSUME NEW x \in Unit PROVE TotalSize(<<x>>) = x.size
<1>1. <<>> \in Seq(Unit) /\ Append(<<>>, x) = <<x>> /\ Len(<<>>) = 0
  OBVIOUS
<1>2. PICK h \in [0 .. 0 -> Nat] : h[0] = 0 /\ TotalSize(<<>>) = h[0]
  BY <1>1, SizeFold
<1>3. x.size \in Nat
  BY DEF Unit
<1>4. TotalSize(Append(<<>>, x)) = TotalSize(<<>>) + x.size
  BY <1>1, SizeMore
<1> QED
  BY <1>1, <1>2, <1>3, <1>4

LEMMA JoinMore ==
  ASSUME NEW s \in Seq(Chunk), NEW x \in Chunk
  PROVE  Joined(s) \in Seq(Unit) /\ Joined(Append(s, x)) = Joined(s) \o x
<1> DEFINE n == Len(s)
           m == Append(s, x)
<1>1. m \in Seq(Chunk) /\ Len(m) = n + 1 /\ n \in Nat /\ m[n + 1] = x /\ \A k \in 1 .. n : m[k] = s[k]
  BY AppendProperties
<1>2. PICK h \in [0 .. n -> Seq(Unit)] : /\ h[0] = <<>> /\ \A k \in 1 .. n : h[k] = h[k - 1] \o s[k]
                                         /\ Joined(s) = h[n]
  BY JoinFold
<1>3. PICK g \in [0 .. n + 1 -> Seq(Unit)] : /\ g[0] = <<>> /\ \A k \in 1 .. n + 1 : g[k] = g[k - 1] \o m[k]
                                             /\ Joined(m) = g[n + 1]
  BY <1>1, JoinFold
<1> HIDE DEF m, n
<1> DEFINE T == {k \in 0 .. n : g[k] = h[k]}
<1>4. 0 .. n \subseteq T
  <2>1. 0 \in T
    BY <1>1, <1>2, <1>3
  <2>2. ASSUME NEW k \in 1 .. n, k - 1 \in T PROVE k \in T
    <3>1. g[k - 1] = h[k - 1] /\ k \in 0 .. n /\ k \in 1 .. n + 1 /\ m[k] = s[k]
      BY SMTT(40), <1>1, <2>2
    <3> QED
      BY <1>2, <1>3, <3>1
  <2> HIDE DEF T
  <2> QED
    BY <1>1, <2>1, <2>2, UpTo
<1>5. g[n] = h[n] /\ n \in 0 .. n
  BY <1>1, <1>4
<1>6. g[n + 1] = g[(n + 1) - 1] \o m[n + 1] /\ (n + 1) - 1 = n
  <2>1. n + 1 \in 1 .. n + 1 /\ (n + 1) - 1 = n
    BY <1>1
  <2> QED
    BY <1>3, <2>1
<1> QED
  BY <1>1, <1>2, <1>3, <1>5, <1>6 DEF m

LEMMA JoinOne == ASSUME NEW x \in Chunk PROVE Joined(<<x>>) = x
<1>1. <<>> \in Seq(Chunk) /\ Append(<<>>, x) = <<x>> /\ Len(<<>>) = 0 /\ x \in Seq(Unit)
  BY DEF Chunk
<1>2. PICK h \in [0 .. 0 -> Seq(Unit)] : h[0] = <<>> /\ Joined(<<>>) = h[0]
  BY <1>1, JoinFold
<1>3. Joined(<<x>>) = <<>> \o x
  BY <1>1, <1>2, JoinMore
<1> QED
  BY <1>1, <1>3, ConcatEmptySeq

LEMMA CompletedMore ==
  ASSUME NEW s \in Seq(Unit), NEW x \in Unit
  PROVE  Completed(Append(s, x)) = (Completed(s) /\ x.done)
<1>1. /\ DOMAIN s = 1 .. Len(s) /\ DOMAIN Append(s, x) = 1 .. Len(s) + 1 /\ Len(s) \in Nat
      /\ Append(s, x)[Len(s) + 1] = x /\ \A i \in 1 .. Len(s) : Append(s, x)[i] = s[i]
  BY AppendProperties
<1>2. \A i \in 1 .. Len(s) + 1 : i \in 1 .. Len(s) \/ i = Len(s) + 1
  BY <1>1
<1>3. \A i \in 1 .. Len(s) : i \in 1 .. Len(s) + 1
  BY <1>1
<1>5. Len(s) + 1 \in 1 .. Len(s) + 1
  BY <1>1
<1>4. Completed(Append(s, x)) <=> Completed(s) /\ x.done
  BY <1>1, <1>2, <1>3, <1>5, Zenon DEF Completed
<1> QED
  BY <1>4, Zenon DEF Completed

LEMMA CompletedOne == ASSUME NEW x \in Unit PROVE Completed(<<x>>) = x.done
<1>1. DOMAIN <<x>> = {1} /\ <<x>>[1] = x
  OBVIOUS
<1>2. Completed(<<x>>) <=> x.done
  BY <1>1 DEF Completed
<1>3. x.done \in BOOLEAN
  BY DEF Unit
<1> QED
  BY <1>2, <1>3, Zenon DEF Completed

(* The chunks so far, of which l is the open one, are as they should be for *)
(* the units t, and the Web has counted them in w.                          *)
Packing(f, l, t, w) ==
  /\ f \in Seq(Chunk) /\ l \in Chunk /\ w \in Counts
  /\ Joined(Append(f, l)) = t
  /\ \A c \in 1 .. Len(f) : TotalSize(f[c]) <= MaxCharacters \/ Len(f[c]) = 1
  /\ TotalSize(l) <= MaxCharacters \/ Len(l) = 1
  /\ \A c \in 1 .. Len(f) : TotalSize(f[c]) + Append(f, l)[c + 1][1].size > MaxCharacters
  /\ w.closed = Len(f) /\ w.count = Len(l) /\ w.size = TotalSize(l) /\ w.done = Completed(l)
  /\ w.completed = Cardinality({c \in 1 .. Len(f) : Completed(f[c])})

Agreed(cs, t, w) == \E f, l : cs = Append(f, l) /\ Packing(f, l, t, w)

LEMMA FirstUnit == ASSUME NEW x \in Unit PROVE Agreed(Packed(<<>>, x), <<x>>, Counted(NoUnits, x))
<1>1. <<x>> \in Chunk /\ <<>> \in Seq(Chunk) /\ Append(<<>>, <<x>>) = << <<x>> >> /\ Len(<<>>) = 0 /\ Len(<<x>>) = 1
  BY DEF Chunk
<1>2. NoUnits \in Counts /\ NoUnits.closed = 0 /\ NoUnits.completed = 0 /\ NoUnits.count = 0 /\ NoUnits.size = 0
      /\ NoUnits.done = TRUE
  BY Zenon DEF NoUnits, Counts
<1>3. Counted(NoUnits, x) \in Counts
  BY <1>2, CountedType
<1>4. x.size \in Nat /\ x.done \in BOOLEAN
  BY DEF Unit
<1>5. Counted(NoUnits, x) = [NoUnits EXCEPT !.count = 1, !.size = x.size, !.done = x.done]
  <2>1. ~ (0 > 0) /\ 0 + 1 = 1 /\ 0 + x.size = x.size
    BY <1>4
  <2> QED
    BY <1>2, <1>4, <2>1, Zenon DEF Counted
<1>6. LET w == Counted(NoUnits, x) IN
      w.closed = 0 /\ w.completed = 0 /\ w.count = 1 /\ w.size = x.size /\ w.done = x.done
  BY <1>5, Zenon DEF NoUnits
<1>7. Completed(<<x>>) = x.done
  BY CompletedOne
<1>8. {c \in 1 .. Len(<<>>) : Completed(<<>>[c])} = {} /\ Cardinality({}) = 0
  BY <1>1, FS_EmptySet
<1>9. Packed(<<>>, x) = Append(<<>>, <<x>>)
  BY DEF Packed
<1>10. Packing(<<>>, <<x>>, <<x>>, Counted(NoUnits, x))
  BY <1>1, <1>3, <1>6, <1>7, <1>8, SizeOne, JoinOne DEF Packing
<1> QED
  BY <1>9, <1>10 DEF Agreed

(* One more unit: Packed and Counted either both open a chunk or both fill  *)
(* the open one.                                                            *)
LEMMA NextUnit ==
  ASSUME NEW cs, NEW t \in Seq(Unit), NEW w, NEW x \in Unit, Agreed(cs, t, w)
  PROVE  Agreed(Packed(cs, x), Append(t, x), Counted(w, x))
<1>0. PICK f, l : cs = Append(f, l) /\ Packing(f, l, t, w)
  BY DEF Agreed
<1> DEFINE n == Len(f)
           v == Counted(w, x)
           full == TotalSize(l) + x.size > MaxCharacters
<1>1. /\ f \in Seq(Chunk) /\ l \in Chunk /\ w \in Counts /\ l \in Seq(Unit) /\ l # <<>> /\ n \in Nat
      /\ x.size \in Nat /\ x.done \in BOOLEAN /\ MaxCharacters \in Nat
  BY <1>0, MaxCharactersAssumption DEF Packing, Chunk, Unit
<1>2. /\ cs \in Seq(Chunk) /\ cs # <<>> /\ Len(cs) = n + 1 /\ cs[n + 1] = l /\ \A c \in 1 .. n : cs[c] = f[c]
  BY <1>0, <1>1, AppendProperties
<1>3. Last(cs) = l /\ Front(cs) = f
  BY <1>1, <1>2 DEF Front, Last
<1>4. TotalSize(l) \in Nat /\ TotalSize(Append(l, x)) = TotalSize(l) + x.size /\ TotalSize(<<x>>) = x.size
  BY <1>1, SizeMore, SizeOne
<1>5. Joined(cs) = t /\ Joined(f) \in Seq(Unit) /\ t = Joined(f) \o l
  BY <1>0, <1>1, JoinMore DEF Packing
<1>6. w.closed = n /\ w.count = Len(l) /\ w.size = TotalSize(l) /\ w.done = Completed(l) /\ w.count > 0
      /\ w.completed = Cardinality({c \in 1 .. n : Completed(f[c])})
  BY <1>0, <1>1 DEF Packing
<1>7. v \in Counts
  BY <1>1, CountedType
<1>8. CASE full
  <2>1. Packed(cs, x) = Append(cs, <<x>>)
    BY <1>3, <1>8 DEF Packed
  <2>2. v = [closed |-> w.closed + 1, completed |-> w.completed + (IF w.done THEN 1 ELSE 0),
             count |-> 1, size |-> x.size, done |-> x.done]
    BY <1>6, <1>8 DEF Counted
  <2>3. <<x>> \in Chunk /\ Len(<<x>>) = 1 /\ <<x>>[1] = x
    BY DEF Chunk
  <2>4. Joined(Append(cs, <<x>>)) = Append(t, x)
    BY ZenonT(40), <1>2, <1>5, <2>3, JoinMore, AppendIsConcat
  <2>5. \A c \in 1 .. Len(cs) : TotalSize(cs[c]) <= MaxCharacters \/ Len(cs[c]) = 1
    BY <1>0, <1>1, <1>2 DEF Packing
  <2>6. ASSUME NEW c \in 1 .. Len(cs)
        PROVE  TotalSize(cs[c]) + Append(cs, <<x>>)[c + 1][1].size > MaxCharacters
    <3>1. /\ \A k \in 1 .. n + 1 : Append(cs, <<x>>)[k] = cs[k]
          /\ Append(cs, <<x>>)[(n + 1) + 1] = <<x>>
      BY <1>2, <2>3, AppendProperties
    <3>2. CASE c = n + 1
      BY <1>2, <1>8, <2>3, <3>1, <3>2
    <3>3. CASE c # n + 1
      <4>1. c \in 1 .. n /\ c + 1 \in 1 .. n + 1
        BY <1>1, <1>2, <3>3
      <4> QED
        BY <1>0, <1>2, <3>1, <4>1 DEF Packing
    <3> QED
      BY <3>2, <3>3
  <2>7. Completed(<<x>>) = x.done
    BY CompletedOne
  <2>8. v.completed = Cardinality({c \in 1 .. Len(cs) : Completed(cs[c])})
    <3> DEFINE S == {c \in 1 .. n : Completed(f[c])}
               S2 == {c \in 1 .. n + 1 : Completed(cs[c])}
    <3>1. IsFiniteSet(S) /\ n + 1 \notin S
      <4>1. S \subseteq 1 .. n /\ IsFiniteSet(1 .. n)
        BY <1>1, FS_Interval
      <4> QED
        BY <1>1, <4>1, FS_Subset
    <3>2. Cardinality(S) \in Nat /\ Cardinality(S \cup {n + 1}) = Cardinality(S) + 1
      BY <3>1, FS_CardinalityType, FS_AddElement
    <3>3. S2 = IF Completed(l) THEN S \cup {n + 1} ELSE S
      BY <1>1, <1>2
    <3>4. v.completed = w.completed + (IF w.done THEN 1 ELSE 0)
      BY <2>2
    <3> HIDE DEF S, S2
    <3>5. v.completed = Cardinality(S2)
      BY <1>6, <3>2, <3>3, <3>4 DEF S
    <3> QED
      BY <1>2, <3>5 DEF S2
  <2>9. v.closed = Len(cs) /\ v.count = 1 /\ v.size = x.size /\ v.done = x.done
    BY <1>2, <1>6, <2>2
  <2>10. Packing(cs, <<x>>, Append(t, x), v)
    BY <1>2, <1>4, <1>7, <2>3, <2>4, <2>5, <2>6, <2>7, <2>8, <2>9, Zenon DEF Packing
  <2> QED
    BY <2>1, <2>10 DEF Agreed
<1>9. CASE ~ full
  <2> DEFINE m == Append(l, x)
  <2>1. Packed(cs, x) = Append(f, m)
    BY <1>2, <1>3, <1>9 DEF Packed
  <2>2. v = [w EXCEPT !.count = w.count + 1, !.size = w.size + x.size, !.done = w.done /\ x.done]
    <3>1. ~ (w.size + x.size > MaxCharacters)
      BY <1>6, <1>9
    <3> QED
      BY <3>1, Zenon DEF Counted
  <2>3. m \in Chunk /\ m \in Seq(Unit) /\ Len(m) = Len(l) + 1 /\ m[1] = l[1] /\ m[Len(l) + 1] = x
        /\ \A i \in 1 .. Len(l) : m[i] = l[i]
    <3>1. Len(l) \in Nat \ {0}
      BY <1>1
    <3> QED
      BY <1>1, <3>1, AppendProperties DEF Chunk
  <2>4. Joined(Append(f, m)) = Append(t, x)
    <3>1. <<x>> \in Seq(Unit)
      OBVIOUS
    <3>2. Joined(Append(f, m)) = Joined(f) \o m /\ m = l \o <<x>> /\ Append(t, x) = t \o <<x>>
      BY <1>1, <2>3, JoinMore, AppendIsConcat
    <3> QED
      BY SMTT(40), <1>1, <1>5, <3>1, <3>2, ConcatAssociative
  <2>5. TotalSize(m) <= MaxCharacters
    BY <1>1, <1>4, <1>9
  <2>6. ASSUME NEW c \in 1 .. n
        PROVE  TotalSize(f[c]) + Append(f, m)[c + 1][1].size > MaxCharacters
    <3>1. Append(f, m)[c + 1] = IF c = n THEN m ELSE f[c + 1]
      BY <1>1, <2>3, AppendProperties
    <3>2. cs[c + 1] = IF c = n THEN l ELSE f[c + 1]
      BY SMTT(40), <1>1, <1>2
    <3>3. TotalSize(f[c]) + cs[c + 1][1].size > MaxCharacters
      BY <1>0 DEF Packing
    <3> QED
      BY <2>3, <3>1, <3>2, <3>3
  <2>7. Completed(m) = (Completed(l) /\ x.done)
    BY <1>1, CompletedMore
  <2>8. v.count = w.count + 1 /\ v.size = w.size + x.size /\ v.done = (w.done /\ x.done)
        /\ v.closed = w.closed /\ v.completed = w.completed
    BY <1>1, <2>2, Zenon DEF Counts
  <2>9. v.closed = Len(f) /\ v.count = Len(m) /\ v.size = TotalSize(m)
        /\ v.completed = Cardinality({c \in 1 .. Len(f) : Completed(f[c])})
    BY <1>4, <1>6, <2>3, <2>8
  <2>10. v.done = Completed(m)
    BY <1>6, <2>7, <2>8, Zenon
  <2>11. \A c \in 1 .. Len(f) : TotalSize(f[c]) <= MaxCharacters \/ Len(f[c]) = 1
    BY <1>0 DEF Packing
  <2> HIDE DEF m, v
  <2>12. Packing(f, m, Append(t, x), v)
    BY <1>1, <1>7, <2>3, <2>4, <2>5, <2>6, <2>9, <2>10, <2>11, Zenon DEF Packing
  <2> QED
    BY <2>1, <2>12 DEF v, Agreed
<1> QED
  BY <1>8, <1>9

LEMMA LoopsAgree ==
  ASSUME NEW u \in Seq(Unit), u # <<>>
  PROVE  Agreed(FoldLeft(Packed, <<>>, u), u, FoldLeft(Counted, NoUnits, u))
<1> DEFINE n == Len(u)
<1>1. n \in Nat \ {0} /\ \A k \in 1 .. n : u[k] \in Unit
  OBVIOUS
<1>2. PICK h \in [0 .. n -> Seq(Chunk)] : /\ h[0] = <<>> /\ \A k \in 1 .. n : h[k] = Packed(h[k - 1], u[k])
                                          /\ FoldLeft(Packed, <<>>, u) = h[n]
  BY PackedFold
<1>3. PICK w \in [0 .. n -> Counts] : /\ w[0] = NoUnits /\ \A k \in 1 .. n : w[k] = Counted(w[k - 1], u[k])
                                      /\ FoldLeft(Counted, NoUnits, u) = w[n]
  BY CountedFold
<1>4. /\ \A k \in 1 .. n : SubSeq(u, 1, k) \in Seq(Unit)
      /\ SubSeq(u, 1, 1) = <<u[1]>> /\ SubSeq(u, 1, n) = u
      /\ \A k \in 2 .. n : SubSeq(u, 1, k) = Append(SubSeq(u, 1, k - 1), u[k])
  <2>1. ASSUME NEW k \in 1 .. n PROVE SubSeq(u, 1, k) \in Seq(Unit)
    BY <1>1, <2>1, SubSeqProperties
  <2>2. SubSeq(u, 1, 1) = <<u[1]>> /\ SubSeq(u, 1, n) = u
    <3>1. SubSeq(u, 1, 1) \in Seq(Unit) /\ Len(SubSeq(u, 1, 1)) = 1 /\ SubSeq(u, 1, 1)[1] = u[1]
      <4>1. \A i \in 1 .. 1 : u[i] \in Unit
        BY <1>1
      <4>2. /\ SubSeq(u, 1, 1) \in Seq(Unit) /\ Len(SubSeq(u, 1, 1)) = (IF 1 <= 1 THEN 1 - 1 + 1 ELSE 0)
            /\ \A i \in 1 .. 1 - 1 + 1 : SubSeq(u, 1, 1)[i] = u[1 + i - 1]
        BY <4>1, SubSeqProperties
      <4>3. 1 \in 1 .. 1 - 1 + 1 /\ 1 + 1 - 1 = 1
        OBVIOUS
      <4> QED
        BY <4>2, <4>3
    <3>2. <<u[1]>> \in Seq(Unit) /\ Len(<<u[1]>>) = 1
      BY <1>1
    <3> DEFINE a == SubSeq(u, 1, 1)
               b == <<u[1]>>
    <3> HIDE DEF a
    <3>3. \A i \in 1 .. Len(a) : a[i] = b[i]
      BY <3>1 DEF a
    <3> HIDE DEF b
    <3>4. a = b
      BY <3>1, <3>2, <3>3, SeqEqual DEF a, b
    <3> QED
      BY <3>4, SubSeqFull DEF a, b
  <2>3. ASSUME NEW k \in 2 .. n PROVE SubSeq(u, 1, k) = Append(SubSeq(u, 1, k - 1), u[k])
    <3>1. k - 1 \in 1 .. n /\ k \in 1 .. n /\ k \in Int /\ k - 1 \in Int
      BY <1>1
    <3>2. /\ SubSeq(u, 1, k) \in Seq(Unit) /\ Len(SubSeq(u, 1, k)) = k
          /\ \A i \in 1 .. k : SubSeq(u, 1, k)[i] = u[i]
      BY <1>1, <3>1, SubSeqProperties
    <3>3. /\ SubSeq(u, 1, k - 1) \in Seq(Unit) /\ Len(SubSeq(u, 1, k - 1)) = k - 1
          /\ \A i \in 1 .. k - 1 : SubSeq(u, 1, k - 1)[i] = u[i]
      BY <1>1, <3>1, SubSeqProperties
    <3> DEFINE a == SubSeq(u, 1, k - 1)
               b == SubSeq(u, 1, k)
    <3> HIDE DEF a, b
    <3>4. Append(a, u[k]) \in Seq(Unit) /\ Len(Append(a, u[k])) = k
          /\ \A i \in 1 .. k : Append(a, u[k])[i] = u[i]
      BY <1>1, <3>1, <3>3, AppendProperties DEF a
    <3>5. b = Append(a, u[k])
      BY <3>2, <3>4, SeqEqual DEF b
    <3> QED
      BY <3>5 DEF a, b
  <2> QED
    BY <2>1, <2>2, <2>3
<1> HIDE DEF n
<1> DEFINE Agree(k) == Agreed(h[k], SubSeq(u, 1, k), w[k])
           T == {k \in 0 .. n : k = 0 \/ Agree(k)}
<1>5. 0 .. n \subseteq T
  <2>1. 0 \in T
    BY <1>1
  <2>2. ASSUME NEW k \in 1 .. n, k - 1 \in T PROVE k \in T
    <3>1. CASE k = 1
      <4>1. h[1] = Packed(<<>>, u[1]) /\ w[1] = Counted(NoUnits, u[1]) /\ u[1] \in Unit
        BY <1>1, <1>2, <1>3
      <4>2. Agree(1)
        BY <1>4, <4>1, FirstUnit
      <4> HIDE DEF Agree
      <4> QED
        BY <1>1, <3>1, <4>2
    <3>2. CASE k # 1
      <4>1. k \in 2 .. n /\ k - 1 \in 1 .. n /\ k - 1 # 0
        BY <1>1, <3>2
      <4>2. Agreed(h[k - 1], SubSeq(u, 1, k - 1), w[k - 1])
        BY <2>2, <4>1
      <4>3. h[k] = Packed(h[k - 1], u[k]) /\ w[k] = Counted(w[k - 1], u[k]) /\ u[k] \in Unit
            /\ SubSeq(u, 1, k - 1) \in Seq(Unit) /\ SubSeq(u, 1, k) = Append(SubSeq(u, 1, k - 1), u[k])
        BY <1>1, <1>2, <1>3, <1>4, <4>1
      <4>4. Agree(k)
        BY <4>2, <4>3, NextUnit
      <4> HIDE DEF Agree
      <4> QED
        BY <1>1, <2>2, <4>4
    <3> QED
      BY <3>1, <3>2
  <2> HIDE DEF T
  <2> QED
    BY <1>1, <2>1, <2>2, UpTo
<1>6. Agree(n)
  <2> HIDE DEF Agree
  <2> QED
    BY <1>1, <1>5
<1> QED
  BY <1>2, <1>3, <1>4, <1>6

(* The two programs take the same units, and there is always the title.     *)
DocumentType == [title : Unit, sections : Seq(Section)]
LEMMA UnitsOf ==
  ASSUME NEW d \in DocumentType
  PROVE  TranslatableUnits(d) \in Chunk /\ WebUnits(d) = TranslatableUnits(d)
<1>1. <<d.title>> \in Chunk /\ d.sections \in Seq(Section)
  BY DEF DocumentType, Chunk
<1>2. PICK h \in [0 .. Len(d.sections) -> Chunk] : FoldLeft(YieldSection, <<d.title>>, d.sections) = h[Len(d.sections)]
  BY ZenonT(40), <1>1, SectionsFold
<1>3. Len(d.sections) \in 0 .. Len(d.sections)
  BY <1>1
<1>4. h[Len(d.sections)] \in Chunk
  BY <1>2, <1>3
<1>5. TranslatableUnits(d) \in Chunk
  BY <1>2, <1>4 DEF TranslatableUnits
<1>6. WebUnits(d) = TranslatableUnits(d)
  BY DEF WebUnits, TranslatableUnits, FoldLeft, MapThenFoldSet, PushSection, YieldSection, Push, Yield,
         TRANSLATABLE_ROLES
<1> QED
  BY <1>5, <1>6

DocumentInv == document \in DocumentType /\ document.sections # <<>>
LEMMA HeadingIsUnit == Heading \in Unit
  BY DEF Heading, Unit

LEMMA ItemIsUnit == Item \subseteq Unit
<1> SUFFICES ASSUME NEW item \in Item PROVE item \in Unit
  OBVIOUS
<1>1. item \in [type : STRING, kind : STRING, size : Nat, done : BOOLEAN]
  BY ItemAssumption
<1> QED
  BY <1>1 DEF Unit

LEMMA DocumentInit == RulesInit => DocumentInv
<1>1. [title |-> Heading, content |-> <<>>] \in Section
  BY HeadingIsUnit DEF Section
<1> QED
  BY <1>1, HeadingIsUnit DEF RulesInit, DocumentInv, DocumentType

LEMMA DocumentStep == DocumentInv /\ [RulesNext]_ruleVars => DocumentInv'
<1> SUFFICES ASSUME DocumentInv, [RulesNext]_ruleVars PROVE DocumentInv'
  OBVIOUS
<1> DEFINE ss == document.sections
           n == Len(ss)
<1>1. /\ document.title \in Unit /\ ss \in Seq(Section) /\ n \in Nat \ {0} /\ document \in DocumentType
      /\ \A s \in 1 .. n : ss[s] \in Section
  BY DEF DocumentInv, DocumentType
<1>2. \A u \in Unit : [u EXCEPT !.done = TRUE] \in Unit
  BY Zenon DEF Unit
<1>3. ASSUME NEW s \in 1 .. n, NEW x \in Section, document' = [document EXCEPT !.sections[s] = x]
      PROVE  DocumentInv'
  <2>1. [ss EXCEPT ![s] = x] \in Seq(Section) /\ Len([ss EXCEPT ![s] = x]) = n
    BY <1>1, ExceptSeq
  <2>2. [ss EXCEPT ![s] = x] # <<>>
    BY <1>1, <2>1
  <2>3. document' \in DocumentType /\ document'.sections = [ss EXCEPT ![s] = x]
    BY <1>1, <1>3, <2>1 DEF DocumentType
  <2> QED
    BY <2>2, <2>3 DEF DocumentInv
<1>4. CASE OpenSection
  <2>1. [title |-> Heading, content |-> <<>>] \in Section
    BY HeadingIsUnit DEF Section
  <2>2. document' = [document EXCEPT !.sections = Append(ss, [title |-> Heading, content |-> <<>>])]
    BY <1>4 DEF OpenSection
  <2>3. /\ Append(ss, [title |-> Heading, content |-> <<>>]) \in Seq(Section)
        /\ Append(ss, [title |-> Heading, content |-> <<>>]) # <<>>
    BY <1>1, <2>1, AppendProperties
  <2> QED
    BY <1>1, <2>2, <2>3 DEF DocumentInv, DocumentType
<1>5. CASE AddItem
  <2>1. PICK item \in Item :
          document' = [document EXCEPT !.sections[n].content = Append(@, item)]
    BY <1>5 DEF AddItem
  <2>2. item \in Unit
    BY ItemIsUnit
  <2> DEFINE x == [ss[n] EXCEPT !.content = Append(@, item)]
  <2>3. n \in 1 .. n
    BY <1>1
  <2>4. ss[n] \in Section /\ Append(ss[n].content, item) \in Seq(Unit)
    BY <1>1, <2>2, <2>3, AppendProperties DEF Section
  <2>5. x \in Section
    BY <2>4 DEF Section
  <2>6. document' = [document EXCEPT !.sections[n] = x]
    BY <1>1, <2>1, <2>3, Zenon
  <2> HIDE DEF x
  <2> QED
    BY <1>3, <2>3, <2>5, <2>6
<1>6. CASE Translate
  <2>1. CASE document' = [document EXCEPT !.title.done = TRUE]
    <3>1. [document.title EXCEPT !.done = TRUE] \in Unit
      BY <1>1, <1>2
    <3>2. document' = [document EXCEPT !.title = [document.title EXCEPT !.done = TRUE]]
      BY <2>1, Zenon
    <3> QED
      BY <1>1, <3>1, <3>2 DEF DocumentInv, DocumentType
  <2>2. ASSUME NEW s \in DOMAIN ss, document' = [document EXCEPT !.sections[s].title.done = TRUE] PROVE DocumentInv'
    <3> DEFINE y == [ss[s].title EXCEPT !.done = TRUE]
               x == [ss[s] EXCEPT !.title = y]
    <3>1. s \in 1 .. n /\ ss[s] \in Section
      BY <1>1, <2>2
    <3>2. ss[s].title \in Unit
      BY <3>1 DEF Section
    <3>3. y \in Unit
      BY <1>2, <3>2
    <3>4. document' = [document EXCEPT !.sections[s] = x]
      BY <2>2, Zenon
    <3> HIDE DEF y
    <3>5. x \in Section
      BY <3>1, <3>3 DEF Section
    <3> HIDE DEF x
    <3> QED
      BY <1>3, <3>1, <3>4, <3>5
  <2>3. ASSUME NEW s \in DOMAIN ss, NEW i \in DOMAIN ss[s].content,
               document' = [document EXCEPT !.sections[s].content[i].done = TRUE]
        PROVE  DocumentInv'
    <3> DEFINE y == [ss[s].content[i] EXCEPT !.done = TRUE]
               z == [ss[s].content EXCEPT ![i] = y]
               x == [ss[s] EXCEPT !.content = z]
    <3>1. s \in 1 .. n /\ ss[s] \in Section
      BY <1>1, <2>3
    <3>2. ss[s].content \in Seq(Unit) /\ i \in 1 .. Len(ss[s].content) /\ ss[s].content[i] \in Unit
      BY <2>3, <3>1 DEF Section
    <3>3. y \in Unit
      BY <1>2, <3>2
    <3>4. document' = [document EXCEPT !.sections[s] = x]
      BY <2>3, Zenon
    <3> HIDE DEF y
    <3>5. z \in Seq(Unit)
      BY <3>2, <3>3, ExceptSeq
    <3> HIDE DEF z
    <3>6. x \in Section
      BY <3>1, <3>5 DEF Section
    <3> HIDE DEF x
    <3> QED
      BY <1>3, <3>1, <3>4, <3>6
  <2> QED
    BY <1>6, <2>1, <2>2, <2>3 DEF Translate
<1>7. CASE UNCHANGED document
  BY <1>7 DEF DocumentInv
<1> QED
  BY <1>4, <1>5, <1>6, <1>7 DEF RulesNext, TagStep, WriteLine, MapPages, ruleVars

(* The Web and the manifest agree on every document, and its chunks hold    *)
(* every unit once, in reading order, each as full as the limit lets it.    *)
THEOREM ProgressIsShared == RulesSpec => []ProgressAgrees
<1>1. DocumentInv => ProgressAgrees
  <2> SUFFICES ASSUME DocumentInv PROVE ProgressAgrees
    OBVIOUS
  <2> DEFINE u == TranslatableUnits(document)
             w == FoldLeft(Counted, NoUnits, u)
             cs == TranslationChunks(document)
  <2>1. u \in Seq(Unit) /\ u # <<>> /\ WebUnits(document) = u
    BY UnitsOf DEF DocumentInv, Chunk
  <2>2. PICK f, l : cs = Append(f, l) /\ Packing(f, l, u, w)
    BY <2>1, LoopsAgree DEF TranslationChunks, Agreed
  <2> DEFINE n == Len(f)
  <2>3. f \in Seq(Chunk) /\ l \in Chunk /\ n \in Nat /\ w \in Counts
    BY <2>2 DEF Packing
  <2>4. DOMAIN cs = 1 .. n + 1 /\ Len(cs) = n + 1 /\ cs[n + 1] = l /\ \A c \in 1 .. n : cs[c] = f[c]
    BY <2>2, <2>3, AppendProperties
  <2>5. WebProgress(document) = [completed |-> w.completed + (IF w.done THEN 1 ELSE 0), total |-> w.closed + 1]
    BY <2>1, Zenon DEF WebProgress
  <2>6. ManifestProgress(document) =
          [completed |-> Cardinality({c \in DOMAIN cs : Completed(cs[c])}), total |-> Len(cs)]
    BY DEF ManifestProgress
  <2> HIDE DEF u, w, cs
  <2>7. Cardinality({c \in DOMAIN cs : Completed(cs[c])}) = w.completed + (IF w.done THEN 1 ELSE 0)
    <3> DEFINE S == {c \in 1 .. n : Completed(f[c])}
               S2 == {c \in 1 .. n + 1 : Completed(cs[c])}
    <3>1. IsFiniteSet(S) /\ n + 1 \notin S
      <4>1. S \subseteq 1 .. n /\ IsFiniteSet(1 .. n)
        BY <2>3, FS_Interval
      <4> QED
        BY <2>3, <4>1, FS_Subset
    <3>2. Cardinality(S) \in Nat /\ Cardinality(S \cup {n + 1}) = Cardinality(S) + 1
      BY <3>1, FS_CardinalityType, FS_AddElement
    <3>3. S2 = IF Completed(l) THEN S \cup {n + 1} ELSE S
      BY <2>3, <2>4
    <3>4. w.completed = Cardinality(S) /\ w.done = Completed(l)
      BY <2>2 DEF Packing
    <3> HIDE DEF S, S2
    <3>5. Cardinality(S2) = w.completed + (IF w.done THEN 1 ELSE 0)
      BY <3>2, <3>3, <3>4
    <3> QED
      BY <2>4, <3>5 DEF S2
  <2>8. w.closed + 1 = Len(cs)
    BY <2>2, <2>4 DEF Packing
  <2>9. WebProgress(document) = ManifestProgress(document)
    BY <2>5, <2>6, <2>7, <2>8
  <2>10. Joined(cs) = u
    BY <2>2 DEF Packing
  <2>11. ASSUME NEW c \in DOMAIN cs
         PROVE  /\ TotalSize(cs[c]) <= MaxCharacters \/ Len(cs[c]) = 1
                /\ c < Len(cs) => TotalSize(cs[c]) + cs[c + 1][1].size > MaxCharacters
    <3>1. CASE c = n + 1
      BY <2>2, <2>4, <3>1, <2>3 DEF Packing
    <3>2. CASE c # n + 1
      <4>1. c \in 1 .. n
        BY <2>3, <2>4, <3>2
      <4> QED
        BY <2>2, <2>4, <4>1 DEF Packing
    <3> QED
      BY <3>1, <3>2
  <2> QED
    BY <2>9, <2>10, <2>11 DEF ProgressAgrees, u, cs
<1> QED
  BY <1>1, DocumentInit, DocumentStep, PTL DEF RulesSpec
===============================================================================
