-------------------------- MODULE ContainerRun_proofs --------------------------
(* ContainerRun for any jobs, assets, calls, engine and sizes.                 *)
EXTENDS ContainerRun, SequenceTheorems, FiniteSetTheorems, TLAPS

-------------------------------------------------------------------------------
(* The assets.  Of the calls that are linking or about to undo it, one at most *)
(* has linked something, and then everything that is linked is its own.        *)

Linking == {"look", "mkdir", "link", "undo"}
\* The assets before the n-th of the manifest.
First(n) == {Assets[i] : i \in 1 .. n - 1}
AssetsTyped ==
  /\ at \in [Calls -> {"off", "begin", "undoDirs", "answered"} \cup Linking]
  /\ todo \in [Calls -> 1 .. Len(Assets) + 1]
  /\ made \in [Calls -> [links : SUBSET Linked, dirs : SUBSET Directories]]
  /\ answer \in [Calls -> {"none", "ready", "refused"}]
  /\ links \subseteq Linked
OwnLinks ==
  \A c \in Calls :
    /\ at[c] \in {"off", "begin"} => todo[c] = 1 /\ made[c].links = {}
    /\ at[c] \in Linking => made[c].links = First(todo[c])
    /\ at[c] \in {"mkdir", "link", "undo"} => todo[c] <= Len(Assets)
OneLinks ==
  /\ \A c \in Calls : at[c] \in Linking /\ todo[c] > 1 => links = First(todo[c])
  /\ \A c, d \in Calls :
       at[c] \in Linking /\ at[d] \in Linking /\ todo[c] > 1 /\ todo[d] > 1 => c = d
  /\ links # {} => Assets[1] \in links
AssetsInv == AssetsTyped /\ OwnLinks /\ OneLinks /\ ReadyIsStable

LEMMA Manifest ==
  /\ Len(Assets) \in Nat
  /\ First(1) = {} /\ First(Len(Assets) + 1) = Linked
  /\ \A n \in 1 .. Len(Assets) :
       /\ Assets[n] \in Linked /\ DirOf[Assets[n]] \in Directories
       /\ First(n + 1) = First(n) \cup {Assets[n]} /\ Assets[n] \notin First(n)
       /\ Assets[1] \in First(n + 1)
<1>1. Len(Assets) \in Nat /\ DOMAIN Assets = 1 .. Len(Assets)
  BY AssetAssumption
<1>2. Linked = {Assets[i] : i \in 1 .. Len(Assets)}
  BY <1>1 DEF Linked, ToSet
<1>3. First(1) = {} /\ First(Len(Assets) + 1) = Linked
  <2>1. 1 .. 1 - 1 = {} /\ Len(Assets) + 1 - 1 = Len(Assets)
    BY <1>1
  <2> QED
    BY <1>2, <2>1 DEF First
<1>4. ASSUME NEW n \in 1 .. Len(Assets)
      PROVE  /\ Assets[n] \in Linked /\ DirOf[Assets[n]] \in Directories
             /\ First(n + 1) = First(n) \cup {Assets[n]} /\ Assets[n] \notin First(n)
             /\ Assets[1] \in First(n + 1)
  <2>1. 1 .. n + 1 - 1 = (1 .. n - 1) \cup {n} /\ n \notin 1 .. n - 1 /\ 1 \in 1 .. n + 1 - 1
    BY <1>1
  <2>2. Assets[n] \in Linked /\ DirOf[Assets[n]] \in Directories
    BY <1>2 DEF Directories
  <2>3. First(n + 1) = First(n) \cup {Assets[n]} /\ Assets[1] \in First(n + 1)
    BY <2>1 DEF First
  <2>4. Assets[n] \notin First(n)
    BY <1>1, AssetsAreDistinct DEF First
  <2> QED
    BY <2>2, <2>3, <2>4
<1> QED
  BY <1>1, <1>3, <1>4

LEMMA AssetsInvInit == (\E disk \in BOOLEAN : AssetsInit(disk)) => AssetsInv
BY Manifest DEF AssetsInit, AssetsInv, AssetsTyped, OwnLinks, OneLinks, ReadyIsStable, Linking

LEMMA AssetsInvStep ==
  ASSUME AssetsInv, NEW c \in Calls, Materialize(c)
  PROVE  AssetsInv'
<1>1. CASE FindCache(c)
  <2> USE <1>1 DEF FindCache, Move, Answer
  <2>1. AssetsTyped'
    BY DEF AssetsInv, AssetsTyped, Linking
  <2>2. todo[c] = 1 /\ made[c].links = First(todo[c])
    BY Manifest DEF AssetsInv, OwnLinks
  <2>3. OwnLinks'
    BY <2>2 DEF AssetsInv, AssetsTyped, OwnLinks, Linking
  <2>4. OneLinks'
    BY <2>2 DEF AssetsInv, AssetsTyped, OneLinks, Linking
  <2>5. ReadyIsStable'
    BY DEF AssetsInv, AssetsTyped, ReadyIsStable, LinksMatch
  <2> QED
    BY <2>1, <2>3, <2>4, <2>5 DEF AssetsInv
<1>2. CASE LookForParent(c)
  <2> USE <1>2 DEF LookForParent, Move, Answer
  <2>0. todo[c] \in 1 .. Len(Assets) + 1 /\ Len(Assets) \in Nat
    BY Manifest DEF AssetsInv, AssetsTyped
  <2>1. made' \in [Calls -> [links : SUBSET Linked, dirs : SUBSET Directories]]
        /\ \A d \in Calls : made'[d].links = made[d].links
    <3>1. CASE todo[c] > Len(Assets)
      BY <3>1 DEF AssetsInv, AssetsTyped
    <3>2. CASE ~ todo[c] > Len(Assets)
      <4>1. DirOf[Assets[todo[c]]] \in Directories
        BY <2>0, <3>2, Manifest
      <4>2. PICK new \in SUBSET Directories : made' = [made EXCEPT ![c].dirs = @ \cup new]
        BY <3>2, <4>1
      <4> QED
        BY SMTT(40), <4>2 DEF AssetsInv, AssetsTyped
    <3> QED
      BY <3>1, <3>2
  <2>2. AssetsTyped'
    BY <2>1 DEF AssetsInv, AssetsTyped, Linking
  <2>3. \A d \in Calls :
          /\ at'[d] \in Linking => at[d] \in Linking
          /\ at'[d] \in {"off", "begin"} => at[d] \in {"off", "begin"}
          /\ at'[d] \in {"mkdir", "link", "undo"} => todo[d] <= Len(Assets)
    BY <2>0 DEF AssetsInv, AssetsTyped, OwnLinks, Linking
  <2>4. OwnLinks'
    BY <2>1, <2>3 DEF AssetsInv, OwnLinks
  <2>5. OneLinks'
    BY <2>3 DEF AssetsInv, OneLinks
  <2>6. ReadyIsStable'
    BY DEF AssetsInv, AssetsTyped, ReadyIsStable, LinksMatch
  <2> QED
    BY <2>2, <2>4, <2>5, <2>6 DEF AssetsInv
<1>3. CASE MakeParent(c) \/ LinkRaises(c)
  <2> USE <1>3 DEF MakeParent, LinkRaises, Move
  <2>1. AssetsTyped'
    BY DEF AssetsInv, AssetsTyped, Linking
  <2>2. OwnLinks'
    BY DEF AssetsInv, AssetsTyped, OwnLinks, Linking
  <2>3. OneLinks'
    BY ZenonT(40) DEF AssetsInv, AssetsTyped, OneLinks, Linking
  <2>4. ReadyIsStable'
    BY DEF AssetsInv, ReadyIsStable
  <2> QED
    BY <2>1, <2>2, <2>3, <2>4 DEF AssetsInv
<1>4. CASE LinkAsset(c)
  <2> USE <1>4 DEF LinkAsset, Move
  <2>1. /\ todo[c] \in 1 .. Len(Assets) /\ Len(Assets) \in Nat
        /\ at[c] \in Linking /\ made[c].links = First(todo[c])
        /\ todo[c] > 1 => links = First(todo[c])
    BY Manifest DEF AssetsInv, AssetsTyped, OwnLinks, OneLinks, Linking
  <2>2. /\ Assets[todo[c]] \in Linked /\ First(todo[c] + 1) = First(todo[c]) \cup {Assets[todo[c]]}
        /\ Assets[1] \in First(todo[c] + 1)
    BY <2>1, Manifest
  <2>3. todo[c] = 1 => links = {} /\ First(todo[c]) = {}
    BY Manifest DEF AssetsInv, OneLinks
  <2>4. links' = First(todo[c] + 1)
    BY <2>1, <2>2, <2>3
  <2>5. AssetsTyped'
    <3>1. made' \in [Calls -> [links : SUBSET Linked, dirs : SUBSET Directories]]
      BY ZenonT(40), <2>2 DEF AssetsInv, AssetsTyped
    <3>2. todo' \in [Calls -> 1 .. Len(Assets) + 1]
      <4>1. todo[c] + 1 \in 1 .. Len(Assets) + 1
        BY <2>1
      <4> QED
        BY <4>1 DEF AssetsInv, AssetsTyped
    <3> QED
      BY <2>2, <3>1, <3>2 DEF AssetsInv, AssetsTyped, Linking
  <2>6. \A d \in Calls \ {c} : at'[d] = at[d] /\ todo'[d] = todo[d] /\ made'[d] = made[d]
    BY DEF AssetsInv, AssetsTyped
  <2>7. /\ at'[c] = "look" /\ todo'[c] = todo[c] + 1
        /\ made'[c].links = First(todo[c] + 1)
    BY <2>1, <2>2 DEF AssetsInv, AssetsTyped
  <2>8. \A d \in Calls \ {c} : at[d] \in Linking => ~ todo[d] > 1
    <3> SUFFICES ASSUME NEW d \in Calls \ {c}, at[d] \in Linking, todo[d] > 1 PROVE FALSE
      OBVIOUS
    <3>1. links = First(todo[d]) /\ todo[d] \in 1 .. Len(Assets) + 1
      BY DEF AssetsInv, AssetsTyped, OneLinks
    <3>2. todo[d] - 1 \in 1 .. Len(Assets) /\ (todo[d] - 1) + 1 = todo[d]
      BY <2>1, <3>1
    <3>3. Assets[1] \in links
      BY <3>1, <3>2, Manifest
    <3>4. todo[c] > 1
      BY <2>1, <2>3, <3>3
    <3> QED
      BY <2>1, <3>4 DEF AssetsInv, OneLinks
  <2>9. OwnLinks'
    BY ZenonT(40), <2>6, <2>7 DEF AssetsInv, OwnLinks, Linking
  <2>10. OneLinks'
    BY <2>2, <2>4, <2>6, <2>7, <2>8 DEF OneLinks
  <2>11. ReadyIsStable'
    BY <2>2 DEF AssetsInv, ReadyIsStable
  <2> QED
    BY <2>5, <2>9, <2>10, <2>11 DEF AssetsInv
<1>5. CASE UndoLinks(c)
  <2> USE <1>5 DEF UndoLinks, Move
  <2>1. /\ todo[c] \in 1 .. Len(Assets) /\ made[c].links = First(todo[c])
        /\ todo[c] > 1 => links = First(todo[c])
    BY Manifest DEF AssetsInv, AssetsTyped, OwnLinks, OneLinks, Linking
  <2>2. CASE todo[c] = 1
    <3>1. links' = links
      BY <2>1, <2>2, Manifest
    <3>2. AssetsTyped'
      BY <3>1 DEF AssetsInv, AssetsTyped
    <3>3. OwnLinks' /\ OneLinks'
      BY <3>1 DEF AssetsInv, AssetsTyped, OwnLinks, OneLinks, Linking
    <3> QED
      BY <3>1, <3>2, <3>3 DEF AssetsInv, ReadyIsStable
  <2>3. CASE todo[c] # 1
    <3>1. links' = {} /\ todo[c] > 1
      BY <2>1, <2>3
    <3>2. links # Linked
      BY <2>1, <3>1, Manifest
    <3>3. AssetsTyped'
      BY <3>1 DEF AssetsInv, AssetsTyped
    <3>4. OwnLinks' /\ OneLinks'
      BY <3>1 DEF AssetsInv, AssetsTyped, OwnLinks, OneLinks, Linking
    <3> QED
      BY <3>2, <3>3, <3>4 DEF AssetsInv, ReadyIsStable
  <2> QED
    BY <2>2, <2>3
<1>6. CASE UndoDirs(c)
  <2> USE <1>6 DEF UndoDirs, Move, Answer
  <2>1. AssetsTyped'
    BY DEF AssetsInv, AssetsTyped, Linking
  <2>2. OwnLinks'
    BY DEF AssetsInv, AssetsTyped, OwnLinks, Linking
  <2>3. OneLinks'
    BY DEF AssetsInv, AssetsTyped, OneLinks, Linking
  <2>4. ReadyIsStable'
    BY DEF AssetsInv, AssetsTyped, ReadyIsStable
  <2> QED
    BY <2>1, <2>2, <2>3, <2>4 DEF AssetsInv
<1> QED
  BY <1>1, <1>2, <1>3, <1>4, <1>5, <1>6 DEF Materialize

-------------------------------------------------------------------------------
(* What is left in docker.  An object that docker confirmed, and whose removal *)
(* it did not refuse, is there only while the run still has its removal ahead. *)

Things == {"health", "seeder", "keeper"} \cup Volumes
Excused == excused \cup (IF excused \cap {"keeper", "seeder"} # {} THEN Volumes ELSE {})
WithKeeper == {"mount", "exec", "copy", "scan", "rmStarted", "rmKeeper"}
RemovalInv ==
  /\ objects \subseteq Things /\ late \subseteq Things /\ held \subseteq Volumes
  /\ objects \cap {"health", "seeder"} \subseteq excused
  /\ "keeper" \in objects \ excused => pc \in WithKeeper
  /\ "secret" \in objects \ Excused =>
       pc \in {"seed", "unseed"} \/ ("secret" \in held /\ pc \in WithKeeper \cup {"keeper", "rmSecret"})
  /\ "output" \in objects \ Excused =>
       "output" \in held /\ pc \in WithKeeper \cup {"secret", "seed", "unseed", "keeper", "rmSecret", "rmOutput"}

LEMMA RemovalInvInit == Init => RemovalInv
BY DEF Init, RemovalInv

LEMMA RemovalInvHost ==
  ASSUME RemovalInv, Host, ~ CleanUp
  PROVE  RemovalInv'
<1> USE DEF RemovalInv, Excused, WithKeeper, Things, Volumes, Then, Created, Slow
<1>1. CASE Begin \/ Health
  BY <1>1 DEF Begin, Health
<1>2. CASE CreateOutput
  BY <1>2 DEF CreateOutput
<1>3. CASE CreateSecret
  BY <1>3 DEF CreateSecret
<1>4. CASE Seed
  BY <1>4 DEF Seed
<1>5. CASE StartKeeper
  BY <1>5 DEF StartKeeper
<1>6. CASE VerifyMount \/ ExecEnds \/ ExecTimesOut \/ CopyOutput \/ Scan
  BY <1>6 DEF VerifyMount, ExecEnds, ExecTimesOut, CopyOutput, Scan
<1>7. CASE Publish
  BY <1>7 DEF Publish
<1> QED
  BY <1>1, <1>2, <1>3, <1>4, <1>5, <1>6, <1>7 DEF Host

LEMMA RemovalInvCleanUp ==
  ASSUME RemovalInv, CleanUp
  PROVE  RemovalInv'
<1> USE DEF RemovalInv, Excused, WithKeeper, Things, Volumes, Then, CleanUp, Removed, After, TryRemove, InUse
<1>1. held' = held /\ late' = late
  OBVIOUS
<1>2. CASE pc = "rmHealth"
  BY ZenonT(40), <1>1, <1>2
<1>3. CASE pc = "unseed"
  BY ZenonT(40), <1>1, <1>3
<1>4. CASE pc = "rmStarted"
  BY ZenonT(40), <1>1, <1>4
<1>5. CASE pc = "rmKeeper"
  BY ZenonT(40), <1>1, <1>5
<1>6. CASE pc = "rmSecret"
  BY ZenonT(40), <1>1, <1>6
<1>7. CASE pc = "rmOutput"
  <2>1. pc' \in {"failed", "publish"}
    BY <1>7
  <2>2. \/ UNCHANGED <<objects, excused>> /\ "output" \notin held
        \/ objects' = objects \ {"output"} /\ excused' = excused
        \/ objects' = objects /\ "keeper" \in objects /\ excused' = excused
        \/ objects' = objects /\ excused' = excused \cup {"output"}
    BY <1>7
  <2> QED
    BY <1>1, <1>7, <2>1, <2>2
<1> QED
  BY <1>2, <1>3, <1>4, <1>5, <1>6, <1>7

LEMMA RemovalInvLate ==
  ASSUME RemovalInv, LateCreation
  PROVE  RemovalInv'
BY DEF RemovalInv, Excused, Things, Volumes, LateCreation, WithKeeper

LEMMA RemovalInvOther ==
  ASSUME RemovalInv,
         \/ WorkerStep \/ WorkerKilled \/ KeeperDies \/ ReplaceSource \/ UNCHANGED vars
         \/ \E c \in Calls : AssetStep(c) \/ Probe(c)
  PROVE  RemovalInv'
<1>1. UNCHANGED <<pc, held, objects, late, excused>>
  BY DEF WorkerStep, WorkerKilled, KeeperDies, ReplaceSource, AssetStep, Probe, hostVars, vars
<1> QED
  BY <1>1 DEF RemovalInv, Excused

-------------------------------------------------------------------------------
(* When the worker and its readiness call begin. *)

Stages == {"off", "start", "readiness", "assets", "validate", "translate", "collect", "report", "result", "announce",
           "exit", "stopped"}
Before == {"begin", "health", "rmHealth", "output", "secret", "seed", "unseed", "keeper", "mount"}
StartInv ==
  /\ wpc \in Stages
  /\ pc \in Before => wpc = "off"
  /\ wpc \in {"off", "start", "readiness"} => at[RunCall] = "off"

\* All that happens to a worker beside its own steps: it is begun once, or ends.
Begun == pc = "mount" /\ wpc' = "start" /\ pc' = "exec" /\ UNCHANGED <<job, wexit, lines, volume, assetVars>>
LeftOrKilled ==
  /\ UNCHANGED <<job, lines, volume, assetVars>>
  /\ \/ UNCHANGED <<wpc, wexit>>
     \/ Working /\ wpc' = "stopped" /\ wexit' = "killed"
LEMMA WorkerBesideItsSteps ==
  Host \/ LateCreation \/ WorkerKilled \/ KeeperDies \/ ReplaceSource => Begun \/ LeftOrKilled
<1>1. VerifyMount => Begun \/ LeftOrKilled
  BY DEF VerifyMount, Begun, LeftOrKilled, Then
<1>2. CleanUp => LeftOrKilled
  BY DEF CleanUp, KillKeeper, LeftOrKilled
<1>3. Begin \/ Health \/ CreateOutput \/ CreateSecret \/ Seed \/ StartKeeper \/ ExecEnds \/ ExecTimesOut
        \/ CopyOutput \/ Scan \/ Publish => LeftOrKilled
  BY DEF Begin, Health, CreateOutput, CreateSecret, Seed, StartKeeper, ExecEnds, ExecTimesOut,
     CopyOutput, Scan,
         Publish, Rest, workerVars, LeftOrKilled
<1>4. LateCreation \/ WorkerKilled \/ KeeperDies \/ ReplaceSource => LeftOrKilled
  BY DEF LateCreation, WorkerKilled, KeeperDies, ReplaceSource, Rest, workerVars, LeftOrKilled
<1> QED
  BY <1>1, <1>2, <1>3, <1>4 DEF Host

\* Nothing returns to where a worker has not begun.
LEMMA NeverBack ==
  ASSUME Next, pc' \in Before
  PROVE  pc \in Before /\ ~ Begun
<1> USE DEF Before
<1>1. CASE Host /\ ~ CleanUp
  BY <1>1 DEF Host, Begin, Health, CreateOutput, CreateSecret, Seed, StartKeeper, VerifyMount,
     ExecEnds, ExecTimesOut,
              CopyOutput, Scan, Publish, Then, Begun
<1>2. CASE CleanUp
  <2>1. pc' \in {"failed", "publish", "rmKeeper", "rmSecret", "rmOutput"}
    BY <1>2 DEF CleanUp, Removed, After, Then
  <2> QED
    BY <2>1
<1>3. CASE pc' = pc
  BY <1>3 DEF Begun
<1>4. Host \/ pc' = pc
  BY DEF Next, WorkerStep, LateCreation, WorkerKilled, KeeperDies, ReplaceSource, AssetStep, Probe,
     hostVars
<1> QED
  BY <1>1, <1>2, <1>3, <1>4

LEMMA StartAndAssets ==
  ASSUME StartInv, AssetsInv, [Next]_vars
  PROVE  StartInv' /\ AssetsInv'
<1>0. RunCall \in Calls
  BY AssetAssumption
<1>1. CASE UNCHANGED <<wpc, pc, assetVars>>
  BY <1>1 DEF StartInv, AssetsInv, assetVars, AssetsTyped, OwnLinks, OneLinks, ReadyIsStable
<1>2. CASE Next /\ UNCHANGED assetVars /\ (Begun \/ LeftOrKilled)
  <2>1. AssetsInv' /\ at' = at
    BY <1>2 DEF AssetsInv, assetVars, AssetsTyped, OwnLinks, OneLinks, ReadyIsStable
  <2>2. wpc' \in Stages
    BY <1>2 DEF StartInv, Begun, LeftOrKilled, Stages
  <2>3. pc' \in Before => wpc' = "off"
    BY <1>2, NeverBack DEF StartInv, LeftOrKilled, Working, Begun
  <2>4. wpc' \in {"off", "start", "readiness"} => at'[RunCall] = "off"
    BY <1>2, <2>1 DEF StartInv, Begun, LeftOrKilled, Before
  <2> QED
    BY <2>1, <2>2, <2>3, <2>4 DEF StartInv
<1>3. ASSUME NEW c \in Calls, AssetStep(c) PROVE StartInv' /\ AssetsInv'
  <2>1. AssetsInv'
    BY <1>3, AssetsInvStep DEF AssetStep
  <2>2. at[RunCall] = "off" => at'[RunCall] = "off"
    BY <1>0, <1>3 DEF AssetStep, Materialize, FindCache, LookForParent, MakeParent, LinkAsset,
       LinkRaises, UndoLinks,
                      UndoDirs, Move, Answer, AssetsInv, AssetsTyped
  <2> QED
    BY <1>3, <2>1, <2>2 DEF AssetStep, StartInv, workerVars, hostVars
<1>4. ASSUME NEW c \in Calls, Probe(c) PROVE StartInv' /\ AssetsInv'
  BY <1>0, <1>4 DEF Probe, Move, StartInv, workerVars, hostVars, AssetsInv, AssetsTyped, OwnLinks,
     OneLinks,
                    ReadyIsStable, Linking
<1>5. ASSUME WorkerStep PROVE StartInv' /\ AssetsInv'
  <2>1. pc' = pc /\ wpc \in Stages \ {"off", "stopped"} /\ wpc' \in Stages \ {"off", "start"}
    BY <1>5 DEF WorkerStep, Work, Start, CheckReadiness, ImportEngine, ValidateInput, Progress,
       EngineFinishes, EngineFails,
                Collect, Report, WriteResult, Announce, Exit, Raise, Stop, Continue, Stages, hostVars
  <2>2. CASE CheckReadiness
    <3>1. at[RunCall] = "off"
      BY <2>2 DEF CheckReadiness, StartInv
    <3>2. at' \in {at, [at EXCEPT ![RunCall] = "begin"]} /\ UNCHANGED <<links, dirs, cacheDb, todo, made, answer, full>>
      BY <2>2 DEF CheckReadiness
    <3>3. AssetsInv'
      BY <1>0, <3>1, <3>2 DEF AssetsInv, AssetsTyped, OwnLinks, OneLinks, ReadyIsStable, Linking
    <3>4. wpc' \in {"assets", "stopped"}
      BY <2>2 DEF CheckReadiness, Continue, Raise, Stop
    <3> QED
      BY <2>1, <3>3, <3>4 DEF StartInv, Stages
  <2>3. CASE ~ CheckReadiness
    <3>1. UNCHANGED <<links, at, todo, made, answer>>
      BY <1>5, <2>3 DEF WorkerStep, Work, Start, ImportEngine, ValidateInput, Progress,
         EngineFinishes, EngineFails, Collect,
                  Report, WriteResult, Announce, Exit, assetVars
    <3>2. wpc' = "readiness" => wpc = "start"
      BY <1>5, <2>3 DEF WorkerStep, Work, Start, ImportEngine, ValidateInput, Progress,
         EngineFinishes, EngineFails, Collect,
                  Report, WriteResult, Announce, Exit, Raise, Stop, Continue
    <3> QED
      BY <2>1, <3>1, <3>2 DEF StartInv, AssetsInv, AssetsTyped, OwnLinks, OneLinks, ReadyIsStable
  <2> QED
    BY <2>2, <2>3
<1>6. CASE Host \/ LateCreation \/ WorkerKilled \/ KeeperDies \/ ReplaceSource
  BY <1>2, <1>6, WorkerBesideItsSteps DEF Next, Begun, LeftOrKilled
<1> QED
  BY <1>1, <1>3, <1>4, <1>5, <1>6 DEF Next, vars, workerVars, hostVars

-------------------------------------------------------------------------------
(* The worker's volume.  What it keeps was made by the engine and looked at; a *)
(* report is there once everything asked for is kept and the rest is gone.     *)

Strange == {"foreign", "notpdf"}
Unbegun == {"off", "start", "readiness", "assets", "validate", "translate"}
VolumeInv ==
  /\ DOMAIN volume = {"engine", "kept", "report", "document"}
  /\ wpc \in Unbegun => volume = EmptyVolume
  /\ \A r \in DOMAIN volume.engine : volume.engine[r] \in Engine
  /\ \A r \in DOMAIN volume.kept : volume.kept[r] \in Engine /\ volume.kept[r].kind \notin Strange
  /\ wpc = "collect" =>
       /\ DOMAIN volume.kept \subseteq job.request.outputs
       /\ \A r \in DOMAIN volume.kept : r \in DOMAIN volume.engine /\ volume.kept[r] = volume.engine[r]
  /\ wpc \in {"report", "result", "announce"} => DOMAIN volume.kept = job.request.outputs
  /\ wpc \in {"result", "announce"} =>
       /\ volume.report /\ volume.engine = <<>>
       /\ BytesOf(volume.kept) + ReportBytes <= job.request.maxBytes
  /\ wpc = "announce" => volume.document
  /\ wpc \notin {"off", "start", "stopped"} => WorkerAccepts(job.request)
  /\ wpc \notin {"off", "start", "readiness", "stopped"} \/ wexit = "ok" => ProviderOk(job.secret)

LEMMA Orders ==
  ASSUME NEW roles \in SUBSET PdfRoles
  PROVE  \/ roles = {} /\ RoleOrder(roles) = <<>>
         \/ roles = {"mono"} /\ RoleOrder(roles) = <<"mono">>
         \/ roles = {"dual"} /\ RoleOrder(roles) = <<"dual">>
         \/ roles = PdfRoles /\ RoleOrder(roles) = <<"mono", "dual">>
<1>1. roles \in {{}, {"mono"}, {"dual"}, PdfRoles}
  BY DEF PdfRoles
<1>2. "mono" # "dual"
  OBVIOUS
<1>3. CASE roles = {}
  BY <1>3 DEF RoleOrder
<1>4. CASE roles = {"mono"}
  <2>1. RoleOrder(roles) = <<"mono">> \o <<>>
    BY <1>2, <1>4 DEF RoleOrder
  <2>2. <<"mono">> \o <<>> = <<"mono">>
    OBVIOUS
  <2> QED
    BY <1>4, <2>1, <2>2
<1>5. CASE roles = {"dual"}
  <2>1. RoleOrder(roles) = <<>> \o <<"dual">>
    BY <1>2, <1>5 DEF RoleOrder
  <2>2. <<>> \o <<"dual">> = <<"dual">>
    OBVIOUS
  <2> QED
    BY <1>5, <2>1, <2>2
<1>6. CASE roles = PdfRoles
  <2>1. RoleOrder(roles) = <<"mono">> \o <<"dual">>
    BY <1>6 DEF RoleOrder, PdfRoles
  <2>2. <<"mono">> \o <<"dual">> = <<"mono", "dual">>
    <3> DEFINE m == <<"mono">>  d == <<"dual">>  both == <<"mono", "dual">>
    <3>1. m \in Seq(PdfRoles) /\ d \in Seq(PdfRoles) /\ both \in Seq(PdfRoles)
      BY DEF PdfRoles
    <3>2. Len(m) = 1 /\ Len(d) = 1 /\ Len(both) = 2
          /\ m[1] = "mono" /\ d[1] = "dual" /\ both[1] = "mono" /\ both[2] = "dual"
      OBVIOUS
    <3> HIDE DEF m, d, both
    <3>3. m \o d \in Seq(PdfRoles) /\ Len(m \o d) = 1 + 1
          /\ \A i \in 1 .. 1 + 1 : (m \o d)[i] = IF i <= 1 THEN m[i] ELSE d[i - 1]
      BY <3>1, <3>2, ConcatProperties
    <3>4. \A i \in 1 .. Len(m \o d) : (m \o d)[i] = both[i]
      BY <3>2, <3>3
    <3>5. m \o d = both
      BY <3>1, <3>2, <3>3, <3>4, SeqEqual
    <3> QED
      BY <3>5 DEF m, d, both
  <2> QED
    BY <1>6, <2>1, <2>2
<1> QED
  BY <1>1, <1>3, <1>4, <1>5, <1>6

LEMMA VolumeInvBeside ==
  ASSUME VolumeInv, StartInv, Begun \/ LeftOrKilled \/ UNCHANGED <<job, workerVars>>
  PROVE  VolumeInv'
BY DEF VolumeInv, StartInv, Begun, LeftOrKilled, Before, Unbegun, Working, workerVars

LEMMA VolumeInvWork ==
  ASSUME VolumeInv, Work, UNCHANGED job
  PROVE  VolumeInv'
<1> USE DEF Stop, Continue, Unbegun
<1>0. <<>> = [r \in {} |-> 0]
  OBVIOUS
<1>1. CASE Start
  BY <1>1 DEF Start, VolumeInv
<1>2. CASE CheckReadiness
  <2>1. wpc' = "assets" => ProviderOk(job.secret)
    BY <1>2 DEF CheckReadiness, FailedChecks, Raise
  <2> QED
    BY <1>0, <1>2, <2>1 DEF CheckReadiness, Raise, VolumeInv, EmptyVolume
<1>3. CASE ImportEngine \/ ValidateInput \/ Progress \/ EngineFails
  BY <1>0, <1>3 DEF ImportEngine, ValidateInput, Progress, EngineFails, Raise, VolumeInv,
     EmptyVolume
<1>4. CASE EngineFinishes
  <2>1. PICK roles \in SUBSET job.request.outputs :
          \E files \in [roles -> Engine] : volume' = [volume EXCEPT !.engine = files]
    BY <1>4 DEF EngineFinishes
  <2>4. PICK files \in [roles -> Engine] : volume' = [volume EXCEPT !.engine = files]
    BY <2>1
  <2>2. volume = EmptyVolume /\ WorkerAccepts(job.request) /\ ProviderOk(job.secret)
    BY <1>4 DEF EngineFinishes, VolumeInv
  <2>3. volume'.engine = files /\ volume'.kept = <<>> /\ DOMAIN volume' = DOMAIN volume
    BY <2>2, <2>4 DEF EmptyVolume
  <2> QED
    BY <1>0, <1>4, <2>2, <2>3 DEF EngineFinishes, VolumeInv
<1>5. CASE Collect
  <2> DEFINE rest == job.request.outputs \ DOMAIN volume.kept
  <2>1. wpc = "collect" /\ job.request.outputs \subseteq PdfRoles
    BY <1>5 DEF Collect, VolumeInv, WorkerAccepts
  <2>2. CASE RoleOrder(rest) = <<>>
    <3>1. rest = {} /\ volume' = volume /\ wpc' = "report" /\ wexit' = wexit
      BY <1>5, <2>1, <2>2, Orders DEF Collect
    <3> QED
      BY <2>1, <3>1 DEF VolumeInv
  <2>3. CASE RoleOrder(rest) # <<>> /\ CopyIsGood(Head(RoleOrder(rest)))
    <3> DEFINE role == Head(RoleOrder(rest))
    <3>1. role \in rest
      BY <2>1, <2>3, Orders DEF PdfRoles
    <3>2. volume' = [volume EXCEPT !.kept = [r \in DOMAIN @ \cup {role} |-> volume.engine[r]]]
          /\ wpc' = "collect" /\ wexit' = wexit
      BY <1>5, <2>1, <2>3 DEF Collect
    <3>3. role \in DOMAIN volume.engine /\ volume.engine[role].kind \notin Strange
      BY <2>3 DEF CopyIsGood, Strange
    <3> HIDE DEF role
    <3>4. volume'.kept = [r \in DOMAIN volume.kept \cup {role} |-> volume.engine[r]] /\ volume'.engine = volume.engine
          /\ DOMAIN volume' = DOMAIN volume
      BY <3>2 DEF VolumeInv
    <3> QED
      BY <2>1, <3>1, <3>2, <3>3, <3>4 DEF VolumeInv
  <2>4. CASE RoleOrder(rest) # <<>> /\ ~ CopyIsGood(Head(RoleOrder(rest)))
    <3>1. Raise
      BY <1>5, <2>4 DEF Collect
    <3> QED
      BY <1>0, <3>1 DEF Raise, VolumeInv
  <2> QED
    BY <2>2, <2>3, <2>4
<1>6. CASE Report
  BY ZenonT(40), <1>0, <1>6 DEF Report, Raise, VolumeInv
<1>7. CASE WriteResult
  BY <1>0, <1>7 DEF WriteResult, Raise, VolumeInv
<1>8. CASE Announce \/ Exit
  BY <1>8 DEF Announce, Exit, VolumeInv
<1> QED
  BY <1>1, <1>2, <1>3, <1>4, <1>5, <1>6, <1>7, <1>8 DEF Work

-------------------------------------------------------------------------------
(* What the worker says.  The artifacts are announced one after the other as   *)
(* the result document has them, and "completed" is said after the last.       *)

Sequence(s) == s \in Seq(ToSet(s))
Announced ==
  \E base \in 0 .. Len(lines) :
    /\ ArtifactLines(lines) = base + 1 .. Len(lines)
    /\ Len(lines) - base <= Len(WorkerResult.artifacts)
    /\ \A k \in 1 .. Len(lines) - base :
         /\ lines[base + k].role = WorkerResult.artifacts[k].role
         /\ lines[base + k].digest = WorkerResult.artifacts[k].digest
LinesInv ==
  /\ Sequence(lines)
  /\ wpc \notin {"exit", "stopped"} => \A i \in DOMAIN lines : lines[i].type # "completed"
  /\ wpc \notin {"announce", "exit", "stopped"} => ArtifactLines(lines) = {}
  /\ wpc = "announce" => Announced
  /\ CompletedIsWhole

LEMMA Sequences ==
  ASSUME NEW s, Sequence(s)
  PROVE  Len(s) \in Nat /\ DOMAIN s = 1 .. Len(s)
BY LenProperties DEF Sequence

LEMMA Joined ==
  ASSUME NEW s, Sequence(s), NEW n \in Nat, NEW t, DOMAIN t = 1 .. n, t = [i \in 1 .. n |-> t[i]]
  PROVE  /\ Sequence(s \o t) /\ Len(s \o t) = Len(s) + n
         /\ \A i \in 1 .. Len(s) + n : (s \o t)[i] = IF i <= Len(s) THEN s[i] ELSE t[i - Len(s)]
<1> DEFINE S == ToSet(s) \cup {t[i] : i \in 1 .. n}
<1>1. s \in Seq(S)
  BY SeqMonotonic DEF Sequence
<1>2. t \in Seq(S) /\ Len(t) = n
  <2>1. t \in [1 .. n -> S]
    OBVIOUS
  <2> QED
    BY <2>1
<1>3. /\ s \o t \in Seq(S) /\ Len(s \o t) = Len(s) + n
      /\ \A i \in 1 .. Len(s) + n : (s \o t)[i] = IF i <= Len(s) THEN s[i] ELSE t[i - Len(s)]
  BY <1>1, <1>2, ConcatProperties
<1>4. Sequence(s \o t)
  <2> DEFINE u == s \o t
  <2>1. u \in [1 .. Len(u) -> S] /\ Len(u) \in Nat
    BY <1>3, LenProperties
  <2> HIDE DEF u
  <2>2. u \in [1 .. Len(u) -> ToSet(u)]
    BY <2>1 DEF ToSet
  <2>3. u \in Seq(ToSet(u))
    BY <2>1, <2>2
  <2> QED
    BY <2>3 DEF Sequence, u
<1> QED
  BY <1>3, <1>4

LEMMA Appended ==
  ASSUME NEW s, Sequence(s), NEW e
  PROVE  /\ Sequence(Append(s, e)) /\ Len(Append(s, e)) = Len(s) + 1
         /\ \A i \in 1 .. Len(s) + 1 : Append(s, e)[i] = IF i <= Len(s) THEN s[i] ELSE e
<1> DEFINE u == Append(s, e)  S == ToSet(s) \cup {e}
<1>1. s \in Seq(S) /\ e \in S
  BY SeqMonotonic DEF Sequence
<1>2. u \in Seq(S) /\ Len(u) = Len(s) + 1 /\ Len(s) \in Nat
      /\ \A i \in 1 .. Len(s) + 1 : u[i] = IF i <= Len(s) THEN s[i] ELSE e
  BY <1>1
<1>3. u \in [1 .. Len(u) -> S]
  BY <1>2, LenProperties
<1> HIDE DEF u
<1>4. u \in [1 .. Len(u) -> ToSet(u)]
  BY <1>3 DEF ToSet
<1>5. u \in Seq(ToSet(u))
  BY <1>2, <1>4
<1> QED
  BY <1>2, <1>5 DEF Sequence, u

\* Emitted adds one line for each type and keeps the earlier ones.
LEMMA Lines ==
  ASSUME NEW said, Sequence(said), NEW types, Sequence(types)
  PROVE  /\ Sequence(Emitted(said, types)) /\ Len(Emitted(said, types)) = Len(said) + Len(types)
         /\ Len(said) \in Nat /\ Len(types) \in Nat
         /\ \A i \in 1 .. Len(said) + Len(types) :
              /\ i <= Len(said) => Emitted(said, types)[i] = said[i]
              /\ i > Len(said) => Emitted(said, types)[i].type = types[i - Len(said)]
<1> DEFINE t == [i \in DOMAIN types |-> Line(Len(said) + i, types[i], "none", "none")]
<1>1. Len(types) \in Nat /\ DOMAIN types = 1 .. Len(types) /\ Len(said) \in Nat
  BY Sequences
<1>2. DOMAIN t = 1 .. Len(types) /\ t = [i \in 1 .. Len(types) |-> t[i]]
  BY <1>1
<1>3. \A i \in 1 .. Len(types) : t[i].type = types[i]
  BY <1>1 DEF Line
<1>4. Emitted(said, types) = said \o t
  BY DEF Emitted
<1> HIDE DEF t
<1>5. /\ Sequence(said \o t) /\ Len(said \o t) = Len(said) + Len(types)
      /\ \A i \in 1 .. Len(said) + Len(types) : (said \o t)[i] = IF i <= Len(said) THEN said[i] ELSE t[i - Len(said)]
  BY <1>1, <1>2, Joined
<1> QED
  BY <1>1, <1>3, <1>4, <1>5

LEMMA OneOrTwo ==
  ASSUME NEW s, NEW S, \/ \E x : s = <<x>> /\ S = {x}
                       \/ \E x, y : x # y /\ s = <<x, y>> /\ S = {x, y}
  PROVE  /\ Len(s) \in Nat /\ DOMAIN s = 1 .. Len(s) /\ s \in Seq(S)
         /\ \A i, j \in 1 .. Len(s) : s[i] = s[j] => i = j
         /\ S = {s[i] : i \in 1 .. Len(s)}
<1>1. ASSUME NEW x, s = <<x>>, S = {x}
      PROVE  /\ Len(s) = 1 /\ DOMAIN s = 1 .. 1 /\ s \in Seq(S) /\ s[1] = x
  BY <1>1
<1>2. ASSUME NEW x, NEW y, s = <<x, y>>, S = {x, y}
      PROVE  /\ Len(s) = 2 /\ DOMAIN s = 1 .. 2 /\ s \in Seq(S) /\ s[1] = x /\ s[2] = y
  BY <1>2
<1>3. CASE \E x : s = <<x>> /\ S = {x}
  BY <1>1, <1>3
<1>4. CASE \E x, y : x # y /\ s = <<x, y>> /\ S = {x, y}
  <2>1. PICK x, y : x # y /\ s = <<x, y>> /\ S = {x, y}
    BY <1>4
  <2>2. Len(s) = 2 /\ DOMAIN s = 1 .. 2 /\ s \in Seq(S) /\ s[1] = x /\ s[2] = y
    BY <1>2, <2>1
  <2> QED
    BY <2>1, <2>2
<1> QED
  BY <1>3, <1>4

\* The result document declares each PDF that was asked for, and the report, once.
LEMMA Declarations ==
  ASSUME WorkerAccepts(job.request)
  PROVE  LET a == WorkerResult.artifacts IN
         /\ Len(a) \in Nat /\ DOMAIN a = 1 .. Len(a)
         /\ \A k, l \in 1 .. Len(a) : a[k].role = a[l].role => k = l
         /\ DeclaredRoles(WorkerResult) = job.request.outputs \cup {"report"}
         /\ \A k \in 1 .. Len(a) : Declared(WorkerResult, a[k].role) = a[k]
<1> DEFINE a == WorkerResult.artifacts
           roles == job.request.outputs
           order == RoleOrder(roles)
           pdfs == [i \in DOMAIN order |->
                      [role |-> order[i], digest |-> OutputFile(volume.kept[order[i]],
                      order[i]).digest,
                       bytes |-> OutputFile(volume.kept[order[i]], order[i]).bytes]]
           report == [role |-> "report", digest |-> ReportFile.digest, bytes |-> ReportFile.bytes]
<1>1. roles \in SUBSET PdfRoles /\ roles # {}
  BY DEF WorkerAccepts
<1>2. /\ Len(order) \in Nat /\ DOMAIN order = 1 .. Len(order) /\ order \in Seq(roles)
      /\ \A i, j \in 1 .. Len(order) : order[i] = order[j] => i = j
      /\ roles = {order[i] : i \in 1 .. Len(order)}
  <2>1. \/ roles = {"mono"} /\ order = <<"mono">>
        \/ roles = {"dual"} /\ order = <<"dual">>
        \/ roles = {"mono", "dual"} /\ order = <<"mono", "dual">>
    BY <1>1, Orders DEF PdfRoles
  <2> HIDE DEF order, roles
  <2>2. \/ \E x : order = <<x>> /\ roles = {x}
        \/ \E x, y : x # y /\ order = <<x, y>> /\ roles = {x, y}
    BY SMTT(40), <2>1
  <2> QED
    BY <2>2, OneOrTwo
<1>3. a = Append(pdfs, report)
  BY DEF WorkerResult
<1>4. WorkerResult.artifacts = a
  OBVIOUS
<1> HIDE DEF order, a
<1>5. Sequence(pdfs) /\ Len(pdfs) = Len(order) /\ DOMAIN pdfs = 1 .. Len(order)
      /\ \A i \in 1 .. Len(order) : pdfs[i].role = order[i]
  <2>1. pdfs \in [1 .. Len(order) -> ToSet(pdfs)] /\ DOMAIN pdfs = 1 .. Len(order)
    BY <1>2 DEF ToSet
  <2>2. \A i \in 1 .. Len(order) : pdfs[i].role = order[i]
    BY <1>2
  <2> HIDE DEF pdfs
  <2>3. pdfs \in Seq(ToSet(pdfs)) /\ Len(pdfs) = Len(order)
    BY <1>2, <2>1
  <2> QED
    BY <2>1, <2>2, <2>3 DEF Sequence
<1>6. report.role = "report" /\ "report" \notin roles
  BY <1>1 DEF PdfRoles
<1> HIDE DEF pdfs, report, roles
<1>7. /\ Sequence(a) /\ Len(a) = Len(order) + 1
      /\ \A i \in 1 .. Len(order) + 1 : a[i] = IF i <= Len(order) THEN pdfs[i] ELSE report
  BY <1>3, <1>5, Appended
<1>8. Len(a) \in Nat /\ DOMAIN a = 1 .. Len(a)
  BY <1>7, Sequences
<1>9. \A i \in 1 .. Len(a) :
        /\ i \in 1 .. Len(order) => a[i].role = order[i] /\ a[i].role \in roles
        /\ i \notin 1 .. Len(order) => i = Len(a) /\ a[i].role = "report"
  BY <1>2, <1>5, <1>6, <1>7
<1>10. \A k, l \in 1 .. Len(a) : a[k].role = a[l].role => k = l
  BY <1>2, <1>6, <1>9
<1>11. DeclaredRoles(WorkerResult) = {a[i].role : i \in 1 .. Len(a)}
  BY <1>4, <1>8 DEF DeclaredRoles
<1>12. DeclaredRoles(WorkerResult) = roles \cup {"report"}
  <2>1. \A i \in 1 .. Len(order) : i \in 1 .. Len(a)
    BY <1>2, <1>7
  <2>2. Len(a) \in 1 .. Len(a) /\ Len(a) \notin 1 .. Len(order)
    BY <1>2, <1>7
  <2> QED
    BY <1>2, <1>9, <1>11, <2>1, <2>2
<1>13. ASSUME NEW k \in 1 .. Len(a)
       PROVE  Declared(WorkerResult, a[k].role) = a[k]
  <2>1. Declared(WorkerResult, a[k].role) = a[CHOOSE l \in 1 .. Len(a) : a[l].role = a[k].role]
    BY <1>4, <1>8 DEF Declared
  <2>2. (CHOOSE l \in 1 .. Len(a) : a[l].role = a[k].role) = k
    BY <1>10
  <2> QED
    BY <2>1, <2>2
<1> QED
  BY <1>4, <1>8, <1>10, <1>12, <1>13 DEF roles

LEMMA IntervalCount ==
  ASSUME NEW n \in Nat, NEW b \in 0 .. n
  PROVE  IsFiniteSet(b + 1 .. n) /\ Cardinality(b + 1 .. n) = n - b
<1>1. b + 1 \in Int /\ n \in Int
  OBVIOUS
<1>2. IsFiniteSet(b + 1 .. n) /\ Cardinality(b + 1 .. n) = IF b + 1 > n THEN 0 ELSE n - (b + 1) + 1
  BY <1>1, FS_Interval
<1> QED
  BY <1>2

\* Once all is announced, the events say what the result document says.
LEMMA AllAnnounced ==
  ASSUME WorkerAccepts(job.request), Sequence(lines), Announced,
         ~ Cardinality(ArtifactLines(lines)) < Len(WorkerResult.artifacts)
  PROVE  EventsMatchResult(lines, WorkerResult)
<1> DEFINE a == WorkerResult.artifacts
           said == ArtifactLines(lines)
           roles == {lines[i].role : i \in said}
<1>1. PICK base \in 0 .. Len(lines) :
        /\ said = base + 1 .. Len(lines)
        /\ Len(lines) - base <= Len(a)
        /\ \A k \in 1 .. Len(lines) - base :
             lines[base + k].role = a[k].role /\ lines[base + k].digest = a[k].digest
  BY DEF Announced
<1>2. /\ Len(a) \in Nat /\ DOMAIN a = 1 .. Len(a)
      /\ \A k, l \in 1 .. Len(a) : a[k].role = a[l].role => k = l
      /\ DeclaredRoles(WorkerResult) = {a[i].role : i \in 1 .. Len(a)}
      /\ \A k \in 1 .. Len(a) : Declared(WorkerResult, a[k].role) = a[k]
  BY Declarations DEF DeclaredRoles
<1>3. Len(lines) \in Nat
  BY Sequences
<1>4. ~ Cardinality(said) < Len(a)
  OBVIOUS
<1> HIDE DEF a, said
<1>5. IsFiniteSet(said) /\ Cardinality(said) = Len(lines) - base
  BY <1>1, <1>3, IntervalCount
<1>6. Len(lines) - base = Len(a)
  BY <1>1, <1>2, <1>3, <1>4, <1>5
<1>7. \A i \in said : /\ i - base \in 1 .. Len(a) /\ lines[i].role = a[i - base].role
                      /\ lines[i].digest = a[i - base].digest
  <2> SUFFICES ASSUME NEW i \in said
               PROVE  /\ i - base \in 1 .. Len(a) /\ lines[i].role = a[i - base].role
                      /\ lines[i].digest = a[i - base].digest
    OBVIOUS
  <2>1. i - base \in 1 .. Len(lines) - base /\ base + (i - base) = i
    BY <1>1, <1>3
  <2> QED
    BY <1>1, <1>6, <2>1
<1>8. \A k \in 1 .. Len(a) : base + k \in said /\ lines[base + k].role = a[k].role
  BY <1>1, <1>3, <1>6
<1>9. roles = {a[i].role : i \in 1 .. Len(a)}
  BY SMTT(40), <1>7, <1>8
<1>10. Cardinality(roles) = Cardinality(said)
  <2> DEFINE f == [i \in said |-> lines[i].role]
  <2>1. f \in [said -> roles]
    OBVIOUS
  <2>2. \A i, j \in said : f[i] = f[j] => i = j
    <3> SUFFICES ASSUME NEW i \in said, NEW j \in said, f[i] = f[j] PROVE i = j
      OBVIOUS
    <3>1. i - base = j - base
      BY SMTT(40), <1>2, <1>7
    <3> QED
      BY <1>1, <1>3, <3>1
  <2>3. \A r \in roles : \E i \in said : f[i] = r
    OBVIOUS
  <2>4. ExistsBijection(said, roles)
    BY <2>1, <2>2, <2>3 DEF ExistsBijection, Bijection, Injection, Surjection, IsInjective
  <2> QED
    BY <1>5, <2>4, FS_Bijection
<1>11. \A i \in said : lines[i].digest = Declared(WorkerResult, lines[i].role).digest
  BY <1>2, <1>7
<1> QED
  BY <1>2, <1>9, <1>10, <1>11 DEF EventsMatchResult, said

Silent(s) == Sequence(s) /\ \A i \in DOMAIN s : s[i].type \notin {"artifact", "completed"}

LEMMA SilentLines ==
  ASSUME NEW said, Silent(said), NEW types, Sequence(types), \A i \in DOMAIN types : types[i] \notin {"artifact", "completed"}
  PROVE  Silent(Emitted(said, types))
<1>1. /\ Sequence(Emitted(said, types)) /\ Len(Emitted(said, types)) = Len(said) + Len(types)
      /\ Len(said) \in Nat /\ Len(types) \in Nat
      /\ \A i \in 1 .. Len(said) + Len(types) :
           /\ i <= Len(said) => Emitted(said, types)[i] = said[i]
           /\ i > Len(said) => Emitted(said, types)[i].type = types[i - Len(said)]
  BY Lines DEF Silent
<1>2. DOMAIN said = 1 .. Len(said) /\ DOMAIN types = 1 .. Len(types)
  BY Sequences DEF Silent
<1> DEFINE e == Emitted(said, types)
<1> HIDE DEF e
<1>3. DOMAIN e = 1 .. Len(said) + Len(types)
  BY <1>1, Sequences DEF e
<1>4. ASSUME NEW i \in DOMAIN e PROVE e[i].type \notin {"artifact", "completed"}
  <2>1. CASE i <= Len(said)
    BY <1>1, <1>2, <1>3, <2>1 DEF Silent, e
  <2>2. CASE i > Len(said)
    <3>1. i - Len(said) \in 1 .. Len(types) /\ e[i].type = types[i - Len(said)]
      BY <1>1, <1>3, <2>2 DEF e
    <3> QED
      BY <1>2, <3>1
  <2> QED
    BY <1>1, <1>3, <2>1, <2>2
<1> QED
  BY <1>1, <1>4 DEF Silent, e

LEMMA ShortTypes ==
  /\ Sequence(<<>>) /\ Silent(<<>>)
  /\ \A x : Sequence(<<x>>) /\ Len(<<x>>) = 1 /\ DOMAIN <<x>> = 1 .. 1 /\ <<x>>[1] = x
  /\ \A x, y : Sequence(<<x, y>>) /\ Len(<<x, y>>) = 2 /\ DOMAIN <<x, y>> = 1 .. 2
               /\ <<x, y>>[1] = x /\ <<x, y>>[2] = y
BY DEF Sequence, Silent, ToSet

LEMMA NothingToClaim ==
  Sequence(lines) /\ (\A i \in DOMAIN lines : lines[i].type # "completed") => CompletedIsWhole
<1> SUFFICES ASSUME Sequence(lines), \A i \in DOMAIN lines : lines[i].type # "completed"
             PROVE  CompletedIsWhole
  OBVIOUS
<1>1. Len(lines) \in Nat /\ DOMAIN lines = 1 .. Len(lines)
  BY Sequences
<1>2. lines # <<>> => Len(lines) \in 1 .. Len(lines)
  BY <1>1 DEF Sequence
<1> QED
  BY <1>1, <1>2 DEF CompletedIsWhole, LastOf

LEMMA SilentInv == Silent(lines) /\ wpc # "announce" => LinesInv
BY NothingToClaim DEF Silent, LinesInv, ArtifactLines

LEMMA SameResult ==
  ASSUME UNCHANGED <<job, volume>>
  PROVE  WorkerResult' = WorkerResult
BY DEF WorkerResult, OutputFile, OutputPages, PageMap, ReportFile

LEMMA LinesInvBeside ==
  ASSUME LinesInv, StartInv, Begun \/ LeftOrKilled \/ UNCHANGED <<job, workerVars>>
  PROVE  LinesInv'
<1>1. wpc' \notin {"exit", "stopped"} => wpc \notin {"exit", "stopped"}
  BY DEF Begun, LeftOrKilled, StartInv, Before, Working, workerVars
<1>2. UNCHANGED <<job, lines, volume>>
  BY DEF Begun, LeftOrKilled, workerVars
<1>3. Sequence(lines)'
  BY <1>2 DEF LinesInv
<1>4. CompletedIsWhole'
  BY <1>2, SameResult DEF LinesInv, CompletedIsWhole
<1>5. wpc' \notin {"exit", "stopped"} => \A i \in DOMAIN lines' : lines'[i].type # "completed"
  BY <1>1, <1>2 DEF LinesInv
<1>6. wpc' \notin {"announce", "exit", "stopped"} => ArtifactLines(lines') = {}
  BY <1>2 DEF LinesInv, Begun, LeftOrKilled, StartInv, Before, workerVars
<1>7. wpc' = "announce" => Announced'
  BY <1>2, SameResult DEF LinesInv, Announced, Begun, LeftOrKilled, workerVars
<1> QED
  BY <1>3, <1>4, <1>5, <1>6, <1>7 DEF LinesInv

LEMMA ArtifactCount == WorkerAccepts(job.request) => Len(WorkerResult.artifacts) \in Nat
<1> SUFFICES ASSUME WorkerAccepts(job.request) PROVE Len(WorkerResult.artifacts) \in Nat
  OBVIOUS
<1> DEFINE a == WorkerResult.artifacts
<1>1. Len(a) \in Nat
  BY Declarations
<1> QED
  BY <1>1

\* "completed" adds no artifact.
LEMMA TheLastWord ==
  ASSUME Sequence(lines), EventsMatchResult(lines, WorkerResult)
  PROVE  LET s == Emitted(lines, <<"completed">>) IN Sequence(s) /\ EventsMatchResult(s, WorkerResult)
<1> DEFINE s == Emitted(lines, <<"completed">>)
<1>1. /\ Sequence(s) /\ Len(s) = Len(lines) + 1 /\ Len(lines) \in Nat
      /\ \A i \in 1 .. Len(lines) : s[i] = lines[i]
      /\ s[Len(lines) + 1].type = "completed"
  <2> DEFINE t == <<"completed">>
  <2>1. Sequence(t) /\ Len(t) = 1 /\ t[1] = "completed"
    BY ShortTypes
  <2>2. s = Emitted(lines, t)
    OBVIOUS
  <2> HIDE DEF t, s
  <2>3. /\ Sequence(s) /\ Len(s) = Len(lines) + Len(t) /\ Len(lines) \in Nat
        /\ \A i \in 1 .. Len(lines) + Len(t) :
             /\ i <= Len(lines) => s[i] = lines[i]
             /\ i > Len(lines) => s[i].type = t[i - Len(lines)]
    <3> DEFINE u == Emitted(lines, t)
    <3>1. /\ Sequence(u) /\ Len(u) = Len(lines) + Len(t) /\ Len(lines) \in Nat
          /\ \A i \in 1 .. Len(lines) + Len(t) :
               /\ i <= Len(lines) => u[i] = lines[i]
               /\ i > Len(lines) => u[i].type = t[i - Len(lines)]
      BY <2>1, Lines
    <3> QED
      BY <2>2, <3>1
  <2>4. Len(lines) + 1 \in 1 .. Len(lines) + Len(t) /\ (Len(lines) + 1) - Len(lines) = 1
    BY <2>1, <2>3
  <2> QED
    BY <2>1, <2>3, <2>4
<1> HIDE DEF s
<1>2. DOMAIN lines = 1 .. Len(lines) /\ DOMAIN s = 1 .. Len(lines) + 1
  BY <1>1, Sequences
<1>3. ArtifactLines(s) = ArtifactLines(lines) /\ \A i \in ArtifactLines(s) : s[i] = lines[i]
  BY <1>1, <1>2 DEF ArtifactLines
<1>4. {s[i].role : i \in ArtifactLines(s)} = {lines[i].role : i \in ArtifactLines(lines)}
  BY <1>3
<1>5. EventsMatchResult(s, WorkerResult)
  BY <1>3, <1>4 DEF EventsMatchResult
<1> QED
  BY <1>1, <1>5 DEF s

\* One artifact is announced after the other.
LEMMA OneMore ==
  ASSUME LinesInv, WorkerAccepts(job.request), Announce, UNCHANGED job,
  WorkerResult' = WorkerResult,
         Cardinality(ArtifactLines(lines)) < Len(WorkerResult.artifacts)
  PROVE  LinesInv'
<1> DEFINE a == WorkerResult.artifacts
           said == ArtifactLines(lines)
           e == Line(Len(lines) + 1, "artifact", a[Cardinality(said) + 1].role, a[Cardinality(said) + 1].digest)
<1>1. /\ wpc = "announce" /\ Announced /\ Sequence(lines) /\ wpc' = "announce" /\ lines' = Append(lines, e)
      /\ \A i \in DOMAIN lines : lines[i].type # "completed"
  BY DEF Announce, LinesInv
<1>2. /\ Len(lines) \in Nat /\ DOMAIN lines = 1 .. Len(lines)
  BY <1>1, Sequences
<1>3. /\ e.type = "artifact" /\ e.role = a[Cardinality(said) + 1].role
      /\ e.digest = a[Cardinality(said) + 1].digest
  BY DEF Line
<1>4. PICK base \in 0 .. Len(lines) :
        /\ said = base + 1 .. Len(lines)
        /\ \A k \in 1 .. Len(lines) - base :
             lines[base + k].role = a[k].role /\ lines[base + k].digest = a[k].digest
  BY <1>1 DEF Announced
<1>5. Cardinality(said) < Len(a) /\ Len(a) \in Nat
  BY ArtifactCount
<1>6. said = {i \in DOMAIN lines : lines[i].type = "artifact"}
  BY DEF ArtifactLines
<1>7. Announced' = \E b \in 0 .. Len(lines') :
                     /\ ArtifactLines(lines') = b + 1 .. Len(lines')
                     /\ Len(lines') - b <= Len(a)
                     /\ \A k \in 1 .. Len(lines') - b :
                          lines'[b + k].role = a[k].role /\ lines'[b + k].digest = a[k].digest
  BY DEF Announced
<1> HIDE DEF a, said, e
<1>8. Cardinality(said) = Len(lines) - base
  BY <1>2, <1>4, IntervalCount
<1>9. /\ Sequence(lines') /\ Len(lines') = Len(lines) + 1
      /\ \A i \in 1 .. Len(lines) + 1 : lines'[i] = IF i <= Len(lines) THEN lines[i] ELSE e
  BY <1>1, Appended
<1>10. DOMAIN lines' = 1 .. Len(lines) + 1
  BY <1>9, Sequences
<1>11. ArtifactLines(lines') = base + 1 .. Len(lines')
  BY SMTT(40), <1>2, <1>3, <1>4, <1>6, <1>9, <1>10 DEF ArtifactLines
<1>12. ASSUME NEW k \in 1 .. Len(lines') - base
       PROVE  lines'[base + k].role = a[k].role /\ lines'[base + k].digest = a[k].digest
  <2>1. CASE k <= Len(lines) - base
    BY <1>2, <1>4, <1>9, <2>1
  <2>2. CASE ~ k <= Len(lines) - base
    <3>1. k = Cardinality(said) + 1 /\ base + k = Len(lines) + 1
      BY <1>2, <1>8, <1>9, <2>2
    <3> QED
      BY <1>2, <1>3, <1>9, <3>1
  <2> QED
    BY <2>1, <2>2
<1>13. Announced'
  <2>1. base \in 0 .. Len(lines') /\ Len(lines') - base <= Len(a)
    BY <1>2, <1>5, <1>8, <1>9
  <2> QED
    BY <1>7, <1>11, <1>12, <2>1
<1>14. \A i \in DOMAIN lines' : lines'[i].type # "completed"
  BY <1>1, <1>2, <1>3, <1>9, <1>10
<1>15. (Sequence(lines) /\ (\A i \in DOMAIN lines : lines[i].type # "completed") => CompletedIsWhole)'
  BY NothingToClaim, PTL
<1> QED
  BY <1>1, <1>9, <1>13, <1>14, <1>15 DEF LinesInv

LEMMA LinesInvWork ==
  ASSUME LinesInv, VolumeInv, Work, UNCHANGED job
  PROVE  LinesInv'
<1> USE DEF Stop, Continue
<1>1. (Silent(lines) /\ wpc # "announce" => LinesInv)'
  BY SilentInv, PTL
<1>2. wpc \notin {"announce", "exit", "stopped"} => Silent(lines)
  BY DEF LinesInv, Silent, ArtifactLines
<1>3. ASSUME NEW said, Silent(said), NEW types, wpc' # "announce", lines' = Emitted(said, types), Sequence(types),
             \A i \in DOMAIN types : types[i] \notin {"artifact", "completed"}
      PROVE  LinesInv'
  BY <1>1, <1>3, SilentLines
<1>4. Raise /\ wpc \notin {"announce", "exit", "stopped"} => LinesInv'
  BY <1>2, <1>3, ShortTypes DEF Raise
<1>5. wpc' # "announce" /\ wpc \notin {"announce", "exit", "stopped"} /\ UNCHANGED lines => LinesInv'
  BY <1>1, <1>2
<1>6. CASE Start
  BY <1>3, <1>6, ShortTypes DEF Start
<1>7. CASE CheckReadiness \/ ImportEngine \/ EngineFails
  BY <1>4, <1>5, <1>7 DEF CheckReadiness, ImportEngine, EngineFails
<1>8. CASE ValidateInput
  BY <1>2, <1>3, <1>8, ShortTypes DEF ValidateInput
<1>9. CASE Progress \/ EngineFinishes
  BY <1>2, <1>3, <1>9, ShortTypes DEF Progress, EngineFinishes
<1>10. CASE Collect \/ Report
  BY <1>4, <1>5, <1>10 DEF Collect, Report
<1>11. CASE WriteResult
  <2> SUFFICES ASSUME ~ Raise PROVE LinesInv'
    BY <1>4, <1>11 DEF WriteResult
  <2>1. Silent(lines) /\ lines' = lines /\ wpc' = "announce" /\ WorkerAccepts(job.request)'
    BY <1>2, <1>11 DEF WriteResult, VolumeInv
  <2>2. Len(lines) \in Nat /\ DOMAIN lines = 1 .. Len(lines)
    BY <2>1, Sequences DEF Silent
  <2>3. Len(WorkerResult.artifacts)' \in Nat
    <3>1. (WorkerAccepts(job.request) => Len(WorkerResult.artifacts) \in Nat)'
      BY ArtifactCount, PTL
    <3> QED
      BY <2>1, <3>1
  <2>4. Announced'
    <3>1. ArtifactLines(lines') = Len(lines) + 1 .. Len(lines)
      BY <2>1, <2>2 DEF Silent, ArtifactLines
    <3>2. Len(lines) \in 0 .. Len(lines) /\ Len(lines) - Len(lines) = 0
      BY <2>2
    <3> QED
      BY <2>1, <2>3, <3>1, <3>2 DEF Announced
  <2>5. (Sequence(lines) /\ (\A i \in DOMAIN lines : lines[i].type # "completed") => CompletedIsWhole)'
    BY NothingToClaim, PTL
  <2> QED
    BY <2>1, <2>4, <2>5 DEF LinesInv, Silent
<1>12. CASE Announce
  <2>1. /\ wpc = "announce" /\ Announced /\ Sequence(lines) /\ WorkerAccepts(job.request)
        /\ \A i \in DOMAIN lines : lines[i].type # "completed"
    BY <1>12 DEF Announce, LinesInv, VolumeInv
  <2>2. WorkerResult' = WorkerResult
    BY <1>12, SameResult DEF Announce
  <2>3. CASE Cardinality(ArtifactLines(lines)) < Len(WorkerResult.artifacts)
    BY <1>12, <2>1, <2>2, <2>3, OneMore DEF Announce
  <2>4. CASE ~ Cardinality(ArtifactLines(lines)) < Len(WorkerResult.artifacts)
    <3>1. lines' = Emitted(lines, <<"completed">>) /\ wpc' = "exit" /\ volume' = volume
      BY <1>12, <2>4 DEF Announce
    <3>2. EventsMatchResult(lines, WorkerResult)
      BY <2>1, <2>4, AllAnnounced
    <3>3. Sequence(lines') /\ EventsMatchResult(lines', WorkerResult)
      BY <2>1, <3>1, <3>2, TheLastWord
    <3>4. CompletedIsWhole'
      BY <1>12, <2>1, <2>2, <3>1, <3>3 DEF Announce, CompletedIsWhole, VolumeInv
    <3> QED
      BY <3>1, <3>3, <3>4 DEF LinesInv
  <2> QED
    BY <2>3, <2>4
<1>13. CASE Exit
  <2>1. lines' = lines /\ UNCHANGED <<job, volume>> /\ wpc' = "stopped"
    BY <1>13 DEF Exit
  <2>2. CompletedIsWhole'
    BY <2>1, SameResult DEF LinesInv, CompletedIsWhole
  <2> QED
    BY <2>1, <2>2 DEF LinesInv
<1> QED
  BY <1>6, <1>7, <1>8, <1>9, <1>10, <1>11, <1>12, <1>13 DEF Work

-------------------------------------------------------------------------------
(* What is published.  A copy that is staged was taken of a worker that ended  *)
(* well, and it is all of the volume or nothing; one that has passed the scan  *)
(* holds no secret.                                                            *)

StagedInv ==
  /\ job \in Jobs /\ pdf \in {job.source, [job.source EXCEPT !.digest = "other"]}
  /\ pc \in {"copy", "scan"} \/ staged # NoCopy \/ published # NoCopy => wpc = "stopped" /\ wexit = "ok"
  /\ staged # NoCopy =>
       staged \in {volume, EmptyVolume} /\ (pc # "scan" => ~ SecretsRetained(staged))
  /\ pc = "publish" => staged # NoCopy
PublishInv == StagedInv /\ PublishedIsWhole /\ NoSecretRetained

\* An output whose pages were moved or lost is not what the page map says.
LEMMA PagesAreCompared ==
  ASSUME job \in Jobs, NEW r \in PdfRoles, NEW item, item.kind \in {"moved", "short"},
         Len(job.source.pdf.pages) > 0,
         PageMapAccepted(PageMap(r), r, job.source.pdf.pages, OutputPages(item, r))
  PROVE  FALSE
<1> DEFINE pages == job.source.pdf.pages
           all == IF r = "mono" THEN pages ELSE [i \in 1 .. 2 * Len(pages) |-> pages[(i + 1) \div 2]]
           map == PageMap(r)
           output == OutputPages(item, r)
<1>1. pages \in Seq(ToSet(pages) \ {"elsewhere"})
  BY SourceAssumption
<1>2. /\ Len(pages) \in Nat /\ Len(pages) > 0 /\ DOMAIN pages = 1 .. Len(pages)
      /\ \A i \in 1 .. Len(pages) : pages[i] # "elsewhere"
  BY <1>1, LenProperties, ElementOfSeq
<1>3. DOMAIN map = DOMAIN pages /\ map[1] = [sourcePage |-> 1, outputPages |-> ExpectedOutput(r, 1)]
  BY <1>2 DEF PageMap
<1>4. /\ \A i \in DOMAIN map : \A j \in DOMAIN map[i].outputPages :
           output[map[i].outputPages[j]] = pages[map[i].sourcePage]
      /\ Len(output) = PagesPerSource(r) * Len(pages)
  BY DEF PageMapAccepted
<1>5. output = CASE item.kind = "moved" -> [all EXCEPT ![1] = "elsewhere"]
                 [] item.kind = "short" -> Tail(all)
                 [] OTHER -> all
  BY DEF OutputPages
<1> HIDE DEF pages, map, output
<1>6. /\ DOMAIN all = 1 .. PagesPerSource(r) * Len(pages)
      /\ all \in Seq({all[i] : i \in DOMAIN all}) /\ Len(all) = PagesPerSource(r) * Len(pages)
      /\ PagesPerSource(r) * Len(pages) \in Nat /\ PagesPerSource(r) * Len(pages) > 0
  <2>1. CASE r = "mono"
    <3>1. pages \in [1 .. Len(pages) -> {pages[i] : i \in 1 .. Len(pages)}]
      BY <1>1, <1>2, LenProperties
    <3>2. pages \in Seq({pages[i] : i \in DOMAIN pages})
      BY SMTT(40), <1>2, <3>1
    <3>3. all = pages
      BY <2>1
    <3>4. PagesPerSource(r) = 1
      BY <2>1 DEF PagesPerSource
    <3> HIDE DEF all
    <3>5. PagesPerSource(r) * Len(pages) = Len(pages)
      <4>1. \A n \in Nat : 1 * n = n
        OBVIOUS
      <4>2. Len(pages) \in Nat
        BY <1>2
      <4> QED
        BY <3>4, <4>1, <4>2
    <3>6. all \in Seq({all[i] : i \in DOMAIN all})
      <4>1. {all[i] : i \in DOMAIN all} = {pages[i] : i \in DOMAIN pages}
        BY <3>3
      <4> QED
        BY <3>2, <3>3, <4>1
    <3> QED
      BY <1>2, <3>3, <3>5, <3>6
  <2>2. CASE r # "mono"
    <3>1. PagesPerSource(r) * Len(pages) = 2 * Len(pages) /\ 2 * Len(pages) \in Nat /\ 2 * Len(pages) > 0
      BY <1>2, <2>2 DEF PagesPerSource
    <3>2. all = [i \in 1 .. 2 * Len(pages) |-> pages[(i + 1) \div 2]]
      BY <2>2
    <3> HIDE DEF all
    <3>3. DOMAIN all = 1 .. 2 * Len(pages) /\ all = [i \in 1 .. 2 * Len(pages) |-> all[i]]
      BY <3>2
    <3>4. all \in [1 .. 2 * Len(pages) -> {all[i] : i \in DOMAIN all}]
      BY <3>3
    <3>5. all \in Seq({all[i] : i \in DOMAIN all}) /\ Len(all) = 2 * Len(pages)
      BY <3>1, <3>3, <3>4
    <3> QED
      BY <3>1, <3>3, <3>5
  <2> QED
    BY <2>1, <2>2
<1> HIDE DEF all
<1>7. CASE item.kind = "moved"
  <2>1. 1 \in DOMAIN all /\ output = [all EXCEPT ![1] = "elsewhere"]
    BY <1>5, <1>6, <1>7
  <2>2. output[1] = "elsewhere"
    BY <2>1
  <2>3. 1 \in DOMAIN map[1].outputPages /\ map[1].outputPages[1] = 1 /\ map[1].sourcePage = 1
    BY <1>3 DEF ExpectedOutput
  <2>4. output[1] = pages[1] /\ pages[1] # "elsewhere"
    BY <1>2, <1>3, <1>4, <2>3
  <2> QED
    BY <2>2, <2>4
<1>8. CASE item.kind = "short"
  <2>1. output = Tail(all)
    BY <1>5, <1>8
  <2>2. all # <<>>
    BY <1>6
  <2>3. Len(output) = Len(all) - 1
    BY <1>6, <2>1, <2>2, HeadTailProperties
  <2> QED
    BY <1>4, <1>6, <2>3
<1> QED
  BY <1>7, <1>8

LEMMA PublishSound ==
  ASSUME StagedInv, VolumeInv, LinesInv, pc = "publish",
         CandidateAccepted(job.request, pdf, HealthDocument, job.approved, lines, Staging(staged))
  PROVE  /\ staged = volume /\ pdf.digest = job.request.sourceDigest
         /\ \A r \in job.request.outputs : staged.kept[r].kind = "good"
<1>1. /\ staged \in {volume, EmptyVolume} /\ ~ SecretsRetained(staged)
      /\ wexit = "ok" /\ job \in Jobs /\ pdf \in {job.source, [job.source EXCEPT !.digest = "other"]}
  BY DEF StagedInv
<1>2. /\ RequestAccepted(job.request, pdf) /\ EventsAccepted(job.request.runId, lines)
      /\ LastOf(lines).type = "completed" /\ ResultAccepted(Staging(staged), job.request, pdf)
  BY DEF CandidateAccepted
<1>3. pdf.digest = job.request.sourceDigest /\ job.request.outputs \subseteq PdfRoles /\ lines # <<>>
  BY <1>2 DEF RequestAccepted, EventsAccepted
<1>4. staged = volume /\ volume.document
  <2>1. staged.document
    BY <1>2 DEF ResultAccepted, Staging
  <2> QED
    BY <1>1, <2>1 DEF EmptyVolume
<1>5. DOMAIN volume.kept = job.request.outputs
  BY <1>2, <1>3 DEF LinesInv, CompletedIsWhole
<1>6. pdf.pdf = job.source.pdf
  BY <1>1, SourceAssumption
<1>7. ASSUME NEW r \in job.request.outputs
      PROVE  volume.kept[r].kind = "good"
  <2> DEFINE item == volume.kept[r]  staging == Staging(volume)
  <2>1. r \in PdfRoles /\ r # "report"
    BY <1>3 DEF PdfRoles
  <2>2. r \in DOMAIN staging.files /\ staging.files[r] = OutputFile(item, r)
    BY SMTT(40), <1>5, <2>1 DEF Staging
  <2>3. staging.document.pageMaps[r] = PageMap(r)
    BY <1>4 DEF Staging, WorkerResult
  <2>4. /\ Inspected(pdf.pdf, job.request.maxPages)
        /\ PdfAccepted(staging.files[r], r, job.request, pdf, staging.document.pageMaps[r])
    BY <1>2, <1>4, <2>2 DEF ResultAccepted
  <2>5. /\ Len(job.source.pdf.pages) \in 1 .. job.request.maxPages
        /\ PageMapAccepted(PageMap(r), r, job.source.pdf.pages, OutputPages(item, r))
    BY <1>6, <2>2, <2>3, <2>4 DEF Inspected, PdfAccepted, OutputFile
  <2>6. item.kind \notin {"moved", "short"}
    BY <1>1, <2>1, <2>5, PagesAreCompared
  <2>7. item.kind \in EngineKinds /\ item.kind \notin Strange
    BY <1>5, EngineAssumption DEF VolumeInv
  <2>8. item.kind # "leaky"
    <3>1. job.profile.usesSecret
      BY <1>1, SecretIsMounted DEF VolumeInv
    <3> QED
      BY <1>1, <1>4, <1>5, <3>1 DEF SecretsRetained, LeakyRoles
  <2> QED
    BY <2>6, <2>7, <2>8 DEF EngineKinds, Strange
<1> QED
  BY <1>3, <1>4, <1>7

LEMMA PublishInvInit == Init => PublishInv
BY DEF Init, PublishInv, StagedInv, PublishedIsWhole, NoSecretRetained

\* What the published copy says of itself does not change any more.
LEMMA PublishInvSame ==
  ASSUME PublishInv, VolumeInv, UNCHANGED <<job, published>>,
         UNCHANGED <<wexit, volume>> \/ published = NoCopy
  PROVE  PublishedIsWhole' /\ NoSecretRetained'
BY DEF PublishInv, PublishedIsWhole, NoSecretRetained

LEMMA PublishInvHost ==
  ASSUME PublishInv, VolumeInv, LinesInv, StartInv, Host
  PROVE  PublishInv'
<1> USE DEF Then
<1>0. UNCHANGED <<job, lines, volume>>
  BY WorkerBesideItsSteps DEF Begun, LeftOrKilled
<1>1. wpc = "stopped" => UNCHANGED <<wpc, wexit>>
  BY WorkerBesideItsSteps DEF Begun, LeftOrKilled, Working, StartInv, Before
<1>2. \A copy : SecretsRetained(copy)' = SecretsRetained(copy)
  BY <1>0 DEF SecretsRetained
<1>3. CASE ~ Publish
  <2>1. UNCHANGED <<published, pdf>>
    BY <1>3 DEF Host, Begin, Health, CreateOutput, CreateSecret, Seed, StartKeeper, VerifyMount,
       ExecEnds, ExecTimesOut,
                CopyOutput, Scan, CleanUp
  <2>2. PublishedIsWhole' /\ NoSecretRetained'
    BY <1>0, <1>1, <2>1, PublishInvSame DEF PublishInv, StagedInv
  <2>3. CASE CopyOutput \/ Scan
    BY <1>0, <1>1, <1>2, <2>1, <2>2, <2>3 DEF CopyOutput, Scan, PublishInv, StagedInv
  <2>4. CASE CleanUp
    <3>1. pc' \notin {"copy", "scan"} /\ staged' = staged /\ pc # "scan" /\ (pc' = "publish" => staged # NoCopy)
      BY <2>4 DEF CleanUp, Removed, After
    <3> QED
      BY <1>0, <1>1, <1>2, <2>1, <2>2, <3>1 DEF PublishInv, StagedInv
  <2>5. CASE Begin \/ Health \/ CreateOutput \/ CreateSecret \/ Seed \/ StartKeeper \/ VerifyMount \/ ExecEnds \/ ExecTimesOut
    <3>1. /\ pc # "scan" /\ staged' = staged /\ pc' \notin {"scan", "publish"}
          /\ pc' = "copy" => wpc = "stopped" /\ wexit = "ok"
      BY <2>5 DEF Begin, Health, CreateOutput, CreateSecret, Seed, StartKeeper, VerifyMount,
         ExecEnds, ExecTimesOut
    <3> QED
      BY <1>0, <1>1, <1>2, <2>1, <2>2, <3>1 DEF PublishInv, StagedInv
  <2> QED
    BY <1>3, <2>3, <2>4, <2>5 DEF Host
<1>4. CASE Publish
  <2>1. /\ pc = "publish" /\ pc' \in {"published", "failed"} /\ UNCHANGED <<job, wpc, wexit, volume, pdf, staged>>
        /\ staged # NoCopy
    BY <1>4 DEF Publish, Rest, workerVars, PublishInv, StagedInv
  <2>2. StagedInv'
    BY <1>2, <2>1 DEF PublishInv, StagedInv
  <2>3. CASE published' = published
    BY <2>1, <2>2, <2>3, PublishInvSame DEF PublishInv
  <2>4. CASE CandidateAccepted(job.request, pdf, HealthDocument, job.approved, lines,
  Staging(staged))
    <3>1. published' = [copy |-> staged, lines |-> lines, source |-> pdf.digest,
                        log |-> IF job.profile.usesSecret THEN "" ELSE job.stderr]
      BY <1>4, <2>4 DEF Publish
    <3>2. /\ staged = volume /\ pdf.digest = job.request.sourceDigest
          /\ \A r \in job.request.outputs : staged.kept[r].kind = "good"
      BY <2>1, <2>4, PublishSound DEF PublishInv
    <3>3. wexit = "ok" /\ ~ SecretsRetained(staged)
      BY <2>1 DEF PublishInv, StagedInv
    <3>4. PublishedIsWhole'
      BY <2>1, <3>1, <3>2, <3>3 DEF PublishedIsWhole
    <3>5. NoSecretRetained'
      BY <2>1, <3>1, <3>3 DEF NoSecretRetained, SecretsRetained
    <3> QED
      BY <2>2, <3>4, <3>5 DEF PublishInv
  <2> QED
    BY <1>4, <2>3, <2>4 DEF Publish
<1> QED
  BY <1>3, <1>4

LEMMA PublishInvOther ==
  ASSUME PublishInv, VolumeInv, StartInv,
         \/ WorkerStep \/ LateCreation \/ WorkerKilled \/ KeeperDies \/ ReplaceSource \/ UNCHANGED vars
         \/ \E c \in Calls : AssetStep(c) \/ Probe(c)
  PROVE  PublishInv'
<1>1. UNCHANGED <<job, pc, staged, published>> /\ (ReplaceSource \/ UNCHANGED pdf)
  BY DEF WorkerStep, LateCreation, WorkerKilled, KeeperDies, ReplaceSource, AssetStep, Probe, Rest,
     hostVars, vars
<1>2. wpc = "stopped" => UNCHANGED <<wpc, wexit, volume>>
  <2>1. ASSUME WorkerStep, wpc = "stopped" PROVE FALSE
    BY <2>1 DEF WorkerStep, Work, Start, CheckReadiness, ImportEngine, ValidateInput, Progress,
       EngineFinishes, EngineFails,
                Collect, Report, WriteResult, Announce, Exit
  <2> QED
    BY <2>1 DEF LateCreation, WorkerKilled, KeeperDies, ReplaceSource, AssetStep, Probe, Rest,
       workerVars, vars, Working
<1>3. pdf' \in {job.source, [job.source EXCEPT !.digest = "other"]}
  BY <1>1 DEF ReplaceSource, PublishInv, StagedInv
<1>4. \A copy : SecretsRetained(copy)' = SecretsRetained(copy)
  BY <1>1 DEF SecretsRetained
<1>5. PublishedIsWhole' /\ NoSecretRetained'
  BY <1>1, <1>2, PublishInvSame DEF PublishInv, StagedInv
<1> QED
  BY <1>1, <1>2, <1>3, <1>4, <1>5 DEF PublishInv, StagedInv

-------------------------------------------------------------------------------
Inv == AssetsInv /\ StartInv /\ VolumeInv /\ LinesInv /\ PublishInv /\ RemovalInv

LEMMA Initially == Init => Inv
<1> SUFFICES ASSUME Init PROVE Inv
  OBVIOUS
<1>1. AssetsInv
  <2> DEFINE disk == "full" \in job.faults
  <2>1. disk \in BOOLEAN /\ AssetsInit(disk)
    BY DEF Init
  <2> HIDE DEF disk
  <2> QED
    BY <2>1, AssetsInvInit
<1>2. StartInv
  <2>1. at[RunCall] = "off"
    BY AssetAssumption DEF Init, AssetsInit
  <2> QED
    BY <2>1 DEF Init, WorkerInit, StartInv, Stages
<1>3. VolumeInv
  <2>1. \A r : r \notin DOMAIN <<>>
    OBVIOUS
  <2> QED
    BY <2>1 DEF Init, WorkerInit, VolumeInv, EmptyVolume, Unbegun
<1>4. LinesInv
  BY SilentInv, ShortTypes DEF Init, WorkerInit
<1> QED
  BY <1>1, <1>2, <1>3, <1>4, PublishInvInit, RemovalInvInit DEF Inv

LEMMA Inductive == Inv /\ [Next]_vars => Inv'
<1> SUFFICES ASSUME Inv, [Next]_vars PROVE Inv'
  OBVIOUS
<1> USE DEF Inv
<1>1. AssetsInv' /\ StartInv'
  BY StartAndAssets
<1>2. CASE WorkerStep
  <2>1. VolumeInv' /\ LinesInv'
    BY <1>2, VolumeInvWork, LinesInvWork DEF WorkerStep
  <2> QED
    BY <1>1, <1>2, <2>1, PublishInvOther, RemovalInvOther
<1>3. CASE Host \/ LateCreation \/ WorkerKilled \/ KeeperDies \/ ReplaceSource
  <2>1. VolumeInv' /\ LinesInv'
    BY <1>3, WorkerBesideItsSteps, VolumeInvBeside, LinesInvBeside
  <2>2. RemovalInv'
    BY <1>3, RemovalInvHost, RemovalInvCleanUp, RemovalInvLate, RemovalInvOther DEF Host
  <2>3. PublishInv'
    BY <1>3, PublishInvHost, PublishInvOther
  <2> QED
    BY <1>1, <2>1, <2>2, <2>3
<1>4. CASE (\E c \in Calls : AssetStep(c) \/ Probe(c)) \/ UNCHANGED vars
  <2>1. UNCHANGED <<job, workerVars>>
    BY <1>4 DEF AssetStep, Probe, vars
  <2>2. VolumeInv' /\ LinesInv'
    BY <2>1, VolumeInvBeside, LinesInvBeside
  <2> QED
    BY <1>1, <1>4, <2>2, PublishInvOther, RemovalInvOther
<1> QED
  BY <1>2, <1>3, <1>4 DEF Next

\* Types, and who owns which asset, container, volume, line and file at each step
\* of the supervisor and the workers: the inductive invariant of the rest.
THEOREM InvHolds == Spec => []Inv
<1> QED
  BY Initially, Inductive, PTL DEF Spec

\* A call that was answered ready keeps its assets, whatever a readiness check
\* beside it links and rolls back (materialize_runtime_assets of readiness.py).
THEOREM ReadyStaysReady == Spec => []ReadyIsStable
<1>1. Inv => ReadyIsStable
  BY DEF Inv, AssetsInv
<1> QED
  BY <1>1, InvHolds, PTL

\* However a run ends, docker keeps only what it did not confirm to be gone.
THEOREM LeftoversAreExcused == Spec => []NothingOutlives
<1>1. Inv => NothingOutlives
  BY DEF Inv, RemovalInv, NothingOutlives, Ended, Excused, WithKeeper, Things, Volumes
<1> QED
  BY <1>1, InvHolds, PTL

\* A worker that says "completed" has made, declared and announced everything
\* it was asked for, and nothing twice.
THEOREM CompletedWhole == Spec => []CompletedIsWhole
<1>1. Inv => CompletedIsWhole
  BY DEF Inv, LinesInv
<1> QED
  BY <1>1, InvHolds, PTL

\* What is published is the volume of a worker that ended well, made from the
\* paper's source, with every page in its place.
THEOREM PublishedWhole == Spec => []PublishedIsWhole
<1>1. Inv => PublishedIsWhole
  BY DEF Inv, PublishInv
<1> QED
  BY <1>1, InvHolds, PTL

\* No published file, event or log holds the provider's secret.
THEOREM SecretStaysOut == Spec => []NoSecretRetained
<1>1. Inv => NoSecretRetained
  BY DEF Inv, PublishInv
<1> QED
  BY <1>1, InvHolds, PTL
===============================================================================
