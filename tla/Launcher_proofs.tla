---------------------------- MODULE Launcher_proofs ----------------------------
(* Launcher for any commands, any models at first, and any number of edits and *)
(* kills.                                                                      *)
EXTENDS Launcher, TLAPS

USE CommandsAreKnown, SomeLocked, NobodyIsNone, PartsAreEdited, KillsAreBounded

Places == [there : BOOLEAN, files : Trees]
Labels == Working \cup Supervising \cup Ended \cup {"probe", "probed", "lock", "status"}

SetupTyped ==
  /\ sources \in Checkouts /\ newest \in Checkouts /\ plan \in Fingerprints
  /\ back \subseteq {"deps", "tree", "proxy"} /\ changed \subseteq {"deps", "tree", "proxy"}
  /\ unsure \subseteq {"node", "build"} /\ edits \in 0 .. MaxEdits
  /\ nodeModules \in [parts : SUBSET Parts, from : SUBSET Nat]
  /\ webBuild \in [id : BOOLEAN, from : SUBSET Checkouts]
  /\ setupState \in [node : SUBSET Nat, webBuild : SUBSET Fingerprints]
  /\ models \in Places /\ retained \in Places /\ staging \in [Commands -> Places]
  /\ setupLock \in Commands \cup {None} /\ pc \in [Commands -> Labels]

RuntimeTyped ==
  /\ runtimeLock \in Commands \cup {None}
  /\ service \in [Commands -> [Services -> Alive \cup {"none", "gone"}]]
  /\ port \in [Services -> Commands \cup {None}] /\ announced \in Commands \cup {None}
  /\ stopAsked \in [Commands -> BOOLEAN] /\ outcome \in [Commands -> Ended] /\ kills \in 0 .. MaxKills

-------------------------------------------------------------------------------
(* What setup knows under its lock. *)

\* A command between taking and leaving setup_lock holds it: one at a time.
Holding == Working \ {"setup"}
SetupExclusive == \A c \in Commands : pc[c] \in Holding => setupLock = c

\* What was planned or recorded is no newer than the newest content.
NoNewer(x, y) == x.deps <= y.deps /\ x.tree <= y.tree
NothingNewer ==
  /\ \A d \in setupState.node : d <= newest.deps
  /\ \A x \in setupState.webBuild : NoNewer(x, newest)
  /\ NoNewer(plan, newest) /\ NoNewer(sources, newest)

\* Past its plan, a command knows of a part it has not changed under it, and one
\* that was changed to a content nobody had seen agrees with no plan or record.
NeverLeft == "deps" \notin back /\ "tree" \notin back
Steady == "deps" \notin changed /\ "tree" \notin changed
Planned(c) == pc[c] \in Holding \ {"plan"}
PlanInv ==
  \A c \in Commands : Planned(c) =>
    /\ IF "deps" \in changed
       THEN "deps" \in back \/ (plan.deps # sources.deps /\ setupState.node # {sources.deps})
       ELSE plan.deps = sources.deps
    /\ IF "tree" \in changed THEN "tree" \in back \/ plan.tree # sources.tree
                            ELSE plan.tree = sources.tree
    /\ NeverLeft /\ setupState.webBuild = {Hashed(sources)} => plan = Hashed(sources)

\* A record of a content that was never left, and one of an installation that
\* was neither cut short nor run during an edit, describe what is there.
NodeRecorded == NodeDependenciesInstalled /\ NodeCurrent(sources.deps)
NodeInv ==
  /\ "deps" \notin back /\ NodeRecorded => nodeModules.from = {sources.deps}
  /\ "node" \notin unsure /\ NodeDependenciesInstalled => nodeModules.from = setupState.node
  /\ \A c \in Commands :
       /\ pc[c] \in {"install", "installing"} /\ "deps" \notin back => ~ NodeRecorded
       /\ pc[c] = "recordNode" /\ "deps" \notin changed /\ NodeDependenciesInstalled =>
            nodeModules.from = {sources.deps}
       /\ pc[c] \in {"installing", "relink", "recordNode"} => "node" \in unsure

BuildInv ==
  /\ NeverLeft /\ BuildCurrent(Hashed(sources)) => BuiltFrom = {Hashed(sources)}
  /\ "build" \notin unsure /\ webBuild.id => BuiltFrom = setupState.webBuild
  /\ \A c \in Commands :
       /\ pc[c] \in {"build", "building"} /\ NeverLeft => ~ BuildCurrent(Hashed(sources))
       /\ pc[c] = "recordBuild" /\ Steady => BuiltFrom = {plan}
       /\ pc[c] \in {"building", "recordBuild"} => "build" \in unsure

\* While one command swaps trees, the one that is there does not verify; what
\* it will put there does.  A tree under the backup name waits for a place that
\* is empty, or has been replaced by one that verifies.
ModelsInv ==
  /\ \A c \in Commands :
       /\ pc[c] \in {"download", "check", "moveOld", "moveNew", "swapIn"} => ~ Verified(models)
       /\ pc[c] \in {"check", "moveOld", "moveNew", "swapIn"} => staging[c].there
       /\ pc[c] \in {"moveOld", "moveNew", "swapIn"} => Verified(staging[c])
       /\ pc[c] = "moveNew" => ~ models.there
       /\ pc[c] = "moveOld" => models.there
       /\ pc[c] = "swapIn" => models = Nowhere
  /\ retained.there => Verified(models) \/ models = Nowhere
  /\ ~ models.there => models = Nowhere
  /\ ~ retained.there => retained = Nowhere

SetupInv == SetupTyped /\ SetupExclusive /\ NothingNewer /\ PlanInv /\ NodeInv /\ BuildInv /\ ModelsInv

-------------------------------------------------------------------------------
LEMMA NowhereIsAPlace == Nowhere \in Places /\ ~ Nowhere.there /\ ~ Verified(Nowhere)
<1>1. NoTree \in Trees
  BY DEF NoTree, Trees
<1>2. PICK f \in Locked : TRUE
  BY SomeLocked
<1>3. Nowhere.files[f] = "absent"
  BY <1>2 DEF Nowhere, NoTree
<1> QED
  BY <1>1, <1>2, <1>3 DEF Nowhere, Places, Verified

LEMMA TypesAgree == SetupTyped /\ RuntimeTyped => TypeOK
<1> SUFFICES ASSUME SetupTyped, RuntimeTyped PROVE TypeOK
  OBVIOUS
<1>1. {models, retained} \cup {staging[c] : c \in Commands} \subseteq Places
  BY DEF SetupTyped
<1>2. SetupTypeOK
  BY <1>1 DEF SetupTyped, SetupTypeOK, Places
<1> QED
  BY <1>2 DEF TypeOK, SetupTyped, RuntimeTyped, Labels

LEMMA SetupInvInit == Init => SetupInv
<1> SUFFICES ASSUME Init PROVE SetupInv
  OBVIOUS
<1> USE DEF Init, SetupInit
<1>1. models \in Places /\ (~ models.there => models = Nowhere)
  <2>1. \A tree \in Trees : At(tree) \in Places /\ At(tree).there
    BY DEF At, Places
  <2>2. models = Nowhere \/ \E tree \in Trees : models = At(tree)
    <3>1. [Locked -> FirstFiles] \subseteq Trees
      BY SomeLocked DEF Trees
    <3> QED
      BY <3>1 DEF FirstModels
  <2> QED
    BY <2>1, <2>2, NowhereIsAPlace
<1>2. SetupTyped
  BY <1>1, NowhereIsAPlace DEF SetupTyped, Checkouts, Fingerprints, Hashed, Labels, Working
<1>3. \A c \in Commands : pc[c] \notin Holding
  BY DEF Holding, Working
<1>4. NothingNewer
  BY DEF NothingNewer, NoNewer, Hashed
<1>9. PlanInv
  BY <1>3 DEF PlanInv, Planned
<1>5. NodeInv
  BY <1>3 DEF NodeInv, NodeRecorded, NodeCurrent, NodeDependenciesInstalled, Parts, Holding, Working
<1>6. BuildInv
  BY <1>3 DEF BuildInv, BuildCurrent, Holding, Working
<1>7. ModelsInv
  BY <1>1, <1>3, NowhereIsAPlace DEF ModelsInv, Holding, Working
<1> QED
  BY <1>2, <1>3, <1>4, <1>5, <1>6, <1>7, <1>9 DEF SetupInv, SetupExclusive

-------------------------------------------------------------------------------
(* Steps of setup. *)

\* Where a command that is not inside setup goes concerns setup only when it is
\* killed, and then its lock goes with it.
LEMMA OutsideStep ==
  ASSUME SetupInv, NEW c \in Commands, NEW l \in Labels \ Holding, Goto(c, l),
         UNCHANGED <<sources, files, plan, history>>, UNCHANGED setupLock \/ Unlock(c)
  PROVE  SetupInv'
<1> USE DEF SetupInv, Goto, files, history, Unlock
<1>1. SetupTyped'
  BY DEF SetupTyped
<1>2. \A d \in Commands : pc'[d] \in Holding => pc'[d] = pc[d] /\ d # c
  BY DEF SetupTyped
<1>3. SetupExclusive'
  BY <1>2 DEF SetupExclusive
<1>4. NothingNewer'
  BY DEF NothingNewer
<1>5. NodeInv'
  BY <1>2 DEF NodeInv, NodeRecorded, NodeDependenciesInstalled, NodeCurrent, Holding, Working
<1>6. BuildInv'
  BY <1>2 DEF BuildInv, BuildCurrent, BuiltFrom, NeverLeft, Steady, Hashed, Holding, Working
<1>7. ModelsInv'
  BY <1>2 DEF ModelsInv, Verified, Holding, Working
<1>8. PlanInv'
  BY <1>2 DEF PlanInv, Planned, NeverLeft, Hashed, Holding, Working
<1> QED
  BY <1>1, <1>3, <1>4, <1>5, <1>6, <1>7, <1>8

\* Inside, the others are not.
LEMMA OthersOutside ==
  ASSUME SetupInv, NEW c \in Commands, pc[c] \in Holding
  PROVE  \A d \in Commands \ {c} : pc[d] \notin Holding
BY DEF SetupInv, SetupExclusive

LEMMA SetupInvTakeLock ==
  ASSUME SetupInv, NEW c \in Commands, TakeSetupLock(c)
  PROVE  SetupInv'
<1> USE DEF TakeSetupLock
<1>1. CASE setupLock # None
  BY <1>1, OutsideStep DEF Labels, Ended, Holding, Working, files
<1>2. CASE setupLock = None
  <2> USE DEF Goto, files, history
  <2>0. \A d \in Commands : pc'[d] \in Holding => d = c
    BY <1>2 DEF SetupInv, SetupTyped, SetupExclusive, None, Holding, Working
  <2>1. SetupTyped'
    BY <1>2 DEF SetupInv, SetupTyped, Labels, Working
  <2>2. SetupExclusive'
    BY <1>2, <2>0 DEF SetupInv, SetupTyped, SetupExclusive, Holding, Working
  <2>3. NothingNewer'
    BY <1>2 DEF SetupInv, SetupTyped, NothingNewer
  <2>4. NodeInv'
    BY <1>2, <2>0 DEF SetupInv, SetupTyped, NodeInv, NodeRecorded, NodeDependenciesInstalled,
       NodeCurrent, Holding, Working
  <2>5. BuildInv'
    BY <1>2, <2>0 DEF SetupInv, SetupTyped, BuildInv, BuildCurrent, BuiltFrom, NeverLeft, Steady, Hashed,
     Holding, Working
  <2>6. ModelsInv'
    BY <1>2, <2>0 DEF SetupInv, SetupTyped, ModelsInv, Verified, Holding, Working
  <2>7. PlanInv'
    BY <1>2, <2>0 DEF SetupInv, SetupTyped, PlanInv, Planned, NeverLeft, Hashed, Holding, Working
  <2> QED
    BY <2>1, <2>2, <2>3, <2>4, <2>5, <2>6, <2>7 DEF SetupInv
<1> QED
  BY <1>1, <1>2

LEMMA SetupInvPlan ==
  ASSUME SetupInv, NEW c \in Commands, Plan(c)
  PROVE  SetupInv'
<1> USE DEF Plan, Goto, files, history
<1>0. \A d \in Commands : pc'[d] \in Holding => d = c
  BY OthersOutside DEF SetupInv, SetupTyped, SetupExclusive, Holding, Working
<1>1. SetupTyped'
  <2>1. Hashed(sources) \in Fingerprints
    BY DEF SetupInv, SetupTyped, Hashed, Checkouts, Fingerprints
  <2> QED
    BY <2>1 DEF SetupInv, SetupTyped, Labels, Working
<1>2. SetupExclusive'
  BY <1>0 DEF SetupInv, SetupTyped, SetupExclusive, Holding, Working
<1>3. NothingNewer'
  BY DEF SetupInv, SetupTyped, NothingNewer, NoNewer, Hashed
<1>4. NodeInv'
  BY <1>0 DEF SetupInv, SetupTyped, NodeInv, NodeRecorded, NodeDependenciesInstalled, NodeCurrent,
     Holding, Working
<1>5. BuildInv'
  BY <1>0 DEF SetupInv, SetupTyped, BuildInv, BuildCurrent, BuiltFrom, NeverLeft, Steady, Hashed,
     Holding, Working
<1>6. ModelsInv'
  BY <1>0 DEF SetupInv, SetupTyped, ModelsInv, Verified, Holding, Working
<1>7. PlanInv'
  BY <1>0 DEF SetupInv, SetupTyped, PlanInv, Planned, NeverLeft, Hashed, Holding, Working
<1> QED
  BY <1>1, <1>2, <1>3, <1>4, <1>5, <1>6, <1>7 DEF SetupInv

LEMMA SetupInvInstall ==
  ASSUME SetupInv, NEW c \in Commands, InstallBegins(c) \/ InstallEnds(c) \/ Relink(c)
  PROVE  SetupInv'
<1> USE DEF InstallBegins, InstallEnds, Relink, AfterNode, Goto, files, history
<1>0. \A d \in Commands : pc'[d] \in Holding => d = c
  BY OthersOutside DEF SetupInv, SetupTyped, SetupExclusive, Holding, Working
<1>1. SetupTyped'
  <2>1. InstalledFrom \subseteq SUBSET Nat /\ Mixed \in SUBSET Nat /\ Parts \ {"bins"} \subseteq Parts
    BY DEF SetupInv, SetupTyped, Checkouts, Mixed, InstalledFrom
  <2>2. nodeModules' \in [parts : SUBSET Parts, from : SUBSET Nat]
    BY <2>1 DEF SetupInv, SetupTyped
  <2> QED
    BY <2>2 DEF SetupInv, SetupTyped, Labels, Working
<1>2. SetupExclusive'
  BY <1>0 DEF SetupInv, SetupTyped, SetupExclusive, Holding, Working
<1>3. NothingNewer'
  BY DEF SetupInv, SetupTyped, NothingNewer
<1>4. NodeInv'
  <2>1. /\ "deps" \notin changed => InstalledFrom = {{sources.deps}}
        /\ "deps" \in changed => "deps" \in back \/ setupState.node # {sources.deps}
    BY DEF InstalledFrom, SetupInv, PlanInv, Planned, Holding, Working
  <2>2. CASE InstallBegins(c)
    BY <1>0, <2>2 DEF SetupInv, SetupTyped, NodeInv, NodeRecorded, NodeDependenciesInstalled, NodeCurrent,
       Holding, Working
  <2>3. CASE InstallEnds(c) \/ Relink(c)
    <3>1. PICK from \in InstalledFrom, parts \in SUBSET Parts : nodeModules' = [parts |-> parts, from |-> from]
      BY <2>3
    <3>2. "node" \in unsure /\ unsure' = unsure /\ pc'[c] \in {"relink", "recordNode"}
      BY <2>3 DEF SetupInv, SetupTyped, NodeInv
    <3>3. "deps" \notin changed => nodeModules'.from = {sources.deps}
      BY <2>1, <3>1
    <3>4. setupState' = setupState /\ sources' = sources /\ back' = back /\ changed' = changed
      BY <2>3
    <3> QED
      BY <1>0, <2>1, <3>2, <3>3, <3>4 DEF NodeInv, NodeRecorded, NodeCurrent, Holding, Working
  <2> QED
    BY <2>2, <2>3
<1>5. BuildInv'
  BY <1>0 DEF SetupInv, SetupTyped, BuildInv, BuildCurrent, BuiltFrom, NeverLeft, Steady, Hashed,
     Holding, Working
<1>6. ModelsInv'
  BY <1>0 DEF SetupInv, SetupTyped, ModelsInv, Verified, Holding, Working
<1>7. PlanInv'
  BY <1>0 DEF SetupInv, SetupTyped, PlanInv, Planned, NeverLeft, Hashed, Holding, Working
<1> QED
  BY <1>1, <1>2, <1>3, <1>4, <1>5, <1>6, <1>7 DEF SetupInv

LEMMA SetupInvRecordNode ==
  ASSUME SetupInv, NEW c \in Commands, RecordNode(c)
  PROVE  SetupInv'
<1> USE DEF RecordNode, AfterNode, Goto, files, history
<1>0. \A d \in Commands : pc'[d] \in Holding => d = c
  BY OthersOutside DEF SetupInv, SetupTyped, SetupExclusive, Holding, Working
<1>1. SetupTyped'
  <2>1. plan.deps \in Nat
    BY DEF SetupInv, SetupTyped, Fingerprints
  <2>2. setupState' \in [node : SUBSET Nat, webBuild : SUBSET Fingerprints]
    BY <2>1 DEF SetupInv, SetupTyped
  <2> QED
    BY <2>2 DEF SetupInv, SetupTyped, Labels, Working
<1>2. SetupExclusive'
  BY <1>0 DEF SetupInv, SetupTyped, SetupExclusive, Holding, Working
<1>3. NothingNewer'
  BY DEF SetupInv, SetupTyped, NothingNewer, NoNewer
<1>4. NodeInv'
  <2>1. setupState'.node = {plan.deps} /\ nodeModules' = nodeModules /\ sources' = sources
    BY DEF SetupInv, SetupTyped
  <2>2. /\ "deps" \notin changed => plan.deps = sources.deps
        /\ "deps" \in changed => "deps" \in back \/ plan.deps # sources.deps
    BY DEF SetupInv, PlanInv, Planned, Holding, Working
  <2>3. "deps" \notin changed /\ NodeDependenciesInstalled => nodeModules.from = {sources.deps}
    BY DEF SetupInv, NodeInv
  <2>4. "node" \in unsure /\ pc'[c] = "verify"
    BY DEF SetupInv, SetupTyped, NodeInv
  <2>5. "deps" \notin back' /\ NodeRecorded' => nodeModules'.from = {sources'.deps}
    BY <2>1, <2>2, <2>3 DEF NodeRecorded, NodeDependenciesInstalled, NodeCurrent
  <2>6. "node" \notin unsure' /\ NodeDependenciesInstalled' => nodeModules'.from = setupState'.node
    BY <2>1, <2>2, <2>3, <2>4 DEF NodeDependenciesInstalled
  <2> QED
    BY <1>0, <2>4, <2>5, <2>6 DEF NodeInv, Holding, Working
<1>5. BuildInv'
  BY <1>0 DEF SetupInv, SetupTyped, BuildInv, BuildCurrent, BuiltFrom, NeverLeft, Steady, Hashed,
     Holding, Working
<1>6. ModelsInv'
  BY <1>0 DEF SetupInv, SetupTyped, ModelsInv, Verified, Holding, Working
<1>7. PlanInv'
  BY <1>0 DEF SetupInv, SetupTyped, PlanInv, Planned, NeverLeft, Hashed, Holding, Working
<1> QED
  BY <1>1, <1>2, <1>3, <1>4, <1>5, <1>6, <1>7 DEF SetupInv

LEMMA SetupInvVerify ==
  ASSUME SetupInv, NEW c \in Commands, VerifyModels(c) \/ Download(c) \/ CheckDownload(c)
  PROVE  SetupInv'
<1> USE DEF VerifyModels, Download, CheckDownload, Models, Goto, files, history
<1>0. \A d \in Commands : pc'[d] \in Holding => d = c
  BY OthersOutside DEF SetupInv, SetupTyped, SetupExclusive, Holding, Working
<1>1. SetupTyped'
  <2>1. \A tree \in Trees : At(tree) \in Places
    BY DEF At, Places
  <2>2. NoTree \in Trees
    BY DEF NoTree, Trees
  <2>3. staging' \in [Commands -> Places]
    BY <2>1, <2>2 DEF SetupInv, SetupTyped
  <2>4. pc' \in [Commands -> Labels]
    BY DEF SetupInv, SetupTyped, Labels, Working
  <2> QED
    BY ZenonT(40), <2>3, <2>4 DEF SetupInv, SetupTyped
<1>2. SetupExclusive'
  BY <1>0 DEF SetupInv, SetupTyped, SetupExclusive, Holding, Working
<1>3. NothingNewer'
  BY DEF SetupInv, SetupTyped, NothingNewer
<1>4. NodeInv'
  BY <1>0 DEF SetupInv, SetupTyped, NodeInv, NodeRecorded, NodeDependenciesInstalled, NodeCurrent,
     Holding, Working
<1>5. BuildInv'
  BY <1>0 DEF SetupInv, SetupTyped, BuildInv, BuildCurrent, BuiltFrom, NeverLeft, Steady, Hashed,
     Holding, Working
<1>6. ModelsInv'
  BY <1>0 DEF SetupInv, SetupTyped, ModelsInv, Verified, At, Holding, Working
<1>7. PlanInv'
  BY <1>0 DEF SetupInv, SetupTyped, PlanInv, Planned, NeverLeft, Hashed, Holding, Working
<1> QED
  BY <1>1, <1>2, <1>3, <1>4, <1>5, <1>6, <1>7 DEF SetupInv

LEMMA SetupInvSwap ==
  ASSUME SetupInv, NEW c \in Commands, MoveOld(c) \/ MoveNew(c)
  PROVE  SetupInv'
<1> USE DEF MoveOld, MoveNew, Models, Goto, files, history
<1>0. \A d \in Commands : pc'[d] \in Holding => d = c
  BY OthersOutside DEF SetupInv, SetupTyped, SetupExclusive, Holding, Working
<1>1. SetupTyped'
  <2>1. models' \in Places /\ retained' \in Places /\ staging' \in [Commands -> Places]
    BY NowhereIsAPlace DEF SetupInv, SetupTyped
  <2>4. pc' \in [Commands -> Labels]
    BY DEF SetupInv, SetupTyped, Labels, Working
  <2> QED
    BY ZenonT(40), <2>1, <2>4 DEF SetupInv, SetupTyped
<1>2. SetupExclusive'
  BY <1>0 DEF SetupInv, SetupTyped, SetupExclusive, Holding, Working
<1>3. NothingNewer'
  BY DEF SetupInv, SetupTyped, NothingNewer
<1>4. NodeInv'
  BY <1>0 DEF SetupInv, SetupTyped, NodeInv, NodeRecorded, NodeDependenciesInstalled, NodeCurrent,
     Holding, Working
<1>5. BuildInv'
  BY <1>0 DEF SetupInv, SetupTyped, BuildInv, BuildCurrent, BuiltFrom, NeverLeft, Steady, Hashed,
     Holding, Working
<1>6. ModelsInv'
  <2>1. CASE MoveOld(c)
    BY <1>0, <2>1, NowhereIsAPlace DEF SetupInv, SetupTyped, ModelsInv, Verified, Holding, Working
  <2>2. CASE MoveNew(c)
    <3>1. Verified(staging[c]) /\ staging[c].there /\ (~ retained.there => retained = Nowhere)
      BY <2>2 DEF SetupInv, SetupTyped, ModelsInv, Verified, Holding, Working
    <3>2. models' = staging[c] /\ Verified(models)'
      BY <2>2 DEF SetupInv, SetupTyped, ModelsInv, Verified, Holding, Working
    <3> QED
      BY <1>0, <2>2, <3>1, <3>2, NowhereIsAPlace DEF SetupInv, SetupTyped, ModelsInv, Verified,
         Holding, Working
  <2> QED
    BY <2>1, <2>2
<1>7. PlanInv'
  BY <1>0 DEF SetupInv, SetupTyped, PlanInv, Planned, NeverLeft, Hashed, Holding, Working
<1> QED
  BY <1>1, <1>2, <1>3, <1>4, <1>5, <1>6, <1>7 DEF SetupInv

LEMMA SetupInvBuild ==
  ASSUME SetupInv, NEW c \in Commands, RecordModels(c) \/ BuildBegins(c) \/ BuildEnds(c)
  PROVE  SetupInv'
<1> USE DEF RecordModels, BuildBegins, BuildEnds, Built, Goto, files, history
<1>0. \A d \in Commands : pc'[d] \in Holding => d = c
  BY OthersOutside DEF SetupInv, SetupTyped, SetupExclusive, Holding, Working
<1>1. SetupTyped'
  <2>1. webBuild.id \in BOOLEAN /\ Mixed \in SUBSET Checkouts /\ {sources} \in SUBSET Checkouts
    BY DEF SetupInv, SetupTyped, Mixed
  <2>2. \/ webBuild' = webBuild
        \/ \E id \in BOOLEAN, from \in SUBSET Checkouts : webBuild' = [id |-> id, from |-> from]
    BY <2>1
  <2>3. webBuild' \in [id : BOOLEAN, from : SUBSET Checkouts]
    BY <2>2 DEF SetupInv, SetupTyped
  <2>4. pc' \in [Commands -> Labels]
    BY DEF SetupInv, SetupTyped, Labels, Working
  <2> QED
    BY ZenonT(40), <2>3, <2>4 DEF SetupInv, SetupTyped
<1>2. SetupExclusive'
  BY <1>0 DEF SetupInv, SetupTyped, SetupExclusive, Holding, Working
<1>3. NothingNewer'
  BY DEF SetupInv, SetupTyped, NothingNewer
<1>4. NodeInv'
  BY <1>0 DEF SetupInv, SetupTyped, NodeInv, NodeRecorded, NodeDependenciesInstalled, NodeCurrent,
     Holding, Working
<1>5. BuildInv'
  <2>1. /\ NeverLeft /\ setupState.webBuild = {Hashed(sources)} => plan = Hashed(sources)
        /\ NeverLeft /\ plan = Hashed(sources) => Steady
        /\ Steady => plan = Hashed(sources)
    BY DEF SetupInv, SetupTyped, PlanInv, Planned, NeverLeft, Steady, Hashed, Fingerprints, Holding, Working
  <2>2. CASE RecordModels(c)
    <3>1. UNCHANGED <<webBuild, setupState, sources, plan, history>> /\ pc'[c] \in {"status", "build"}
      BY <2>2 DEF SetupInv, SetupTyped
    <3>2. pc'[c] = "build" => ~ BuildCurrent(plan)
      BY <2>2 DEF SetupInv, SetupTyped
    <3> QED
      BY <1>0, <2>1, <3>1, <3>2 DEF SetupInv, BuildInv, BuildCurrent, BuiltFrom, NeverLeft, Steady, Hashed,
         Holding, Working
  <2>3. CASE BuildBegins(c)
    BY <1>0, <2>3 DEF SetupInv, SetupTyped, BuildInv, BuildCurrent, NeverLeft, Steady, Hashed, Holding, Working
  <2>4. CASE BuildEnds(c)
    <3>1. UNCHANGED <<setupState, sources, plan, history>> /\ pc'[c] = "recordBuild" /\ "build" \in unsure
      BY <2>4 DEF SetupInv, SetupTyped, BuildInv
    <3>2. Steady => webBuild'.from = {sources}
      BY <2>4 DEF Steady, HashedParts
    <3>3. Steady => BuiltFrom' = {Hashed(sources)}
      BY <3>2 DEF BuiltFrom
    <3>4. NeverLeft' = NeverLeft /\ Steady' = Steady /\ Hashed(sources)' = Hashed(sources)
      BY <3>1 DEF NeverLeft, Steady, Hashed
    <3> QED
      BY <1>0, <2>1, <3>1, <3>3, <3>4 DEF BuildInv, BuildCurrent, Holding, Working
  <2> QED
    BY <2>2, <2>3, <2>4
<1>6. ModelsInv'
  BY <1>0 DEF SetupInv, SetupTyped, ModelsInv, Verified, Holding, Working
<1>7. PlanInv'
  BY <1>0 DEF SetupInv, SetupTyped, PlanInv, Planned, NeverLeft, Hashed, Holding, Working
<1> QED
  BY <1>1, <1>2, <1>3, <1>4, <1>5, <1>6, <1>7 DEF SetupInv

LEMMA SetupInvRecordBuild ==
  ASSUME SetupInv, NEW c \in Commands, RecordBuild(c)
  PROVE  SetupInv'
<1> USE DEF RecordBuild, Built, Goto, files, history
<1>0. \A d \in Commands : pc'[d] \in Holding => d = c
  BY OthersOutside DEF SetupInv, SetupTyped, SetupExclusive, Holding, Working
<1>1. SetupTyped'
  BY DEF SetupInv, SetupTyped, Labels, Working
<1>2. SetupExclusive'
  BY <1>0 DEF SetupInv, SetupTyped, SetupExclusive, Holding, Working
<1>3. NothingNewer'
  BY DEF SetupInv, SetupTyped, NothingNewer
<1>4. NodeInv'
  BY <1>0 DEF SetupInv, SetupTyped, NodeInv, NodeRecorded, NodeDependenciesInstalled, NodeCurrent,
     Holding, Working
<1>5. BuildInv'
  <2>1. /\ NeverLeft /\ plan = Hashed(sources) => Steady
        /\ Steady => plan = Hashed(sources)
    BY DEF SetupInv, SetupTyped, PlanInv, Planned, NeverLeft, Steady, Hashed, Fingerprints, Holding, Working
  <2>2. (Steady => BuiltFrom = {plan}) /\ "build" \in unsure
    BY DEF SetupInv, BuildInv
  <2>3. setupState'.webBuild = {plan} /\ pc'[c] = "status" /\ UNCHANGED <<webBuild, sources, plan, back, changed>>
    BY DEF SetupInv, SetupTyped
  <2>4. ~ Steady => "build" \in unsure'
    BY <2>2 DEF Steady, HashedParts
  <2>5. /\ NeverLeft' = NeverLeft /\ Hashed(sources)' = Hashed(sources)
        /\ BuiltFrom' = BuiltFrom
    BY <2>3 DEF NeverLeft, Hashed, BuiltFrom
  <2> QED
    BY <1>0, <2>1, <2>2, <2>3, <2>4, <2>5 DEF BuildInv, BuildCurrent, Holding, Working
<1>6. ModelsInv'
  BY <1>0 DEF SetupInv, SetupTyped, ModelsInv, Verified, Holding, Working
<1>7. PlanInv'
  BY <1>0 DEF SetupInv, SetupTyped, PlanInv, Planned, NeverLeft, Hashed, Holding, Working
<1> QED
  BY <1>1, <1>2, <1>3, <1>4, <1>5, <1>6, <1>7 DEF SetupInv

\* The finally clauses of a command that fails: its download goes, and a tree it
\* had moved away comes back.
LEMMA SetupInvFails ==
  ASSUME SetupInv, NEW c \in Commands, SetupFails(c)
  PROVE  SetupInv'
<1> USE DEF SetupFails, Unlock, Goto, history
<1>0. \A d \in Commands : pc'[d] \in Holding => d # c /\ pc'[d] = pc[d] /\ staging'[d] = staging[d]
  BY DEF SetupInv, SetupTyped, Holding, Working
<1>1. SetupTyped'
  <2>1. models' \in Places /\ retained' \in Places /\ staging' \in [Commands -> Places]
    BY NowhereIsAPlace DEF SetupInv, SetupTyped
  <2> QED
    BY <2>1 DEF SetupInv, SetupTyped, Labels, Ended
<1>2. SetupExclusive'
  BY <1>0 DEF SetupInv, SetupExclusive
<1>3. NothingNewer'
  BY DEF SetupInv, NothingNewer
<1>4. NodeInv'
  BY <1>0 DEF SetupInv, SetupTyped, NodeInv, NodeRecorded, NodeDependenciesInstalled, NodeCurrent,
     Holding, Working
<1>5. BuildInv'
  BY <1>0 DEF SetupInv, SetupTyped, BuildInv, BuildCurrent, BuiltFrom, NeverLeft, Steady, Hashed,
     Holding, Working
<1>6. ModelsInv'
  <2>1. CASE pc[c] = "swapIn"
    <3>1. \A d \in Commands : pc'[d] \notin Holding
      BY <1>0, <2>1, OthersOutside DEF Holding, Working
    <3>2. (~ retained.there => retained = Nowhere) /\ models' = retained /\ retained' = Nowhere
      BY <2>1 DEF SetupInv, SetupTyped, ModelsInv, Verified, Holding, Working
    <3> QED
      BY <3>1, <3>2, NowhereIsAPlace DEF SetupInv, SetupTyped, ModelsInv, Verified, Holding, Working
  <2>2. CASE pc[c] # "swapIn"
    BY <1>0, <2>2 DEF SetupInv, SetupTyped, ModelsInv, Verified, Holding, Working
  <2> QED
    BY <2>1, <2>2
<1>7. PlanInv'
  BY <1>0 DEF SetupInv, SetupTyped, PlanInv, Planned, NeverLeft, Hashed, Holding, Working
<1> QED
  BY <1>1, <1>2, <1>3, <1>4, <1>5, <1>6, <1>7 DEF SetupInv

\* An edit leaves a part alone, puts a content back, or makes one nobody has
\* planned, recorded or built.
Untouched(part) ==
  /\ sources'[part] = sources[part] /\ (part \in back' <=> part \in back)
  /\ (part \in changed' <=> part \in changed)
Touched(part) ==
  /\ part \in back' \/ sources'[part] > newest[part]
  /\ part \in changed' \/ setupLock = None
LEMMA EditIsNew ==
  ASSUME SetupInv, Edit
  PROVE  /\ sources' \in Checkouts /\ newest' \in Checkouts
         /\ NoNewer(newest, newest') /\ NoNewer(sources', newest')
         /\ Untouched("deps") \/ Touched("deps")
         /\ Untouched("tree") \/ Touched("tree")
<1>1. sources \in Checkouts /\ newest \in Checkouts /\ NoNewer(sources, newest)
  BY DEF SetupInv, SetupTyped, NothingNewer
<1>2. PICK part \in {"deps", "tree", "proxy"}, content \in 0 .. MaxEdits :
        /\ sources' = [sources EXCEPT ![part] = content]
        /\ changed' = IF setupLock = None THEN changed ELSE changed \cup {part}
        /\ IF content <= newest[part]
           THEN back' = back \cup {part} /\ newest' = newest
           ELSE back' = back \ {part} /\ newest' = [newest EXCEPT ![part] = content]
  BY ZenonT(40) DEF Edit
<1>3. CASE part = "deps"
  BY <1>1, <1>2, <1>3 DEF Checkouts, NoNewer, Untouched, Touched
<1>4. CASE part = "tree"
  BY <1>1, <1>2, <1>4 DEF Checkouts, NoNewer, Untouched, Touched
<1>5. CASE part = "proxy"
  BY <1>1, <1>2, <1>5 DEF Checkouts, NoNewer, Untouched, Touched
<1> QED
  BY <1>2, <1>3, <1>4, <1>5

LEMMA SetupInvEdit == SetupInv /\ Edit => SetupInv'
<1> SUFFICES ASSUME SetupInv, Edit PROVE SetupInv'
  OBVIOUS
<1> USE EditIsNew DEF files
<1>1. UNCHANGED <<files, setupLock, plan, pc, unsure>>
  BY DEF Edit
<1>2. SetupTyped'
  <2>1. edits' \in 0 .. MaxEdits
    BY DEF SetupInv, SetupTyped, Edit, UserStep
  <2>2. back' \subseteq {"deps", "tree", "proxy"} /\ changed' \subseteq {"deps", "tree", "proxy"}
    BY DEF SetupInv, SetupTyped, Edit
  <2> QED
    BY <1>1, <2>1, <2>2 DEF SetupInv, SetupTyped
<1>3. SetupExclusive' /\ ModelsInv'
  BY <1>1 DEF SetupInv, SetupExclusive, ModelsInv, Verified
<1>4. NothingNewer'
  BY <1>1 DEF SetupInv, SetupTyped, NothingNewer, NoNewer, Checkouts, Fingerprints
<1>5. \A c \in Commands : pc[c] \in Holding => setupLock # None
  BY DEF SetupInv, SetupExclusive, None
<1>6. \A d \in setupState.node : Touched("deps") => d # sources'.deps \/ "deps" \in back'
  BY DEF SetupInv, SetupTyped, NothingNewer, Checkouts, Touched
<1>7. ASSUME NeverLeft', Touched("deps") \/ Touched("tree")
      PROVE  setupState.webBuild # {Hashed(sources')} /\ plan # Hashed(sources')
  <2>1. sources'.deps > newest.deps \/ sources'.tree > newest.tree
    BY <1>7 DEF NeverLeft, Touched
  <2>2. ~ NoNewer(Hashed(sources'), newest)
    BY <2>1 DEF SetupInv, SetupTyped, NoNewer, Hashed, Checkouts
  <2> QED
    BY <2>2 DEF SetupInv, NothingNewer
<1>8. ASSUME Untouched("deps"), Untouched("tree") PROVE PlanInv' /\ BuildInv'
  <2>1. /\ NeverLeft' = NeverLeft /\ Steady' = Steady /\ Hashed(sources') = Hashed(sources)
        /\ sources'.deps = sources.deps /\ sources'.tree = sources.tree
        /\ ("deps" \in back' <=> "deps" \in back) /\ ("tree" \in back' <=> "tree" \in back)
        /\ ("deps" \in changed' <=> "deps" \in changed) /\ ("tree" \in changed' <=> "tree" \in changed)
    BY <1>8 DEF NeverLeft, Steady, Hashed, Untouched
  <2>2. PlanInv'
    BY <1>1, <2>1 DEF SetupInv, PlanInv, Planned
  <2>3. BuildInv'
    BY <1>1, <2>1 DEF SetupInv, BuildInv, BuildCurrent, BuiltFrom
  <2> QED
    BY <2>2, <2>3
<1>9. ASSUME Touched("deps") \/ Touched("tree") PROVE PlanInv' /\ BuildInv'
  <2>1. PlanInv'
    <3> SUFFICES ASSUME NEW c \in Commands, Planned(c)
                 PROVE  /\ IF "deps" \in changed'
                           THEN "deps" \in back' \/ (plan.deps # sources'.deps /\ setupState.node # {sources'.deps})
                           ELSE plan.deps = sources'.deps
                        /\ IF "tree" \in changed' THEN "tree" \in back' \/ plan.tree # sources'.tree
                                                 ELSE plan.tree = sources'.tree
      BY <1>1, <1>7, <1>9 DEF PlanInv, Planned
    <3>1. setupLock # None
      BY <1>5 DEF Planned
    <3>2. /\ IF "deps" \in changed
             THEN "deps" \in back \/ (plan.deps # sources.deps /\ setupState.node # {sources.deps})
             ELSE plan.deps = sources.deps
          /\ IF "tree" \in changed THEN "tree" \in back \/ plan.tree # sources.tree
                                  ELSE plan.tree = sources.tree
      BY DEF SetupInv, PlanInv
    <3>3. plan \in Fingerprints /\ newest \in Checkouts /\ NoNewer(plan, newest)
      BY DEF SetupInv, SetupTyped, NothingNewer
    <3> QED
      BY <1>6, <3>1, <3>2, <3>3 DEF Untouched, Touched, NoNewer, Checkouts, Fingerprints
  <2>2. NeverLeft' => ~ BuildCurrent(Hashed(sources))'
    BY <1>1, <1>7, <1>9 DEF BuildCurrent
  <2>3. \A c \in Commands : pc[c] = "recordBuild" /\ Steady' => BuiltFrom = {plan}
    BY <1>5, <1>9 DEF SetupInv, BuildInv, Steady, Touched, Untouched, Holding, Working
  <2>4. BuildInv'
    BY <1>1, <2>2, <2>3 DEF SetupInv, BuildInv, BuiltFrom
  <2> QED
    BY <2>1, <2>4
<1>10. NodeInv'
  BY <1>1, <1>5, <1>6 DEF SetupInv, NodeInv, NodeRecorded, NodeDependenciesInstalled, NodeCurrent,
     Untouched, Touched, Holding, Working
<1> QED
  BY <1>2, <1>3, <1>4, <1>8, <1>9, <1>10 DEF SetupInv

LEMMA SetupInvRemoveModules == SetupInv /\ RemoveModules => SetupInv'
<1> SUFFICES ASSUME SetupInv, RemoveModules PROVE SetupInv'
  OBVIOUS
<1> USE DEF RemoveModules, UserStep
<1>1. SetupTyped'
  BY DEF SetupInv, SetupTyped
<1>2. ~ NodeDependenciesInstalled'
  BY DEF NodeDependenciesInstalled, Parts
<1>3. NodeInv'
  BY <1>2 DEF SetupInv, NodeInv, NodeRecorded
<1>4. PlanInv' /\ BuildInv'
  BY DEF SetupInv, PlanInv, Planned, BuildInv, BuildCurrent, BuiltFrom, NeverLeft, Steady, Hashed
<1> QED
  BY <1>1, <1>3, <1>4 DEF SetupInv, SetupExclusive, NothingNewer, ModelsInv, Verified

-------------------------------------------------------------------------------
(* What a launcher has started. *)

\* Where a command stands before it starts a service, or after it stopped it.
Without(s) ==
  Working \cup {"probe", "probed", "status", "lock", "ports", "spawnMcp",
  "clear"} \cup (Ended \ {"killed"})
  \cup (IF s = "web" THEN {"waitMcp", "spawnWeb", "stopMcp"} ELSE {})
ServicesInv ==
  \A c \in Commands, s \in Services :
    /\ port[s] = c => service[c][s] = "up"
    /\ pc[c] \in Without(s) => service[c][s] \notin Alive

AnnouncedInv ==
  \A c \in Commands : announced = c => pc[c] \in {"monitor", "stopWeb", "stopMcp", "clear", "killed"}

\* Whoever probes or supervises holds papertrans.lock: one at a time.
SupervisorInv == \A c \in Commands : pc[c] \in Supervising \cup {"probed"} => runtimeLock = c

RuntimeInv == RuntimeTyped /\ ServicesInv /\ AnnouncedInv /\ SupervisorInv
Inv == SetupInv /\ RuntimeInv

LEMMA RuntimeInvInit == Init => RuntimeInv
BY DEF Init, RuntimeInv, RuntimeTyped, ServicesInv, AnnouncedInv, SupervisorInv, Supervising,
   Working, Alive, Ended,
       None, Services

\* Setup and the checkout do not touch the services.
LEMMA RuntimeInvSetup ==
  ASSUME Inv, NEW c \in Commands, SetupStep(c) \/ SetupFails(c), UNCHANGED runtimeVars
  PROVE  RuntimeInv'
<1>1. PICK l \in Working \cup {"status", "failed"} : pc' = [pc EXCEPT ![c] = l]
  BY DEF SetupStep, SetupFails, TakeSetupLock, Plan, InstallBegins, InstallEnds, Relink,
     RecordNode, VerifyModels,
         Download, CheckDownload, MoveOld, MoveNew, RecordModels, BuildBegins, BuildEnds,
         RecordBuild,
         Goto, AfterNode, Models, Built, Working
<1>2. pc[c] \in Working
  BY DEF SetupStep, SetupFails, TakeSetupLock, Plan, InstallBegins, InstallEnds, Relink,
     RecordNode, VerifyModels,
         Download, CheckDownload, MoveOld, MoveNew, RecordModels, BuildBegins, BuildEnds,
         RecordBuild, Working
<1>3. pc \in [Commands -> Labels] /\ RuntimeInv
  BY DEF Inv, SetupInv, SetupTyped
<1> USE <1>1, <1>2, <1>3 DEF runtimeVars
<1>4. RuntimeTyped'
  BY DEF RuntimeInv, RuntimeTyped
<1>5. ServicesInv'
  BY DEF RuntimeInv, ServicesInv, Without, Ended
<1>6. AnnouncedInv'
  BY DEF RuntimeInv, AnnouncedInv, Working
<1>7. SupervisorInv'
  BY DEF RuntimeInv, SupervisorInv, Working, Supervising
<1> QED
  BY <1>4, <1>5, <1>6, <1>7 DEF RuntimeInv

LEMMA RuntimeInvEdit == Inv /\ (Edit \/ RemoveModules) /\ UNCHANGED runtimeVars => RuntimeInv'
BY DEF Inv, RuntimeInv, RuntimeTyped, ServicesInv, AnnouncedInv, SupervisorInv, Edit,
   RemoveModules, runtimeVars

\* A step that goes on to `next`, from a place that allows it.
LEMMA RuntimeInvLock ==
  ASSUME Inv, NEW c \in Commands,
         Probe(c) \/ ProbeReleased(c) \/ Status(c) \/ TakeRuntimeLock(c) \/ CheckPorts(c)
  PROVE  RuntimeInv'
<1> USE DEF Probe, ProbeReleased, Status, TakeRuntimeLock, CheckPorts, Runtime, Goto
<1>0. pc \in [Commands -> Labels] /\ RuntimeInv
  BY DEF Inv, SetupInv, SetupTyped
<1>1. RuntimeTyped'
  BY <1>0 DEF RuntimeInv, RuntimeTyped
<1>2. pc[c] \in {"probe", "probed", "status", "lock", "ports"}
  OBVIOUS
<1>3. PICK l \in {"probed", "refused", "setup", "failed", "lock", "done", "ports", "spawnMcp"} :
        pc' = [pc EXCEPT ![c] = l]
  OBVIOUS
<1>4. ServicesInv'
  BY <1>0, <1>2, <1>3 DEF RuntimeInv, ServicesInv, Without, Ended, Working
<1>5. AnnouncedInv'
  BY <1>0, <1>2, <1>3 DEF RuntimeInv, AnnouncedInv
<1>6. SupervisorInv'
  BY <1>0 DEF RuntimeInv, RuntimeTyped, SupervisorInv, Supervising, None
<1> QED
  BY <1>1, <1>4, <1>5, <1>6 DEF RuntimeInv

LEMMA RuntimeInvSpawn ==
  ASSUME Inv, NEW c \in Commands, Spawn(c)
  PROVE  RuntimeInv'
<1>0. pc \in [Commands -> Labels] /\ RuntimeInv
  BY DEF Inv, SetupInv, SetupTyped
<1>1. SUFFICES ASSUME NEW s \in Services, NEW here, NEW next, SpawnStep(c, s, here, next),
                      \/ s = "mcp" /\ here = "spawnMcp" /\ next = "waitMcp"
                      \/ s = "web" /\ here = "spawnWeb" /\ next = "waitWeb"
               PROVE  RuntimeInv'
  BY DEF Spawn, Services
<1> USE <1>0, <1>1 DEF Runtime, Goto
<1>2. CASE service' = [service EXCEPT ![c][s] = "starting"] /\ outcome' = outcome /\ Runtime(c, next)
  <2> USE <1>2 DEF SpawnStep
  <2>1. RuntimeTyped'
    BY DEF RuntimeInv, RuntimeTyped, Alive
  <2>2. ServicesInv'
    BY DEF RuntimeInv, RuntimeTyped, ServicesInv, Without, Ended, Working, Alive, Services
  <2>3. AnnouncedInv'
    BY DEF RuntimeInv, AnnouncedInv
  <2>4. SupervisorInv'
    BY DEF RuntimeInv, SupervisorInv, Supervising
  <2> QED
    BY <2>1, <2>2, <2>3, <2>4 DEF RuntimeInv
<1>3. CASE service' = service /\ GiveUp(c, "failed")
  <2> USE <1>3 DEF SpawnStep, GiveUp
  <2>1. RuntimeTyped'
    <3>1. outcome' \in [Commands -> Ended]
      BY DEF RuntimeInv, RuntimeTyped, Ended
    <3> QED
      BY <3>1 DEF RuntimeInv, RuntimeTyped
  <2>2. ServicesInv'
    BY DEF RuntimeInv, RuntimeTyped, ServicesInv, Without, Ended, Working, Services
  <2>3. AnnouncedInv'
    BY DEF RuntimeInv, AnnouncedInv
  <2>4. SupervisorInv'
    BY DEF RuntimeInv, SupervisorInv, Supervising
  <2> QED
    BY <2>1, <2>2, <2>3, <2>4 DEF RuntimeInv
<1> QED
  BY <1>2, <1>3 DEF SpawnStep

LEMMA RuntimeInvWait ==
  ASSUME Inv, NEW c \in Commands, Wait(c) \/ Monitor(c) \/ Announce(c)
  PROVE  RuntimeInv'
<1> USE DEF Wait, WaitStep, Monitor, Announce, GiveUp, Runtime, Goto
<1>0. pc \in [Commands -> Labels] /\ RuntimeInv
  BY DEF Inv, SetupInv, SetupTyped
<1>1. RuntimeTyped'
  <2>1. outcome' \in [Commands -> Ended]
    BY <1>0 DEF RuntimeInv, RuntimeTyped, Ended
  <2> QED
    BY <1>0, <2>1 DEF RuntimeInv, RuntimeTyped
<1>2. PICK l \in {"stopWeb", "spawnWeb", "announce", "monitor"} : pc' = [pc EXCEPT ![c] = l]
  OBVIOUS
<1>3. pc[c] \in {"waitMcp", "waitWeb", "monitor", "announce"} /\ (l = "spawnWeb" => pc[c] = "waitMcp")
  BY <1>0, <1>2
<1>4. ServicesInv'
  BY <1>0, <1>2, <1>3 DEF RuntimeInv, ServicesInv, Without, Ended, Working
<1>5. AnnouncedInv'
  BY <1>0 DEF RuntimeInv, AnnouncedInv
<1>6. SupervisorInv'
  BY <1>0 DEF RuntimeInv, SupervisorInv, Supervising
<1> QED
  BY <1>1, <1>4, <1>5, <1>6 DEF RuntimeInv

LEMMA RuntimeInvStop ==
  ASSUME Inv, NEW c \in Commands, StopWeb(c) \/ StopMcp(c)
  PROVE  RuntimeInv'
<1>0. pc \in [Commands -> Labels] /\ RuntimeInv
  BY DEF Inv, SetupInv, SetupTyped
<1>1. SUFFICES ASSUME NEW s \in Services, NEW here, NEW next, StopStep(c, s, here, next),
                      \/ s = "web" /\ here = "stopWeb" /\ next = "stopMcp"
                      \/ s = "mcp" /\ here = "stopMcp" /\ next = "clear"
               PROVE  RuntimeInv'
  BY DEF StopWeb, StopMcp, Services
<1> USE <1>0, <1>1 DEF StopStep, Runtime, Goto
<1>2. RuntimeTyped'
  BY DEF RuntimeInv, RuntimeTyped, Alive
<1>3. ServicesInv'
  BY DEF RuntimeInv, RuntimeTyped, ServicesInv, Without, Ended, Working, Alive, Services, None
<1>4. AnnouncedInv'
  BY DEF RuntimeInv, AnnouncedInv
<1>5. SupervisorInv'
  BY DEF RuntimeInv, SupervisorInv, Supervising
<1> QED
  BY <1>2, <1>3, <1>4, <1>5 DEF RuntimeInv

LEMMA RuntimeInvClear ==
  ASSUME Inv, NEW c \in Commands, Clear(c)
  PROVE  RuntimeInv'
<1> USE DEF Clear, Runtime, Goto
<1>0. pc \in [Commands -> Labels] /\ RuntimeInv /\ outcome[c] \in Ended
  BY DEF Inv, SetupInv, SetupTyped, RuntimeInv, RuntimeTyped
<1>1. RuntimeTyped'
  BY <1>0 DEF RuntimeInv, RuntimeTyped
<1>2. ServicesInv'
  BY <1>0 DEF RuntimeInv, ServicesInv, Without, Ended
<1>3. AnnouncedInv'
  BY <1>0 DEF RuntimeInv, AnnouncedInv, None
<1>4. SupervisorInv'
  BY <1>0 DEF RuntimeInv, SupervisorInv, Supervising, Ended
<1> QED
  BY <1>1, <1>2, <1>3, <1>4 DEF RuntimeInv

LEMMA RuntimeInvServices ==
  ASSUME Inv, NEW c \in Commands, NEW s \in Services, Listen(c, s) \/ ServiceEnds(c, s)
  PROVE  RuntimeInv'
<1> USE DEF Listen, ServiceEnds, setupVars
<1>0. RuntimeInv
  BY DEF Inv
<1>1. PICK now \in {"up", "gone"} : service' = [service EXCEPT ![c][s] = now]
  OBVIOUS
<1>2. port' \in [Services -> Commands \cup {None}]
  BY <1>0 DEF RuntimeInv, RuntimeTyped
<1>3. service' \in [Commands -> [Services -> Alive \cup {"none", "gone"}]]
  BY <1>0, <1>1 DEF RuntimeInv, RuntimeTyped, Alive
<1>4. RuntimeTyped'
  BY <1>0, <1>2, <1>3 DEF RuntimeInv, RuntimeTyped
<1>5. ServicesInv'
  <2> SUFFICES ASSUME NEW d \in Commands, NEW t \in Services
               PROVE  /\ port'[t] = d => service'[d][t] = "up"
                      /\ pc[d] \in Without(t) => service'[d][t] \notin Alive
    BY DEF ServicesInv
  <2>1. /\ port[t] = d => service[d][t] = "up"
        /\ pc[d] \in Without(t) => service[d][t] \notin Alive
    BY <1>0 DEF RuntimeInv, ServicesInv
  <2>2. CASE d = c /\ t = s
    <3>1. service'[d][t] = now
      BY <1>0, <1>1, <2>2 DEF RuntimeInv, RuntimeTyped
    <3>2. service[c][s] \in Alive
      BY DEF Alive
    <3>3. CASE Listen(c, s)
      BY <3>1, <3>2, <3>3, <2>1, <2>2, <1>0 DEF RuntimeInv, RuntimeTyped, Alive, None
    <3>4. CASE ServiceEnds(c, s)
      BY <3>1, <3>2, <3>4, <2>1, <2>2, <1>0 DEF RuntimeInv, RuntimeTyped, Alive, None
    <3> QED
      BY <3>3, <3>4
  <2>3. CASE ~ (d = c /\ t = s)
    <3>1. service'[d][t] = service[d][t]
      BY <1>0, <1>1, <2>3 DEF RuntimeInv, RuntimeTyped
    <3>2. port'[t] = d => port[t] = d
      BY <1>0, <2>3 DEF RuntimeInv, RuntimeTyped, None
    <3> QED
      BY <2>1, <3>1, <3>2
  <2> QED
    BY <2>2, <2>3
<1>6. AnnouncedInv' /\ SupervisorInv'
  BY <1>0 DEF RuntimeInv, AnnouncedInv, SupervisorInv
<1> QED
  BY <1>4, <1>5, <1>6 DEF RuntimeInv

LEMMA RuntimeInvEvents ==
  ASSUME Inv, NEW c \in Commands, AskStop(c) \/ Kill(c)
  PROVE  RuntimeInv'
<1> USE DEF AskStop, Kill, Goto, setupVars
<1>0. pc \in [Commands -> Labels] /\ RuntimeInv
  BY DEF Inv, SetupInv, SetupTyped
<1>1. RuntimeTyped'
  <2>1. stopAsked' \in [Commands -> BOOLEAN]
    BY <1>0 DEF RuntimeInv, RuntimeTyped
  <2>2. kills' \in 0 .. MaxKills
    BY <1>0 DEF RuntimeInv, RuntimeTyped
  <2>3. runtimeLock' \in Commands \cup {None}
    BY <1>0 DEF RuntimeInv, RuntimeTyped
  <2> QED
    BY <1>0, <2>1, <2>2, <2>3 DEF RuntimeInv, RuntimeTyped
<1>2. ServicesInv'
  BY <1>0 DEF RuntimeInv, ServicesInv, Without, Ended, Working
<1>3. AnnouncedInv'
  BY <1>0 DEF RuntimeInv, AnnouncedInv
<1>4. SupervisorInv'
  BY <1>0 DEF RuntimeInv, SupervisorInv, Supervising
<1> QED
  BY <1>1, <1>2, <1>3, <1>4 DEF RuntimeInv

-------------------------------------------------------------------------------
LEMMA SetupInvSetup ==
  ASSUME SetupInv, NEW c \in Commands, SetupStep(c) \/ SetupFails(c)
  PROVE  SetupInv'
BY SetupInvTakeLock, SetupInvPlan, SetupInvInstall, SetupInvRecordNode, SetupInvVerify,
   SetupInvSwap, SetupInvBuild,
   SetupInvRecordBuild, SetupInvFails DEF SetupStep

\* The launcher around setup only moves a command from one place outside to another.
LEMMA SetupInvRuntime ==
  ASSUME Inv, NEW c \in Commands,
         \/ Probe(c) \/ ProbeReleased(c) \/ Status(c) \/ TakeRuntimeLock(c) \/ CheckPorts(c) \/ Spawn(c)
         \/ Wait(c) \/ Announce(c) \/ Monitor(c) \/ StopWeb(c) \/ StopMcp(c) \/ Clear(c)
  PROVE  SetupInv'
<1>1. PICK l : Runtime(c, l) /\ l \in Supervising \cup Ended \cup {"probe", "probed", "lock", "status", "setup"}
  BY DEF Probe, ProbeReleased, Status, TakeRuntimeLock, CheckPorts, Spawn, SpawnStep, Wait,
     WaitStep, Announce,
         Monitor, GiveUp, StopWeb, StopMcp, StopStep, Clear, Supervising, Ended, Inv, RuntimeInv,
         RuntimeTyped
<1>2. pc[c] \in Supervising \cup {"probe", "probed", "lock", "status"}
  BY DEF Probe, ProbeReleased, Status, TakeRuntimeLock, CheckPorts, Spawn, SpawnStep, Wait,
     WaitStep, Announce,
         Monitor, StopWeb, StopMcp, StopStep, Clear, Supervising
<1>3. l \in Labels \ Holding /\ pc[c] \notin Holding
  BY <1>1, <1>2 DEF Labels, Holding, Working, Supervising, Ended
<1> QED
  BY <1>1, <1>3, OutsideStep DEF Inv, Runtime

LEMMA SetupInvEvents ==
  ASSUME Inv, NEW c \in Commands,
         AskStop(c) \/ Kill(c) \/ \E s \in Services : Listen(c, s) \/ ServiceEnds(c, s)
  PROVE  SetupInv'
<1>1. CASE Kill(c)
  BY <1>1, OutsideStep DEF Inv, Kill, Labels, Holding, Working, Ended
<1>2. CASE UNCHANGED setupVars
  BY <1>2 DEF setupVars, files, Inv, SetupInv, SetupTyped, SetupExclusive, NothingNewer, NodeInv,
     NodeRecorded, NodeDependenciesInstalled, NodeCurrent, PlanInv, Planned, BuildInv, BuildCurrent,
     BuiltFrom, NeverLeft, Steady, Hashed, history, ModelsInv, Verified
<1> QED
  BY <1>1, <1>2 DEF AskStop, Listen, ServiceEnds

LEMMA InvStep == Inv /\ [Next]_vars => Inv'
<1> SUFFICES ASSUME Inv, [Next]_vars PROVE Inv'
  OBVIOUS
<1>1. ASSUME NEW c \in Commands, CommandStep(c) PROVE Inv'
  <2>1. CASE (SetupStep(c) \/ SetupFails(c)) /\ UNCHANGED runtimeVars
    BY <2>1, SetupInvSetup, RuntimeInvSetup DEF Inv
  <2>2. CASE Probe(c) \/ ProbeReleased(c) \/ Status(c) \/ TakeRuntimeLock(c) \/ CheckPorts(c)
    BY <2>2, SetupInvRuntime, RuntimeInvLock DEF Inv
  <2>3. CASE Spawn(c)
    BY <2>3, SetupInvRuntime, RuntimeInvSpawn DEF Inv
  <2>4. CASE Wait(c) \/ Monitor(c) \/ Announce(c)
    BY <2>4, SetupInvRuntime, RuntimeInvWait DEF Inv
  <2>5. CASE StopWeb(c) \/ StopMcp(c)
    BY <2>5, SetupInvRuntime, RuntimeInvStop DEF Inv
  <2>6. CASE Clear(c)
    BY <2>6, SetupInvRuntime, RuntimeInvClear DEF Inv
  <2> QED
    BY <1>1, <2>1, <2>2, <2>3, <2>4, <2>5, <2>6 DEF CommandStep
<1>2. CASE Environment
  <2>1. CASE (Edit \/ RemoveModules) /\ UNCHANGED runtimeVars
    BY <2>1, SetupInvEdit, SetupInvRemoveModules, RuntimeInvEdit DEF Inv
  <2>2. CASE \E c \in Commands : AskStop(c) \/ Kill(c)
    BY <2>2, SetupInvEvents, RuntimeInvEvents DEF Inv
  <2>3. CASE \E c \in Commands, s \in Services : Listen(c, s) \/ ServiceEnds(c, s)
    BY <2>3, SetupInvEvents, RuntimeInvServices DEF Inv
  <2> QED
    BY <1>2, <2>1, <2>2, <2>3 DEF Environment
<1>3. CASE UNCHANGED vars
  BY <1>3 DEF vars, setupVars, files, runtimeVars, Inv, SetupInv, SetupTyped, SetupExclusive,
     NothingNewer, NodeInv,
              NodeRecorded, NodeDependenciesInstalled, NodeCurrent, PlanInv, Planned, BuildInv,
              BuildCurrent, BuiltFrom, NeverLeft, Steady, Hashed, history, ModelsInv, Verified,
              RuntimeInv, RuntimeTyped, ServicesInv, AnnouncedInv, SupervisorInv
<1> QED
  BY <1>1, <1>2, <1>3 DEF Next

LEMMA Invariance == Spec => []Inv
<1>1. Init => Inv
  BY SetupInvInit, RuntimeInvInit DEF Inv
<1> QED
  BY <1>1, InvStep, PTL DEF Spec

-------------------------------------------------------------------------------
\* The state stays typed.
THEOREM TypeCorrect == Spec => []TypeOK
<1>1. Inv => TypeOK
  BY TypesAgree DEF Inv, SetupInv, RuntimeInv
<1> QED
  BY <1>1, Invariance, PTL

\* Whatever was edited, put back, killed, removed or installed at once, what
\* doctor calls ready was made from the checkout as it is, in all that is hashed:
\* but for a content put back over an installation or a build that was cut short
\* or ran during an edit.
THEOREM ReadinessIsCurrent == Spec => []ReadyIsCurrent
<1>1. Inv => ReadyIsCurrent
  BY DEF Inv, SetupInv, SetupTyped, NodeInv, NodeRecorded, NodeCurrent, BuildInv, BuildCurrent, NeverLeft,
     HashedParts, ReadyIsCurrent, SetupReady
<1> QED
  BY <1>1, Invariance, PTL

AtMostOne ==
  /\ \A c, d \in Commands : pc[c] \in Holding /\ pc[d] \in Holding => c = d
  /\ \A c, d \in Commands : pc[c] \in Supervising /\ pc[d] \in Supervising => c = d

\* One command at a time is between taking and leaving setup_lock, and one
\* supervises: papertrans.lock is held by whoever probes or supervises.
THEOREM OneAtATime == Spec => []AtMostOne
<1>1. Inv => AtMostOne
  BY DEF Inv, SetupInv, SetupExclusive, RuntimeInv, SupervisorInv, AtMostOne
<1> QED
  BY <1>1, Invariance, PTL

\* A launcher that was not killed leaves no service, port or announcement.
THEOREM NothingStrays == Spec => []NoStrayService
<1>1. Inv => NoStrayService
  BY DEF Inv, RuntimeInv, ServicesInv, AnnouncedInv, NoStrayService, Without, Ended, Alive
<1> QED
  BY <1>1, Invariance, PTL

KeptByAStep ==
  /\ Verified(models) => models' = models
  /\ models.there => models' = models \/ retained' = models
  /\ retained.there => retained' = retained \/ models' = retained
LEMMA StepKeepsModels == Inv /\ [Next]_vars => KeptByAStep
<1> SUFFICES ASSUME Inv, [Next]_vars PROVE KeptByAStep
  OBVIOUS
<1>1. CASE UNCHANGED <<models, retained>>
  BY <1>1 DEF KeptByAStep
<1>2. ASSUME NEW c \in Commands, SetupFails(c), pc[c] = "swapIn" PROVE KeptByAStep
  BY <1>2, NowhereIsAPlace DEF Inv, SetupInv, ModelsInv, SetupFails, KeptByAStep
<1>3. ASSUME NEW c \in Commands, MoveOld(c) PROVE KeptByAStep
  BY <1>3, NowhereIsAPlace DEF Inv, SetupInv, ModelsInv, MoveOld, KeptByAStep
<1>4. ASSUME NEW c \in Commands, MoveNew(c) PROVE KeptByAStep
  BY <1>4, NowhereIsAPlace DEF Inv, SetupInv, ModelsInv, MoveNew, KeptByAStep
<1> QED
  <2>1. ASSUME NEW c \in Commands, SetupStep(c) PROVE KeptByAStep
    BY <2>1, <1>1, <1>3, <1>4
       DEF SetupStep, TakeSetupLock, Plan, InstallBegins, InstallEnds, Relink, RecordNode,
       VerifyModels, Download,
           CheckDownload, RecordModels, BuildBegins, BuildEnds, RecordBuild, files, AfterNode, Built
  <2>2. ASSUME NEW c \in Commands, CommandStep(c), ~ SetupStep(c), ~ SetupFails(c) PROVE KeptByAStep
    BY <2>2, <1>1
       DEF CommandStep, Probe, ProbeReleased, Status, TakeRuntimeLock, CheckPorts, Spawn,
       SpawnStep, Wait, WaitStep,
           Announce, Monitor, GiveUp, StopWeb, StopMcp, StopStep, Clear, Runtime, files
  <2>3. ASSUME Environment PROVE KeptByAStep
    BY <2>3, <1>1 DEF Environment, Edit, RemoveModules, AskStop, Kill, Listen, ServiceEnds,
       setupVars, files
  <2>4. ASSUME NEW c \in Commands, SetupFails(c), pc[c] # "swapIn" PROVE KeptByAStep
    BY <2>4, <1>1 DEF SetupFails
  <2>5. ASSUME UNCHANGED vars PROVE KeptByAStep
    BY <2>5, <1>1 DEF vars, setupVars, files
  <2> QED
    BY <2>1, <2>2, <2>3, <2>4, <2>5, <1>2 DEF Next

\* Models that verify stay; a tree that does not is kept, in place or as backup.
THEOREM ModelsStay == Spec => ModelsAreKept
<1>1. Inv /\ [Next]_vars => [KeptByAStep]_vars
  BY StepKeepsModels
<1> QED
  BY <1>1, Invariance, PTL DEF Spec, ModelsAreKept, KeptByAStep
===============================================================================
