------------------------------ MODULE LocalSetup ------------------------------
(* local_setup.py: the commands that prepare node_modules, the Docling models *)
(* and the Web build of one checkout, and the record they keep of it          *)
(* (setup-state.json).  The checkout has three parts: `deps` for package.json  *)
(* and the lock file (the Node and pnpm versions stay), `tree` for the         *)
(* directories and settings the build's fingerprint hashes, and `proxy` for    *)
(* what is compiled but not hashed (proxy.ts).  An editor makes a new content  *)
(* of a part, or puts an earlier one back.                                     *)
EXTENDS Naturals, FiniteSets
CONSTANTS Commands,    \* processes, each running one command
          Starts,      \* those that run `start`; the others run `setup`
          Dev, Offline,\* the commands given --dev, --offline
          Locked,      \* the files of docling-models.lock.json
          FirstFiles,  \* how the files at model_root may be at first
          Edited,      \* the parts of the checkout the user edits
          MaxEdits     \* bound: how often the user edits, or removes node_modules
ASSUME CommandsAreKnown == Starts \subseteq Commands /\ Dev \subseteq Commands /\ Offline \subseteq Commands
ASSUME SomeLocked == Locked # {} /\ MaxEdits \in Nat /\ FirstFiles \subseteq {"absent", "wrong", "right"}
ASSUME PartsAreEdited == Edited \subseteq {"deps", "tree", "proxy"}
ASSUME NobodyIsNone == "none" \notin Commands

VARIABLES
  sources,     \* the checkout
  nodeModules, \* node_modules: which parts of the layout are there, and of which deps
  webBuild,    \* .next: whether it has a BUILD_ID, and the sources it was built from
  models,      \* model_root
  retained,    \* .docling-invalid-*: the tree that was there before
  staging,     \* .docling-download-* of each command
  setupState,  \* setup-state.json
  setupLock,   \* the flock on setup.lock
  plan,        \* the fingerprints the holder of setup.lock computed
  pc,
  edits,       \* how often the user has been at the checkout
  newest,      \* history: the newest content of each part
  back,        \* history: the parts with a content that was left before
  changed,     \* history: the parts edited since the holder computed its fingerprints
  unsure       \* history: what an installation or a build has touched that it has not
               \* recorded yet, or that it made while the checkout was edited
files == <<nodeModules, webBuild, models, retained, staging, setupState>>
history == <<edits, newest, back, changed, unsure>>
setupVars == <<sources, files, setupLock, plan, pc, history>>

None == "none"
Mixed == {}           \* from no one version; also the sections a new record lacks
NoTree == [f \in Locked |-> "absent"]
Trees == [Locked -> {"absent", "wrong", "right"}]
Parts == {"metadata", "packages", "bins"}
Fingerprints == [deps : Nat, tree : Nat]
Checkouts == [deps : Nat, tree : Nat, proxy : Nat]
HashedParts == {"deps", "tree"}
Hashed(checkout) == [deps |-> checkout.deps, tree |-> checkout.tree]
Nowhere == [there |-> FALSE, files |-> NoTree]
At(tree) == [there |-> TRUE, files |-> tree]
FirstModels == {At(tree) : tree \in [Locked -> FirstFiles]} \cup (IF "absent" \in FirstFiles THEN {Nowhere} ELSE {})
Working == {"setup", "plan", "install", "installing", "relink", "recordNode", "verify", "download", "check", "moveOld",
            "moveNew", "swapIn", "recordModels", "build", "building", "recordBuild"}

SetupTypeOK ==
  /\ {sources, newest} \subseteq Checkouts /\ plan \in Fingerprints
  /\ edits \in 0 .. MaxEdits /\ back \cup changed \subseteq {"deps", "tree", "proxy"} /\ unsure \subseteq {"node", "build"}
  /\ nodeModules.parts \subseteq Parts /\ nodeModules.from \subseteq Nat
  /\ webBuild.id \in BOOLEAN /\ webBuild.from \subseteq Checkouts
  /\ {models, retained} \cup {staging[c] : c \in Commands} \subseteq [there : BOOLEAN, files : Trees]
  /\ setupState.node \subseteq Nat /\ setupState.webBuild \subseteq Fingerprints
  /\ setupLock \in Commands \cup {None}

SetupInit ==
  /\ sources = [deps |-> 0, tree |-> 0, proxy |-> 0]
  /\ edits = 0 /\ newest = sources /\ back = {} /\ changed = {} /\ unsure = {}
  /\ nodeModules = [parts |-> {}, from |-> {}] /\ webBuild = [id |-> FALSE, from |-> {}]
  /\ models \in FirstModels /\ retained = Nowhere
  /\ staging = [c \in Commands |-> Nowhere]
  /\ setupState = [node |-> {}, webBuild |-> {}]
  /\ setupLock = None /\ plan = Hashed(sources)

--------------------------------------------------------------------------------
NodeDependenciesInstalled == nodeModules.parts = Parts
NodeCurrent(fingerprint) == setupState.node = {fingerprint}
BuildCurrent(fingerprint) == webBuild.id /\ setupState.webBuild = {fingerprint}
Verified(place) == \A f \in Locked : place.files[f] = "right"

\* setup_status: what doctor, and the end of every setup, call ready.
SetupReady(dev) ==
  /\ NodeDependenciesInstalled /\ NodeCurrent(sources.deps)
  /\ dev \/ BuildCurrent(Hashed(sources))
  /\ Verified(models)

Goto(c, next) == pc' = [pc EXCEPT ![c] = next]
\* Leaving setup_lock; the descriptor goes with the process, so killing it does the same.
Unlock(c) == setupLock' = IF setupLock = c THEN None ELSE setupLock
AfterNode(c, next) ==
  UNCHANGED <<sources, webBuild, setupLock, plan, models, retained, staging, edits, newest, back, changed>> /\ Goto(c, next)

\* Any command that exits with an error, or Ctrl-C: the finally clauses run.
\* One that could not move its download in puts the old tree back.
SetupFails(c) ==
  /\ pc[c] \in Working
  /\ staging' = [staging EXCEPT ![c] = Nowhere]
  /\ Unlock(c) /\ Goto(c, "failed")
  /\ IF pc[c] = "swapIn" THEN models' = retained /\ retained' = Nowhere
                         ELSE UNCHANGED <<models, retained>>
  /\ UNCHANGED <<sources, nodeModules, webBuild, setupState, plan, history>>

TakeSetupLockShared(c) ==       \* mutant
  /\ pc[c] = "setup" /\ setupLock' = c /\ Goto(c, "plan")
  /\ UNCHANGED <<sources, files, plan, history>>
TakeSetupLock(c) ==
  /\ pc[c] = "setup"
  /\ IF setupLock = None THEN setupLock' = c /\ Goto(c, "plan")
                         ELSE setupLock' = setupLock /\ Goto(c, "failed")
  /\ UNCHANGED <<sources, files, plan, history>>

\* Both fingerprints are of the files as they are before anything is installed.
Plan(c) ==
  /\ pc[c] = "plan"
  /\ plan' = Hashed(sources) /\ changed' = {}
  /\ Goto(c, IF NodeDependenciesInstalled /\ NodeCurrent(sources.deps) THEN "verify" ELSE "install")
  /\ UNCHANGED <<sources, files, setupLock, edits, newest, back, unsure>>

\* pnpm writes the metadata of the layout last: until then the layout is the
\* old one, or lacks parts.  Of a content that goes while it works it may use either.
InstalledFrom == {{sources.deps}} \cup (IF "deps" \in changed THEN {Mixed} ELSE {})
InstallBegins(c) ==
  /\ pc[c] = "install"
  /\ nodeModules' = [nodeModules EXCEPT !.from = Mixed] /\ unsure' = unsure \cup {"node"}
  /\ UNCHANGED setupState /\ AfterNode(c, "installing")
InstallEnds(c) ==
  /\ pc[c] = "installing"
  /\ \E parts \in {Parts, Parts \ {"bins"}}, from \in InstalledFrom : nodeModules' = [parts |-> parts, from |-> from]
  /\ UNCHANGED <<setupState, unsure>>
  /\ AfterNode(c, IF NodeDependenciesInstalled' THEN "recordNode" ELSE "relink")
\* Once more, with --force.
Relink(c) ==
  /\ pc[c] = "relink"
  /\ \E from \in InstalledFrom : nodeModules' = [parts |-> Parts, from |-> from]
  /\ UNCHANGED <<setupState, unsure>> /\ AfterNode(c, "recordNode")
RecordNodeNow(c) ==             \* mutant: the fingerprint of what is there now
  /\ pc[c] = "recordNode"
  /\ setupState' = [setupState EXCEPT !.node = {sources.deps}]
  /\ unsure' = IF "deps" \in changed THEN unsure ELSE unsure \ {"node"}
  /\ UNCHANGED nodeModules /\ AfterNode(c, "verify")
RecordNode(c) ==
  /\ pc[c] = "recordNode"
  /\ setupState' = [setupState EXCEPT !.node = {plan.deps}]
  /\ unsure' = IF "deps" \in changed THEN unsure ELSE unsure \ {"node"}
  /\ UNCHANGED nodeModules /\ AfterNode(c, "verify")

--------------------------------------------------------------------------------
\* ensure_models.
Models(c, next) == UNCHANGED <<sources, nodeModules, webBuild, setupState, setupLock, plan, history>> /\ Goto(c, next)
VerifyModels(c) ==
  /\ pc[c] = "verify"
  /\ IF Verified(models) THEN staging' = staging /\ Models(c, "recordModels")
     ELSE c \notin Offline /\ staging' = [staging EXCEPT ![c] = At(NoTree)] /\ Models(c, "download")
  /\ UNCHANGED <<models, retained>>
\* local_model_download, under its half hour.
Download(c) ==
  /\ pc[c] = "download"
  /\ \E tree \in Trees : staging' = [staging EXCEPT ![c] = At(tree)]
  /\ UNCHANGED <<models, retained>> /\ Models(c, "check")
CheckDownload(c) ==
  /\ pc[c] = "check" /\ Verified(staging[c])
  /\ UNCHANGED <<models, retained, staging>>
  /\ Models(c, IF models.there THEN "moveOld" ELSE "moveNew")
MoveOld(c) ==
  /\ pc[c] = "moveOld"
  /\ models' = Nowhere /\ retained' = models
  /\ UNCHANGED staging /\ Models(c, "swapIn")
MoveNew(c) ==
  /\ pc[c] \in {"moveNew", "swapIn"}
  /\ models' = staging[c] /\ staging' = [staging EXCEPT ![c] = Nowhere]
  /\ UNCHANGED retained /\ Models(c, "recordModels")

\* ensure_setup goes on: nothing reads the models' section of the record again.
RecordModels(c) ==
  /\ pc[c] = "recordModels"
  /\ Goto(c, IF c \in Dev \/ BuildCurrent(plan) THEN "status" ELSE "build")
  /\ setupLock' = IF pc'[c] = "status" THEN None ELSE setupLock
  /\ UNCHANGED <<sources, files, plan, history>>
Built(c, next) ==
  UNCHANGED <<sources, nodeModules, models, retained, staging, plan, edits, newest, back, changed>> /\ Goto(c, next)
BuildBegins(c) ==
  /\ pc[c] = "build"
  /\ \E id \in {FALSE, webBuild.id} : webBuild' = [id |-> id, from |-> Mixed]
  /\ unsure' = unsure \cup {"build"} /\ UNCHANGED <<setupState, setupLock>> /\ Built(c, "building")
BuildEnds(c) ==
  /\ pc[c] = "building"
  /\ \E from \in {{sources}} \cup (IF changed \cap HashedParts = {} THEN {} ELSE {Mixed}) :
       webBuild' = [id |-> TRUE, from |-> from]
  /\ UNCHANGED <<setupState, setupLock, unsure>> /\ Built(c, "recordBuild")
\* The last writes of the record, and the end of setup_lock.
RecordBuild(c) ==
  /\ pc[c] = "recordBuild"
  /\ setupState' = [setupState EXCEPT !.webBuild = {plan}]
  /\ unsure' = IF changed \cap HashedParts = {} THEN unsure \ {"build"} ELSE unsure
  /\ setupLock' = None
  /\ UNCHANGED webBuild /\ Built(c, "status")

SetupStep(c) ==
  \/ TakeSetupLock(c) \/ Plan(c) \/ InstallBegins(c) \/ InstallEnds(c) \/ Relink(c) \/ RecordNode(c)
  \/ VerifyModels(c) \/ Download(c) \/ CheckDownload(c) \/ MoveOld(c) \/ MoveNew(c)
  \/ RecordModels(c) \/ BuildBegins(c) \/ BuildEnds(c) \/ RecordBuild(c)

--------------------------------------------------------------------------------
\* The user: another content of a part of the checkout, new or one it had, and
\* rm -rf node_modules.
UserStep == edits < MaxEdits /\ edits' = edits + 1
Edit ==
  /\ UserStep
  /\ \E part \in Edited, content \in 0 .. MaxEdits :
       /\ content # sources[part] /\ content <= newest[part] + 1
       /\ sources' = [sources EXCEPT ![part] = content]
       /\ changed' = IF setupLock = None THEN changed ELSE changed \cup {part}
       /\ IF content <= newest[part]
          THEN back' = back \cup {part} /\ newest' = newest
          ELSE back' = back \ {part} /\ newest' = [newest EXCEPT ![part] = content]
  /\ UNCHANGED <<files, setupLock, plan, pc, unsure>>
RemoveModules ==
  /\ UserStep
  /\ nodeModules.parts # {} /\ \A c \in Commands : pc[c] # "installing"
  /\ nodeModules' = [parts |-> {}, from |-> {}]
  /\ UNCHANGED <<sources, webBuild, models, retained, staging, setupState, setupLock, plan, pc, newest, back, changed, unsure>>
================================================================================
