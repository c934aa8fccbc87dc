----------------------------- MODULE RuntimeAssets -----------------------------
(***************************************************************************)
(* _materialize_runtime_assets of readiness.py: the baked assets are       *)
(* linked into the writable cache of a container.  The health command that *)
(* Docker runs in the container (HEALTHCHECK) and the run itself both do   *)
(* it, each in a process of its own and without a lock.                    *)
(***************************************************************************)
EXTENDS Naturals, Sequences, FiniteSets, SequencesExt

CONSTANTS
  Calls,     \* the processes; RunCall is the one of "run"
  RunCall,
  Assets,    \* the assets in the order of the manifest
  DirOf      \* the directory of each asset

ASSUME AssetAssumption == RunCall \in Calls /\ Assets \in Seq(DOMAIN DirOf)
\* A manifest that names a path twice is refused.
ASSUME AssetsAreDistinct == \A i, j \in DOMAIN Assets : Assets[i] = Assets[j] => i = j

VARIABLES
  links,   \* assets that are linked in the cache
  dirs,    \* directories of the cache
  cacheDb, \* the engine has made its cache.v1.db
  at,      \* where each call is
  todo,    \* how many assets each call has linked, plus one
  made,    \* the links and directories a call takes for its own
  answer,  \* "none", "ready" or "refused"
  full     \* the tmpfs refuses some links

assetVars == <<links, dirs, cacheDb, at, todo, made, answer, full>>

Linked == ToSet(Assets)
Directories == {DirOf[a] : a \in Linked}
Idle == {"off", "answered"}

AssetsInit(diskFull) ==
  /\ links = {} /\ dirs = {} /\ cacheDb = FALSE
  /\ at = [c \in Calls |-> "off"]
  /\ todo = [c \in Calls |-> 1]
  /\ made = [c \in Calls |-> [links |-> {}, dirs |-> {}]]
  /\ answer = [c \in Calls |-> "none"]
  /\ full = diskFull

Move(c, label) == at' = [at EXCEPT ![c] = label]
Answer(c, ready) ==
  /\ answer' = [answer EXCEPT ![c] = IF ready THEN "ready" ELSE "refused"]
  /\ Move(c, "answered")

(* Exactly the links; the engine's cache files are overlooked by a probe.   *)
LinksMatch(c) ==
  /\ links = Linked
  /\ dirs \subseteq Directories
  /\ cacheDb => c # RunCall

(* An empty cache is filled, any other one only compared. *)
FindCache(c) ==
  /\ at[c] = "begin"
  /\ IF links \cup dirs = {} /\ ~ cacheDb
     THEN Move(c, "look") /\ UNCHANGED answer
     ELSE Answer(c, LinksMatch(c))
  /\ UNCHANGED <<links, dirs, cacheDb, todo, made, full>>

(* The parents that are missing now will count as this call's own. *)
LookForParent(c) ==
  /\ at[c] = "look"
  /\ IF todo[c] > Len(Assets)
     THEN Answer(c, LinksMatch(c)) /\ UNCHANGED made
     ELSE /\ made' = [made EXCEPT ![c].dirs = @ \cup ({DirOf[Assets[todo[c]]]} \ dirs)]
          /\ Move(c, "mkdir")
          /\ UNCHANGED answer
  /\ UNCHANGED <<links, dirs, cacheDb, todo, full>>

MakeParent(c) ==
  /\ at[c] = "mkdir"
  /\ dirs' = dirs \cup {DirOf[Assets[todo[c]]]}
  /\ Move(c, "link")
  /\ UNCHANGED <<links, cacheDb, todo, made, answer, full>>

LinkAsset(c) ==
  LET a == Assets[todo[c]] IN
  /\ at[c] = "link"
  /\ a \notin links /\ DirOf[a] \in dirs
  /\ links' = links \cup {a}
  /\ made' = [made EXCEPT ![c].links = @ \cup {a}]
  /\ todo' = [todo EXCEPT ![c] = @ + 1]
  /\ Move(c, "look")
  /\ UNCHANGED <<dirs, cacheDb, answer, full>>

(* FileExistsError, FileNotFoundError, or no space. *)
LinkRaises(c) ==
  LET a == Assets[todo[c]] IN
  /\ at[c] = "link"
  /\ a \in links \/ DirOf[a] \notin dirs \/ full
  /\ Move(c, "undo")
  /\ UNCHANGED <<links, dirs, cacheDb, todo, made, answer, full>>

(* Mutant: the rollback removes every link, not only its own. *)
UndoLinksAll(c) ==
  /\ at[c] = "undo"
  /\ links' = {}
  /\ Move(c, "undoDirs")
  /\ UNCHANGED <<dirs, cacheDb, todo, made, answer, full>>
UndoLinks(c) ==
  /\ at[c] = "undo"
  /\ links' = links \ made[c].links
  /\ Move(c, "undoDirs")
  /\ UNCHANGED <<dirs, cacheDb, todo, made, answer, full>>

(* rmdir leaves a directory that is not empty. *)
UndoDirs(c) ==
  /\ at[c] = "undoDirs"
  /\ dirs' = dirs \ {d \in made[c].dirs : \A a \in links : DirOf[a] # d}
  /\ Answer(c, FALSE)
  /\ UNCHANGED <<links, cacheDb, todo, made, full>>

Materialize(c) ==
  \/ FindCache(c) \/ LookForParent(c) \/ MakeParent(c) \/ LinkAsset(c) \/ LinkRaises(c)
  \/ UndoLinks(c) \/ UndoDirs(c)

-----------------------------------------------------------------------------
(* Once a call was answered ready, the engine's assets stay in place, however *)
(* a health check of the same container fails and rolls back beside it.       *)
ReadyIsStable == (\E c \in Calls : answer[c] = "ready") => links = Linked

(* Overlapping calls never leave a cache that is linked in part, and unless    *)
(* the disk is full one of them is answered ready.                             *)
NoHalfLinkedCache ==
  (\A c \in Calls : at[c] \in Idle) /\ (\E c \in Calls : answer[c] # "none") =>
     links = Linked \/ (full /\ links = {})
=============================================================================
