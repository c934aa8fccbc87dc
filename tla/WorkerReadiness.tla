---------------------------- MODULE WorkerReadiness ----------------------------
(***************************************************************************)
(* check_readiness of the BabelDOC worker (readiness.py): what has to be   *)
(* true of the image, of the sandbox and of the provider secret before     *)
(* engine code is imported.  A digest stands for a content; a path is a    *)
(* model value or a string; the last two checks, which change the cache,   *)
(* are in RuntimeAssets and BabeldocWorker.                                *)
(***************************************************************************)
EXTENDS Naturals, Sequences, FiniteSets, SequencesExt

CONSTANT Reviewed   \* constants.py: the versions and digests of the reviewed build

Paths(entries) == {entries[i].path : i \in DOMAIN entries}
NamedOnce(entries) == Cardinality(Paths(entries)) = Len(entries)

-----------------------------------------------------------------------------
(* A manifest is a sequence of [path, digest]; a tree maps paths to         *)
(* [kind |-> "file" or "link", digest]; directories are not compared.       *)
Holds(tree, entry) ==
  /\ entry.path \in DOMAIN tree
  /\ tree[entry.path] = [kind |-> "file", digest |-> entry.digest]

TreeMatches(manifest, tree) ==
  /\ manifest # <<>>
  /\ NamedOnce(manifest)
  /\ \A i \in DOMAIN manifest : Holds(tree, manifest[i])
  /\ DOMAIN tree = Paths(manifest)

SourceTreeOk(image) ==
  /\ image.upstream = Reviewed.upstream
  /\ TreeMatches(image.sources, image.sourceTree)

(* The archives' unpacked sources, with a manifest and a tree of their own. *)
CompleteTreeOk(image) ==
  /\ image.upstream = Reviewed.upstream
  /\ TreeMatches(image.completeSources, image.completeTree)

(* The inventory is pinned, so the manifest cannot be exchanged with the tree. *)
AssetsOk(image) ==
  /\ image.assetManifest = Reviewed.assets
  /\ TreeMatches(image.assetManifest, image.assetTree)

(* Lock and manifest name the same archives with the same digests, and the  *)
(* directory holds them, the manifest and nothing else.                     *)
ArchivesOk(image) ==
  /\ image.archiveLock = Reviewed.archives
  /\ NamedOnce(image.archiveLock) /\ NamedOnce(image.archiveManifest)
  /\ ToSet(image.archiveLock) = ToSet(image.archiveManifest)
  /\ \A i \in DOMAIN image.archiveLock : Holds(image.archiveTree, image.archiveLock[i])
  /\ DOMAIN image.archiveTree = Paths(image.archiveLock) \cup {"manifest"}
  /\ image.archiveTree["manifest"].kind = "file"

ManifestOk(image) == image.digests["buildManifest"] = Reviewed.digests["buildManifest"]

SbomOk(image) == \A c \in DOMAIN Reviewed.versions : image.sbom[c] = Reviewed.versions[c]

MappingOk(image, machine) ==
  /\ machine \in DOMAIN Reviewed.mapping
  /\ image.mapping = Reviewed.mapping[machine]

(* Every digest that was recorded when the image was built is that of the   *)
(* file that is there; those of locks, manifest and patch are pinned too.   *)
ProvenanceOk(image) ==
  /\ image.upstream = Reviewed.upstream
  /\ image.recorded = image.digests
  /\ \A f \in DOMAIN Reviewed.digests : image.digests[f] = Reviewed.digests[f]

ProviderOk(secret) == secret.private /\ secret.wellFormed

-----------------------------------------------------------------------------
(* The sandbox as the process sees it: the controls that are in force.      *)
Controls == {"non_root", "no_new_privileges", "capabilities_dropped", "seccomp_enabled",
             "root_read_only", "tmp_isolated", "config_isolated",
             "babeldoc_cache_isolated", "pdf2zh_cache_isolated"}
RunControls == {"input_read_only", "output_writable"}
SandboxMissing(sandbox, forRun) == (Controls \cup (IF forRun THEN RunControls ELSE {})) \ sandbox

(* Everything that is looked at before assets and engine are touched.       *)
(* given: what PAPERTRANS_WORKER_* say of source revision, build, image,    *)
(* SBOM and lock.                                                           *)
FailedChecks(image, given, machine, sandbox, secret, forRun) ==
  {v \in DOMAIN Reviewed.versions : image.installed[v] # Reviewed.versions[v]}
    \cup {name \in {"build_manifest", "sbom", "baked_assets", "corresponding_source",
                    "complete_corresponding_source", "source_artifacts",
                    "runtime_source_mapping", "build_provenance"} :
            ~ CASE name = "build_manifest" -> ManifestOk(image)
                [] name = "sbom" -> SbomOk(image)
                [] name = "baked_assets" -> AssetsOk(image)
                [] name = "corresponding_source" -> SourceTreeOk(image)
                [] name = "complete_corresponding_source" -> CompleteTreeOk(image)
                [] name = "source_artifacts" -> ArchivesOk(image)
                [] name = "runtime_source_mapping" -> MappingOk(image, machine)
                [] name = "build_provenance" -> ProvenanceOk(image)}
    \cup (IF forRun /\ ~ ProviderOk(secret) THEN {"provider_secret"} ELSE {})
    \cup (IF given.source = Reviewed.upstream THEN {} ELSE {"source_revision_digest"})
    \cup (IF given.build = given.image THEN {} ELSE {"build_matches_image"})
    \cup (IF given.sbom = image.digests["sbom"] THEN {} ELSE {"sbom_digest"})
    \cup (IF given.lock = Reviewed.digests["runtimeLock"] THEN {} ELSE {"lock_digest"})
    \cup SandboxMissing(sandbox, forRun)
=============================================================================
