---------------------------- MODULE MCContainerRun ----------------------------
(* One good run of each kind, and runs with one thing wrong with them. *)
EXTENDS ContainerRun, TLC

MCReviewed ==
  [upstream |-> "revision",
   versions |-> [engine |-> 2, adapter |-> 1],
   digests |-> [buildManifest |-> "m", runtimeLock |-> "l"],
   assets |-> <<[path |-> "font", digest |-> "font"], [path |-> "cmap", digest |-> "cmap"]>>,
   sources |-> <<[path |-> "code", digest |-> "code"]>>,
   archives |-> <<[path |-> "tar", digest |-> "tar"]>>,
   mapping |-> [x86 |-> "payload"]]

File(d) == [kind |-> "file", digest |-> d]
Digests == [buildManifest |-> "m", runtimeLock |-> "l", sbom |-> "s"]

GoodImage ==
  [upstream |-> "revision", sources |-> MCReviewed.sources, sourceTree |-> [code |-> File("code")],
   completeSources |-> <<[path |-> "fork", digest |-> "fork"]>>,
   completeTree |-> [fork |-> File("fork")],
   assetManifest |-> MCReviewed.assets, assetTree |-> [font |-> File("font"), cmap |-> File("cmap")],
   archiveLock |-> MCReviewed.archives, archiveManifest |-> MCReviewed.archives,
   archiveTree |-> [tar |-> File("tar"), manifest |-> File("manifest")],
   digests |-> Digests, recorded |-> Digests, installed |-> MCReviewed.versions,
   sbom |-> MCReviewed.versions, mapping |-> "payload", fork |-> "patch", fonts |-> {}]

Given == [source |-> "revision", build |-> "i", image |-> "i", sbom |-> "s", lock |-> "l"]

GoodProfile ==
  [wellFormed |-> TRUE, eligible |-> TRUE, purpose |-> "semantic_translation",
   backend |-> "babeldoc", network |-> "private", gateway |-> "gw", egress |-> "out",
   usesSecret |-> TRUE, secretTarget |-> "gw", gatewayDigest |-> "gi", given |-> Given,
   font |-> "none"]

Source == [bytes |-> 1, digest |-> "pdf", qpdf |-> "passed",
           pdf |-> [faults |-> {}, pages |-> <<"g">>, uris |-> {}, objects |-> <<>>]]

GoodRequest ==
  [wellFormed |-> TRUE, runId |-> "run", sourceBytes |-> 1, sourceDigest |-> "pdf",
   languages |-> <<"en", "ja">>, approved |-> TRUE, identity |-> "id", outputs |-> {"mono"},
   maxPages |-> 1, maxBytes |-> 4]

ImageConfig == [user |-> "numeric", cmd |-> "serve"]
GoodJob ==
  [request |-> GoodRequest, source |-> Source, image |-> GoodImage, given |-> Given,
   machine |-> "x86", runSandbox |-> ContainerControls(GoodProfile, "run"),
   secret |-> [private |-> TRUE, wellFormed |-> TRUE, identity |-> "id"],
   profile |-> GoodProfile, network |-> [internal |-> TRUE, peers |-> {"gw"}],
   gateway |-> [config |-> ImageConfig, overrides |-> {}, state |-> "running", image |-> "gi",
                isolated |-> TRUE, networks |-> {"private", "out"}],
   gatewayImage |-> [digest |-> "gi", config |-> ImageConfig], approved |-> {"patch"},
   importFails |-> FALSE, mountReviewed |-> TRUE, skew |-> 0, leakyEvents |-> FALSE,
   stderr |-> "secret", faults |-> {}]

OddJobs ==
  { [GoodJob EXCEPT !.request.outputs = {"mono", "dual"}],
    [GoodJob EXCEPT !.request.languages = <<"en", "fr">>],
    [GoodJob EXCEPT !.skew = 3],
    [GoodJob EXCEPT !.leakyEvents = TRUE],
    [GoodJob EXCEPT !.mountReviewed = FALSE],
    [GoodJob EXCEPT !.importFails = TRUE],
    [GoodJob EXCEPT !.approved = {}],
    [GoodJob EXCEPT !.runSandbox = @ \ {"seccomp_enabled"}],
    [GoodJob EXCEPT !.profile.egress = "private"],
    [GoodJob EXCEPT !.network.peers = @ \cup {"stranger"}],
    [GoodJob EXCEPT !.gateway.overrides = {"mount"}],
    [GoodJob EXCEPT !.secret.identity = "another"],
    [GoodJob EXCEPT !.image.assetTree.font.digest = "other"],
    [GoodJob EXCEPT !.image.sourceTree = @ @@ [extra |-> File("extra")]],
    [GoodJob EXCEPT !.image.completeTree.fork.digest = "other"],
    [GoodJob EXCEPT !.image.archiveTree.tar.kind = "link"],
    [GoodJob EXCEPT !.image.recorded.sbom = "stale"],
    [GoodJob EXCEPT !.given.sbom = "stale"] }

\* Any fault meets the good run, with one that hinders clean-up, any number of times each.
MCJobs == OddJobs \cup {[GoodJob EXCEPT !.faults = {f, g}] : f \in FaultKinds, g \in {"rm", "slow"}}

MCEngine ==
  {[kind |-> "good", bytes |-> 1], [kind |-> "good", bytes |-> 2], [kind |-> "moved", bytes |-> 1],
   [kind |-> "leaky", bytes |-> 1], [kind |-> "notpdf", bytes |-> 1]}

MCAssets == <<"font", "cmap">>
MCDirOf == [font |-> "fonts", cmap |-> "cmaps"]
=============================================================================
