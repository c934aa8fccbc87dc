----------------------------- MODULE ContainerRun -----------------------------
(***************************************************************************)
(* run_container_candidate of pdf_translation_supervisor.py: one candidate *)
(* run in a fresh container, from the reviewed profile to publication or   *)
(* clean-up.  The daemon (docker) is external: a call of its client may    *)
(* be refused, or be killed at its deadline while the daemon goes on with  *)
(* it (late).  The worker is BabeldocWorker.                               *)
(***************************************************************************)
EXTENDS BabeldocWorker

CONSTANTS
  Jobs     \* the runs to try, each with the faults that may hit it (job.faults):
           \* "refuse", "slow", "rm": docker refuses, is late, fails to remove;
           \* "keeper", "oom": the container, the worker dies; "replace": the
           \* paper's source PDF is exchanged; "full": no space for the links

FaultKinds == {"refuse", "slow", "rm", "keeper", "oom", "replace", "full"}
ASSUME FaultAssumption == \A j \in Jobs : j.faults \subseteq FaultKinds
\* "elsewhere" is the geometry of no page of a source.
ASSUME SourceAssumption ==
  \A j \in Jobs : /\ {"digest", "pdf"} \subseteq DOMAIN j.source
                  /\ j.source.pdf.pages \in Seq(ToSet(j.source.pdf.pages) \ {"elsewhere"})
\* A worker finds a provider secret only in the volume its run mounts.
ASSUME SecretIsMounted == \A j \in Jobs : ProviderOk(j.secret) => j.profile.usesSecret

VARIABLES
  pc,        \* where the host is
  held,      \* the volumes the call knows it has made
  objects,   \* containers and volumes that exist
  late,      \* creations whose client was killed and which may still happen
  excused,   \* objects whose creation timed out or whose removal failed
  alive,     \* the keeper's process runs
  pdf,       \* the source PDF of the paper now
  staged,    \* what was copied out of the container, or NoCopy
  published  \* what publish_candidate_run was given and accepted, or NoCopy

hostVars == <<pc, held, objects, late, excused, alive, pdf, staged, published>>
vars == <<job, workerVars, assetVars, hostVars>>

NoCopy == [absent |-> TRUE]
Volumes == {"secret", "output"}
Ended == {"published", "failed"}

-----------------------------------------------------------------------------
(* The trusted profile. *)

ProfileValid(profile) ==
  /\ profile.wellFormed
  /\ profile.eligible => profile.purpose = "semantic_translation" /\ profile.backend # "harumi"
  /\ IF profile.network = "none"
     THEN ~ profile.usesSecret /\ profile.gateway = "none"
     ELSE /\ profile.backend = "babeldoc"
          /\ profile.network \notin {"bridge", "default", "host"}
          /\ profile.gateway # "none"
          /\ profile.egress \notin {profile.network, "bridge", "default", "host", "none"}
          /\ profile.usesSecret /\ profile.secretTarget = profile.gateway

(* container_command: the controls a container is started with.             *)
ContainerControls(profile, command) ==
  {"non_root", "no_new_privileges", "capabilities_dropped", "seccomp_enabled",
   "root_read_only", "tmp_isolated"}
    \cup (IF profile.backend = "babeldoc"
          THEN {"config_isolated", "babeldoc_cache_isolated", "pdf2zh_cache_isolated"} ELSE {})
    \cup (IF command = "run" THEN {"input_read_only", "output_writable"} ELSE {})

RuntimeConfigIsReviewed(gateway, imageConfig) ==
  /\ imageConfig.user = "numeric"
  /\ gateway.config = imageConfig
  /\ gateway.overrides = {}
  /\ gateway.state = "running"

(* An internal bridge with the gateway as its only peer, and a gateway that *)
(* is the reviewed image in the reviewed isolation.                         *)
GatewayReviewed(profile, secret, request, network, gateway, image) ==
  profile.network # "none" =>
    /\ secret.identity = request.identity
    /\ network.internal /\ network.peers = {profile.gateway}
    /\ image.digest = profile.gatewayDigest /\ gateway.image = profile.gatewayDigest
    /\ gateway.isolated
    /\ gateway.networks = {profile.network, profile.egress}
    /\ RuntimeConfigIsReviewed(gateway, image.config)

(* What the health command prints, and what the host wants it to say.       *)
HealthDocument ==
  [wellFormed |-> TRUE,
   ready |-> /\ FailedChecks(job.image, job.given, job.machine,
                             ContainerControls(job.profile, "health"), job.secret, FALSE) = {}
             /\ ~ job.importFails,
   outputs |-> PdfRoles, babeldoc |-> TRUE, fixedVersions |-> TRUE,
   fork |-> job.image.fork, given |-> job.given]

ProvenanceMatches(health, profile) ==
  /\ health.given = profile.given
  /\ profile.font \in {"none"} \cup job.image.fonts

(* _reject_retained_provider_secrets: stdout and every regular file.        *)
LeakyRoles(files) == {r \in DOMAIN files : files[r].kind = "leaky"}
SecretsRetained(copy) ==
  job.profile.usesSecret /\ (LeakyRoles(copy.kept) \cup LeakyRoles(copy.engine) # {} \/ job.leakyEvents)

(* The staging directory as publish_candidate_run finds it.                 *)
Staging(copy) ==
  [hasDocument |-> copy.document,
   document |-> IF copy.document THEN WorkerResult ELSE "absent",
   files |-> [r \in DOMAIN copy.kept \cup (IF copy.report THEN {"report"} ELSE {}) |->
                IF r = "report" THEN ReportFile ELSE OutputFile(copy.kept[r], r)],
   extra |-> IF copy.engine = <<>> THEN {} ELSE {".engine"}]

-----------------------------------------------------------------------------
Init ==
  /\ job \in Jobs
  /\ WorkerInit /\ AssetsInit("full" \in job.faults)
  /\ pc = "begin" /\ held = {} /\ objects = {} /\ late = {} /\ excused = {}
  /\ alive = FALSE /\ pdf = job.source /\ staged = NoCopy /\ published = NoCopy

Rest == <<job, workerVars, assetVars>>
Then(label) == pc' = label

(* Profile, request and gateway; nothing exists yet, so nothing is removed. *)
Begin ==
  /\ pc = "begin"
  /\ Then(IF /\ ProfileValid(job.profile)
             /\ RequestAccepted(job.request, pdf) /\ Inspected(pdf.pdf, job.request.maxPages)
             /\ GatewayReviewed(job.profile, job.secret, job.request,
                                job.network, job.gateway, job.gatewayImage)
          THEN "health" ELSE "failed")
  /\ UNCHANGED <<Rest, held, objects, late, excused, alive, pdf, staged, published>>

(* A container or volume is created by the daemon or refused; or the client *)
(* is killed at its deadline, before or after the daemon has done it.       *)
Created(x) == objects' = objects \cup {x} /\ UNCHANGED <<late, excused>>
Slow(x) ==
  /\ "slow" \in job.faults
  /\ excused' = excused \cup {x}
  /\ \/ objects' = objects \cup {x} /\ UNCHANGED late
     \/ late' = late \cup {x} /\ UNCHANGED objects

(* docker run --rm health: the container goes when the command ends. *)
Health ==
  /\ pc = "health"
  /\ \/ /\ Then(IF /\ HealthDocument.ready
                   /\ HealthAccepted(HealthDocument, job.approved, job.request.outputs)
                   /\ ProvenanceMatches(HealthDocument, job.profile)
                THEN "output" ELSE "failed")
        /\ UNCHANGED <<objects, late, excused>>
     \/ Slow("health") /\ Then("rmHealth")
     \/ "refuse" \in job.faults /\ Then("failed") /\ UNCHANGED <<objects, late, excused>>
  /\ UNCHANGED <<Rest, held, alive, pdf, staged, published>>

(* A refused output volume is removed before the call fails; one whose      *)
(* client was killed is not.                                                *)
CreateOutput ==
  /\ pc = "output"
  /\ \/ /\ Created("output") /\ held' = held \cup {"output"}
        /\ Then(IF job.profile.usesSecret THEN "secret" ELSE "keeper")
     \/ Slow("output") /\ Then("rmKeeper") /\ UNCHANGED held
     \/ "refuse" \in job.faults /\ Then("rmKeeper") /\ UNCHANGED <<objects, late, excused, held>>
  /\ UNCHANGED <<Rest, alive, pdf, staged, published>>

CreateSecret ==
  /\ pc = "secret"
  /\ \/ Created("secret") /\ Then("seed")
     \/ Slow("secret") /\ Then("rmKeeper")
     \/ "refuse" \in job.faults /\ Then("rmKeeper") /\ UNCHANGED <<objects, late, excused>>
  /\ UNCHANGED <<Rest, held, alive, pdf, staged, published>>

(* Mutant: the volume of a failed seeding is not removed. *)
SeedForgets ==
  /\ pc = "seed"
  /\ \/ held' = held \cup {"secret"} /\ Then("keeper")
     \/ "refuse" \in job.faults /\ Then("rmKeeper") /\ UNCHANGED held
  /\ UNCHANGED <<Rest, objects, late, excused, alive, pdf, staged, published>>
(* The seeding container is --rm; it keeps the volume in use while it runs. *)
Seed ==
  /\ pc = "seed"
  /\ \/ /\ held' = held \cup {"secret"} /\ Then("keeper")
        /\ UNCHANGED <<objects, late, excused>>
     \/ Slow("seeder") /\ Then("unseed") /\ UNCHANGED held
     \/ "refuse" \in job.faults /\ Then("unseed") /\ UNCHANGED <<objects, late, excused, held>>
  /\ UNCHANGED <<Rest, alive, pdf, staged, published>>

(* docker run --detach without --rm: what failed to start may be left.      *)
StartKeeper ==
  /\ pc = "keeper"
  /\ \/ Created("keeper") /\ alive' = TRUE /\ Then("mount")
     \/ Slow("keeper") /\ Then("rmStarted") /\ UNCHANGED alive
     \/ /\ "refuse" \in job.faults /\ Then("rmKeeper")
        /\ objects' \in {objects, objects \cup {"keeper"}}
        /\ UNCHANGED <<late, excused, alive>>
  /\ UNCHANGED <<Rest, held, pdf, staged, published>>

(* /proc/self/mountinfo of the keeper has the reviewed /output. *)
VerifyMount ==
  /\ pc = "mount"
  /\ \/ /\ alive /\ job.mountReviewed
        /\ Then("exec") /\ wpc' = "start"
     \/ /\ ~ alive \/ ~ job.mountReviewed \/ job.faults \cap {"refuse", "slow"} # {}
        /\ Then("rmKeeper") /\ UNCHANGED wpc
  /\ UNCHANGED <<job, wexit, lines, volume, assetVars, held, objects, late, excused, alive, pdf,
                 staged, published>>

(* docker exec ends with the worker.  At its deadline the client is killed, *)
(* the worker goes on, and the keeper is removed once more than at the end. *)
ExecEnds ==
  /\ pc = "exec" /\ wpc = "stopped"
  /\ Then(IF wexit = "ok" THEN "copy" ELSE "rmKeeper")
  /\ UNCHANGED <<Rest, held, objects, late, excused, alive, pdf, staged, published>>
(* Mutant: only the worker's own deadline ends the wait. *)
ExecTimesOutNever ==
  pc = "exec" /\ wpc = "stopped" /\ UNCHANGED vars
ExecTimesOut ==
  /\ pc = "exec" /\ wpc # "stopped"
  /\ Then("rmStarted")
  /\ UNCHANGED <<Rest, held, objects, late, excused, alive, pdf, staged, published>>

(* docker cp; the volume is a tmpfs, so a keeper that died leaves nothing.  *)
CopyOutput ==
  /\ pc = "copy"
  /\ \/ staged' = (IF alive THEN volume ELSE EmptyVolume) /\ Then("scan")
     \/ job.faults \cap {"refuse", "slow"} # {} /\ UNCHANGED staged /\ Then("rmKeeper")
  /\ UNCHANGED <<Rest, held, objects, late, excused, alive, pdf, published>>

Scan ==
  /\ pc = "scan"
  /\ Then("rmKeeper")
  /\ staged' = IF SecretsRetained(staged) THEN NoCopy ELSE staged
  /\ UNCHANGED <<Rest, held, objects, late, excused, alive, pdf, published>>

-----------------------------------------------------------------------------
(* Removal is tried once and its failure is ignored.  A volume that a       *)
(* container uses cannot be removed.                                        *)
InUse(x) ==
  \/ x \in Volumes /\ "keeper" \in objects
  \/ x = "secret" /\ "seeder" \in objects

TryRemove(x) ==
  \/ objects' = (IF InUse(x) THEN objects ELSE objects \ {x}) /\ UNCHANGED excused
  \/ "rm" \in job.faults /\ x \in objects /\ UNCHANGED objects /\ excused' = excused \cup {x}

After == [rmHealth |-> "failed", unseed |-> "rmKeeper", rmStarted |-> "rmKeeper",
          rmKeeper |-> "rmSecret", rmSecret |-> "rmOutput"]
Removed == [rmHealth |-> "health", unseed |-> "secret", rmStarted |-> "keeper",
            rmKeeper |-> "keeper", rmSecret |-> "secret", rmOutput |-> "output"]

(* The worker dies with its keeper. *)
KillKeeper(x) ==
  IF x = "keeper" /\ "keeper" \notin objects'
  THEN alive' = FALSE /\ wpc' = (IF Working THEN "stopped" ELSE wpc)
                      /\ wexit' = (IF Working THEN "killed" ELSE wexit)
  ELSE UNCHANGED <<alive, wpc, wexit>>

CleanUp ==
  /\ pc \in DOMAIN Removed
  /\ IF pc \in {"rmSecret", "rmOutput"} /\ Removed[pc] \notin held
     THEN UNCHANGED <<objects, excused, alive, wpc, wexit>>
     ELSE TryRemove(Removed[pc]) /\ KillKeeper(Removed[pc])
  /\ Then(IF pc = "rmOutput" THEN (IF staged = NoCopy THEN "failed" ELSE "publish") ELSE After[pc])
  /\ UNCHANGED <<job, lines, volume, assetVars, held, late, pdf, staged, published>>

(* publish_candidate_run validates everything again, the source included,  *)
(* and then CandidatePublication goes on; stderr is only kept of a run      *)
(* without a secret.                                                        *)
Publish ==
  /\ pc = "publish"
  /\ IF CandidateAccepted(job.request, pdf, HealthDocument, job.approved, lines, Staging(staged))
     THEN /\ published' = [copy |-> staged, lines |-> lines, source |-> pdf.digest,
                           log |-> IF job.profile.usesSecret THEN "" ELSE job.stderr]
          /\ pc' \in {"published", "failed"}
     ELSE Then("failed") /\ UNCHANGED published
  /\ UNCHANGED <<Rest, held, objects, late, excused, alive, pdf, staged>>

Host ==
  \/ Begin \/ Health \/ CreateOutput \/ CreateSecret \/ Seed \/ StartKeeper \/ VerifyMount
  \/ ExecEnds \/ ExecTimesOut \/ CopyOutput \/ Scan \/ CleanUp \/ Publish

-----------------------------------------------------------------------------
(* The daemon performs what a killed client asked for.  A keeper makes the  *)
(* named volumes it mounts when they are gone.                              *)
LateCreation ==
  \E x \in late :
    LET new == {x} \cup (IF x = "keeper" THEN held ELSE IF x = "seeder" THEN {"secret"} ELSE {}) IN
    /\ late' = late \ {x}
    /\ objects' = objects \cup new
    /\ excused' = excused \cup new
    /\ UNCHANGED <<Rest, pc, held, alive, pdf, staged, published>>

(* A health check of the keeper, beside the worker. *)
Probe(c) ==
  /\ alive /\ c # RunCall /\ at[c] = "off"
  /\ Move(c, "begin")
  /\ UNCHANGED <<links, dirs, cacheDb, todo, made, answer, full, job, workerVars, hostVars>>

AssetStep(c) == alive /\ Materialize(c) /\ UNCHANGED <<job, workerVars, hostVars>>

WorkerStep == alive /\ Work /\ UNCHANGED <<job, hostVars>>

WorkerKilled ==
  /\ "oom" \in job.faults /\ Working
  /\ wpc' = "stopped" /\ wexit' = "killed"
  /\ UNCHANGED <<job, lines, volume, assetVars, hostVars>>

KeeperDies ==
  /\ "keeper" \in job.faults /\ alive
  /\ alive' = FALSE
  /\ wpc' = (IF Working THEN "stopped" ELSE wpc)
  /\ wexit' = (IF Working THEN "killed" ELSE wexit)
  /\ UNCHANGED <<job, lines, volume, assetVars, pc, held, objects, late, excused, pdf, staged,
                 published>>

(* The paper's source PDF is exchanged while the worker runs on its copy.   *)
ReplaceSource ==
  /\ "replace" \in job.faults /\ pdf = job.source /\ pc \notin Ended
  /\ pdf' = [pdf EXCEPT !.digest = "other"]
  /\ UNCHANGED <<Rest, pc, held, objects, late, excused, alive, staged, published>>

Next ==
  \/ Host \/ WorkerStep \/ LateCreation \/ WorkerKilled \/ KeeperDies \/ ReplaceSource
  \/ \E c \in Calls : AssetStep(c) \/ Probe(c)

Spec == Init /\ [][Next]_vars /\ WF_vars(Host)

-----------------------------------------------------------------------------
(* What is published is what a worker that ended well left in its volume,   *)
(* made from the bytes the paper's PDF still has, with every page where it  *)
(* was: a keeper, worker or copy that failed on the way, and a PDF that was *)
(* exchanged meanwhile, all end in a refusal.                               *)
PublishedIsWhole ==
  published # NoCopy =>
    /\ wexit = "ok" /\ published.copy = volume
    /\ published.source = job.request.sourceDigest
    /\ \A r \in job.request.outputs : published.copy.kept[r].kind = "good"

(* The provider's secret is in no file, event or log that is published.     *)
NoSecretRetained ==
  published # NoCopy /\ job.profile.usesSecret =>
    LeakyRoles(published.copy.kept) = {} /\ ~ job.leakyEvents /\ published.log # "secret"

(* The secret is handed to docker only for an image that holds exactly the  *)
(* reviewed trees and a gateway nobody reconfigured.                        *)
SecretAfterReview ==
  "secret" \in objects =>
    /\ job.image.sourceTree = [p \in Paths(Reviewed.sources) |-> [kind |-> "file", digest |-> p]]
    /\ job.image.assetTree = [p \in Paths(Reviewed.assets) |-> [kind |-> "file", digest |-> p]]
    /\ job.network.peers = {job.profile.gateway} /\ job.gateway.overrides = {}

(* However a run ends, what outlives it is what docker did not confirm: an  *)
(* object whose creation timed out, whose removal failed, or a volume such  *)
(* a container still uses.                                                  *)
NothingOutlives ==
  pc \in Ended =>
    objects \subseteq excused \cup (IF excused \cap {"keeper", "seeder"} # {} THEN Volumes ELSE {})

(* The promise of workers/babeldoc/README.md: keeper, secret volume and     *)
(* output volume are deleted in the finally block.  It is not kept when the *)
(* creation of a volume times out.                                          *)
VolumesRemoved == pc \in Ended => objects \cap Volumes = {}

(* Every docker call has a deadline, so a run ends even when its worker     *)
(* hangs.                                                                   *)
RunEnds == <>(pc \in Ended)
=============================================================================
