# PaperTrans: TLA+ models, checks and proofs

PaperTrans translates papers on the user's own machine. Several operating-system
processes share one data tree and no database: a Next.js Web server, a Python MCP
server, command-line pipelines, detached PDF-import workers and container
workers. What they agree on they agree on through files, directories, `flock`
and process groups, and every one of them may be killed between two calls. This
directory models those agreements in TLA+, checks them with TLC and proves most
of the safety properties with TLAPS.

## 1. Inventory

| component | source | state it keeps | operations |
|---|---|---|---|
| PDF-import admission | `lib/pdf-import/admission.ts`, `lib/pdf-import/process-supervision.ts`, `app/api/papers/import/route.ts` | in-process symbol; guard and lock directories with owner records; supervision closure and timers; worker process group | claim, record pid, transfer, release, reclaim stale, terminate at deadline |
| PDF-import status | `src/papertrans/pdf_import_status.py`, `src/papertrans/local_app.py` | none (reads the lock) | classify idle/starting/running/stale/unknown, "artifacts safe" |
| Library state | `lib/library-state.ts`, tag/library routes | `library.json`, `.library.lock` directory | patch tags, read mark, favourite under a lock |
| MCP translation jobs | `src/papertrans/chatgpt_worker.py`, `mcp_server.py` | per job: manifest, semantic document, chunk results, PDF manifest, artifacts; `flock` | prepare, next chunk, save chunk, finalize, status |
| PDF artifacts and job manifest | `src/papertrans/pdf_artifacts.py` | `papertrans-job.json` under `flock` | write job manifest, QA, chunk packing |
| Candidate publication and promotion | `src/papertrans/pdf_translation_worker.py` | run directory, publish lock, staging directory, job manifest | validate events and result, publish once, promote |
| Candidate acceptance | `src/papertrans/pdf_translation_worker.py` | none | validate request, health, events, result, files, page maps, QA |
| Container supervisor | `src/papertrans/pdf_translation_supervisor.py` | containers, volumes, bounded processes | provision, run, verify, clean up |
| Container workers | `workers/babeldoc`, `workers/harumi` | event stream, output volume, linked runtime assets | run the engine, emit events, write result, answer health checks |
| Launcher | `src/papertrans/local_runtime.py`, `local_app.py` | runtime lock, state file, child processes | start, monitor, stop |
| Setup | `src/papertrans/local_setup.py`, `local_model_download.py` | setup lock, model directory, build fingerprints | install, download and swap models, build |
| Docling runtime | `src/papertrans/docling_worker_runtime.py`, `docling_worker.py`, `docling_adapter.py` | worker process tree, request/response files, resource limits | bounded run, memory and time limits, partial retry |
| Semantic pipeline | `src/papertrans/cli.py`, `semantic_translate.py`, `structure.py`, ... | page-batch and translation caches, document, pages, bundle, manifest | stages of one import, rerun over what an earlier one left |
| Document structure | `src/papertrans/docling_adapter.py`, `semantic.py`, `structure.py`, `pdf_artifacts.py` | sections, blocks, visuals, captions, what readers see | convert, fourteen repair passes, semantic document, QA |
| arXiv acquisition | `src/papertrans/arxiv_html.py`, `arxiv_markdown.py` | staging directory | fetch with limits, normalise |
| Rendering and layout extraction | `markdown_render.py`, `render.py`, `extract.py`, `deterministic_structure.py`, ... | none | pure functions on documents |
| Web pages and read-only routes | `app/`, `lib/paper-library.ts`, `lib/i18n.ts` | none | list, download, display |

## 2. Hard behaviours

* Several processes mutate one directory with `mkdir`, `unlink`, `rename` and
  `rmdir`; every check is separated from the call that relies on it.
* Any process may die between two calls; what it leaves must neither block the
  next one for ever nor be mistaken for a live owner.
* Staleness is judged by time (two minutes, thirty seconds) against owners that
  may merely be slow.
* Timers, exit events and awaits race inside one Web process; a memory monitor, a
  deadline and an exit code race inside one Docling conversion.
* Files that describe each other (document, result, manifest, job manifest) are
  written one after the other, pages are rewritten in place, and unlocked readers
  look in between.
* A docker client that is killed at its deadline leaves the daemon at work, so an
  object may appear after the caller has given it up; a health check prepares the
  same files as the run it watches.
* What a cache, a record or a directory that is never cleared holds (fingerprints,
  page batches, chunk answers, pictures) may be about an earlier checkout, PDF or
  document; and a fingerprint that agrees says nothing of a tool that was killed.
* Fourteen passes hide, join, relabel and move the same blocks of a document, each
  correct by itself.

## 3. Plan

The order follows what the program must not get wrong: two imports, two library
updates or two translation calls that destroy each other's work; then what the
pipelines make of a paper, and the machinery around them. Every component is a
module of its own; a promise that a user of the component would recognise is an
abstract module that the component is shown to implement.

| step | modules | promise stated as | proofs |
|---|---|---|---|
| 1, done | PdfImportAdmission | SingleImport | every safety property; exclusion and refinement without the four faults that break them |
| 2, done | LibraryTags, LibraryState, PaperTags | LibraryUpdates | mutual exclusion, refinement, no spurious failure; what is stored loads, a change is exact |
| 3, done | TranslationJob | TranslationRecord | every safety property, refinement |
| 4, done | CandidatePublication | RunRegistry | every safety property, refinement |
| 5, done | PrepareJob | | every safety property |
| 6, done | CandidateAcceptance, TranslationChunks, HostRules | definitions by quantifiers | every property of the run |
| 7, done | RuntimeAssets, WorkerReadiness, BabeldocWorker, ContainerRun | nothing outlives a run unexplained | every safety property |
| 8, done | LocalSetup, Launcher | what is called ready was made from the hashed checkout; models kept | every safety property |
| 9, done | DoclingWorker, SemanticPipeline | a published page and its pictures are one run's | every safety property |
| 10, done | SemanticDocument, DoclingConversion, DoclingRepairs, DoclingVisuals, DoclingPasses | a tree of sections, no text lost | every safety property |
| 11, left | ImportRoute: `existingDigest`, `reserveImportDirectories`, `rollbackReservedImport` composed with PdfImportAdmission | a rejected upload leaves no directory | |
| 12, left | ArxivAcquisition: fetch with limits into the staging directory PrepareJob renames | | |

The runs answer twelve questions with forty-one properties. Where TLAPS proved a
property for every value of the constants, its run made room for the components
of steps 6 to 10; section 5 names the properties that are stated and hold but that
no listed run repeats.

Runs stay at two or three actors per component: each of the races listed above
needs two, and the third, where it is affordable, shows that what one leaves behind
does not help or hurt somebody who comes later.

## 4. Modules and the code

**PdfImportAdmission** (with SingleImport, MCPdfImportAdmission). One element of
`Owner` is one POST of the import route with the UUIDs it draws. `mem` is the
module-level symbol of a Web process, `kind`, `aged`, `json` and `tmp` are what is
on the disk at the two directory paths, `sup` is the closure of
`preparePdfImportChildSupervision` with its timers and flags, `group` is the
detached process group of the worker, `rel` the release in progress. Each
file-system call is an action (`Mkdir`, `OpenRecord`, `WriteRecord`,
`ReadExisting`, `ListRemnants`, `UnlinkStale`, `RemoveStale`, ...), so the checks of
`admission.ts` are separated from the calls that rely on them exactly where the
code separates them. `NotReady` is the exit of a request that finds the worker's
runtime not ready. `SetupExpires` and `DirectoryAges` are the two-minute
clocks, `CrashWeb` the exit of a Web process between any two calls.

**LibraryState** (with LibraryTags, LibraryUpdates, MCLibraryState). One element
of `Update` is one call of `savePaperLibraryStateAt`. `lock`, `records` and
`aged` are the lock directory, `papers` is `library.json`, `late` the five-second
deadline; `UpdateFails` is a library that is refused or a rename that fails. The patch
is applied by the operators of **LibraryTags** (`NormalizeTags`, `Patched`), which
**PaperTags** drives with every request of a few words.

**TranslationJob** (with TranslationRecord, MCTranslationJob). `document`,
`results`, `manifest`, `paper`, `html` and `bundle` are the files of a job, `lock`
and `paperLock` the two flocks, `loaded` what a call has read. The JSON files and the
ZIP are replaced at once, one action each, in the order of `_save_chunk_locked` and
`_finalize_locked`. The pages are not: `render_semantic_document` removes `assets/`
(`RemoveAssets`), rewrites `index.html` (`WriteIndex`) and then the other files
(`WritePages`) in place, and `html.whole` is false from the first of these to the last,
whichever files are there meanwhile. A PDF with pages that have no text is rendered a
second time after its QA (`loaded.again`). An arXiv job is rendered once, QA in
between. `Abort` ends a call between any two of these or within one. `Upgrade` installs
a release whose renderer makes the manifest's version older or unsafe, or current again
when an earlier release is put back. An action that begins a call holds the flock and
reads the files at once, because only the holder replaces them; the one file that is
also written without the job's flock is read by an action of its own (`ReadPaper`,
`ReadPromoted`). Texts are model values; `Broken` texts fail QA and `Flagged` ones come
with a warning.

**CandidatePublication** (with RunRegistry, MCCandidatePublication). One action
per file-system call of `publish_candidate_run`, the directories first
(`existing`, `seen`), then the lock file, the staging directory, the second
check, the copies, the rename and the `finally` block. Promotion reads a run and
names it in the paper's manifest in two steps.

**PrepareJob** (with MCPrepareJob). The calls of `prepare` for one job id, under
the flock TranslationJob also uses, with the two checks of the job's directory,
`rmdir` and the rename. `UseDirectory` puts a directory or data at
the job's path at any moment, as the PDF pipeline may.

**CandidateAcceptance** is what the host accepts of a worker: request, health,
event stream, result document, files, PDF actions, page maps and QA status, one
conjunct per check. A digest stands for a content; a field that only has to have a
form is part of one flag `wellFormed`.

**ContainerRun** (with BabeldocWorker, WorkerReadiness, RuntimeAssets,
CandidateAcceptance, MCContainerRun) is `run_container_candidate`. `objects` are the
containers and volumes that exist, `held` those the call knows of, `late` the
creations whose client was killed and that the daemon may still carry out.
Docker is external: any call may be refused, be late or fail to remove, when the
job's faults say so. **BabeldocWorker** is the process in the container: request,
readiness, engine, collection, report and events, killed anywhere; the engine
makes any of a few outputs. **WorkerReadiness** compares the image with what was
reviewed, **RuntimeAssets** links the runtime assets file by file, for the run and
for the health check at the same time, and undoes what it linked when it fails.

**LocalSetup** and **Launcher** are `papertrans setup` and
`papertrans start`: the probe of the runtime lock, the setup lock, the
installation, the model download and the two renames that swap it in, the build
and the record of each; then the runtime lock, ports, the two services in sessions
of their own, readiness, the state file, monitoring and the shutdown. The checkout
has three parts: `deps` (package.json and the lock file), `tree` (what `_hash_tree`
hashes besides) and `proxy` (proxy.ts, which Next compiles and `_hash_tree` leaves out).
A number stands for the content of a part, a fingerprint for that of what is hashed
(`Hashed`). `Edit` gives a part a new content or puts an earlier one back, at any time;
`Kill` ends a launcher outright and leaves its services. The last five variables are
history: they record what was put back (`back`) and what was cut short (`unsure`) for
the properties, and no action of the program reads them, except that `changed` says
whether pnpm or Next saw an edit while it read the checkout.

**SemanticPipeline** (over DoclingWorker, with MCSemanticPipeline). **DoclingWorker**
is one conversion: the calling thread, the child process, a helper the child starts
that inherits its stderr, the memory monitor and the deadline, the second attempt
after a partial answer, the resource limits put back. SemanticPipeline is `main`
around it: page batches and their cache, review, the pictures, the semantic document
written in place (a kill leaves it torn), the translations it takes over from the
document on disk, the pool with its cache and retries, and the files of `html/`, the
bundle and the manifest in their order. `assets` says which run drew the picture of
each name in `work/assets`: a run draws the pictures of its structure and removes the
blank ones (`Draw`), but the directory is never cleared, and `RenderAssets` copies all
of it; `shown` are the pictures the page of this run refers to. `Kill` ends a run
anywhere, also within a step (`CutShort`: a torn file, some of the pictures, part of a
copy), and the next one begins over what is on the disk, for the same PDF or another.

**DoclingPasses** (over SemanticDocument, DoclingConversion, DoclingRepairs and
DoclingVisuals, with MCDoclingPasses) is `_extract_docling_semantics_bounded` after
Docling has answered. A paper is a sequence of items with a kind, a page, a level
and what they lie in. **DoclingConversion** makes sections, blocks, visuals and
captions of them; **DoclingRepairs** and **DoclingVisuals** hold one operator per
repair pass; **SemanticDocument** is what `semantic.py` makes of the result and what
the QA of `pdf_artifacts.py` says of it. DoclingPasses applies them in the order of
the code, one action per pass and outcome. What floating-point boxes and wording
decide in a pass (which line overlaps which picture, whether a line continues a
sentence) is chosen freely among the blocks the pass would consider, so a property
that holds does not depend on the thresholds.

**TranslationChunks** holds the packing rule of `pdf_translation_chunks` and the
count of `readPdfMcpProgress` in the Web, each translated from its own source.
**HostRules** (with PaperTags and MCHostRules) puts to the host's rules whatever may
be put to them: requests for tags, event lines, page maps, documents.

Definitions whose name is not part of any specification and whose comment begins with
"Mutant" are the faulty forms with which each property was seen to fail;
PROJECT.json pairs them with the property.

## 5. Runs

| run | actors and switches | shows |
|---|---|---|
| import | 2 Web processes that crash and come back, 2 requests, a legacy lock file or none; crashes with an empty or half-written lock; fairness | refinement of SingleImport, truthful status, every admission ends, leftovers become removable |
| import_slow_setup | 2 processes, 2 requests that take longer than the two minutes; crashes anywhere | a request that lost its admission still supervises its worker; release after the group's exit |
| library | 2 processes, 2 updates of one paper; crash with an empty lock, failing writes; fairness | refinement of LibraryUpdates, updates end, dead owners are replaced |
| job | 2 clients that come back, a promoter, 2 chunks, 2 texts, one rendering or two, later releases, calls ending anywhere, within a page too; fairness | published means translated, with a ZIP and a first page of the document and no torn page that is current; manifest updates kept, refinement of TranslationRecord, the job completes |
| job_stale | 2 clients, an HTML job; overwrites, calls ending anywhere | violation, section 8 |
| candidate_runs | 2 publishers of one run id, 1 of another, a promoter; failing writes, failing `mkdtemp`, kills | published runs whole, calls clean up, refinement of RunRegistry |
| prepare_job | 3 calls for 2 papers, other software, failures, kills | no data deleted or replaced, nobody turned away without a reason |
| container | the good run with any fault and one that hinders clean-up, 17 variations with one thing odd or wrong; a health check beside the worker; 5 engine outputs; fairness | published means reviewed, whole and of this PDF; nothing unexplained is left; a completed event is about files that are there; ready assets stay; the call ends |
| launcher | 2 starts over broken models, 2 edits of the dependencies, new or back to an earlier content, or a removed `node_modules`, a kill, services that cannot be started; fairness | ready means made from the hashed checkout, but for a content put back over an unfinished installation or build; models kept, no stray service, commands end |
| pipeline | 2 runs, 2 units, 2 texts, 2 PDFs, a picture, 2 parsers or modes each; kills within every write, torn files, failing chunks and conversions; fairness | a document only of a conversion within its limits, a presented page is a checked one with the pictures its own run drew, translations kept, pipelines end |
| structure | 18 papers of three to seven items, every choice of the passes | sections stay a tree unless a picture was cut and panels merged, an equation ends the paragraph before it, passing QA means no text lost |
| rules | requests of up to 4 words, streams of up to 4 lines, PDFs of 2 source pages, documents of 5 sections and items | the stored library loads, a change is exact, accepted streams and page maps are whole, the Web and the MCP server count the same chunks |

`Faults` (and `Aborts`, `Crashes`, `Fails`, `Foreign`, `Releases`, `Overwrites`, `Edited`, and
the `faults` of a container job) choose what may go wrong in a run. The comment
beside the constant in each module says what each name admits. They are separate
because a property that fails under one of them is still worth having under the
others, and because the theorems then say exactly what each property depends on.

**Why the bounds are enough.** *import, library:* the one who leaves something
behind and the one who must get past it, over two processes so that a process can
die without the other; both updates change the tags of the same paper, so that an update that is lost shows.
*job:* two chunks, one translated and one pending, so that a job can be ready,
incomplete and replaced; two texts, the one there and the one that replaces it.
*candidate_runs:* a rival for the id and a rival for the directories. *container:*
`MaxProgress` = 1, since the worker's later progress events meet the same checks;
`Quota` = 5 just holds the smallest pair of outputs, their copies and the report, so the volume
fills at a copy or at the report as soon as one is larger; every fault occurs with a failing or a late removal, and any number of times.
*launcher:* `MaxKills` = 1 and `MaxEdits` = 2: one launcher killed between any two steps,
and around an installation that was killed an edit and the way back; an edit of the
dependencies changes the content that both `node_modules` and the Web build are compared
with. A second start meets what they leave. `ReadyIsCurrent` held as well with four edits
of all three parts and two setups, one of them `--dev` (`Starts = {}`, `Dev = {"b"}`,
`MaxEdits = 4`, `Edited = {"deps", "tree", "proxy"}`), and the other three properties with
a start `--dev` and one edit of `deps` or `tree`.
*pipeline:* the second run meets whatever the first one left, killed or not; two
units whose texts the second PDF swaps, repeats or keeps are what taking over a
translation depends on; two threads; a picture that either run draws, leaves out or finds
blank. A chunk is tried once, since the second run asks again for what failed. The
properties of the translation held as well with a retry and no picture, and
`PublishedStatusIsEarned` with two pictures and one text. *structure:* each paper holds what
one or two passes look for, together with the neighbours that could be confused
with it; at most one preface, one overlarge picture and one pair of split panels
are repaired in one paper. *rules:* four words reach the limit of two
tags with a repetition and a blank among them; four lines are a whole stream with
one line to repeat, drop or swap; five items make chunks that are full, too long and too short.
`MaxTries` of a record is the constant of the source, not a bound of ours.
Symmetry is used in import_slow_setup only, where no liveness is checked.

**Stated, true, and in no listed run.** These held when they were checked on the
instances above, and can be added to the configuration of their module.
Theorems: `OneImportAtATime`, `AdmissionKept`, `GuardExclusive` (import; the first is
what SingleImport says), `LiveRecordKept`, and with `Faults = {}` `OneUpdateAtATime` and
`NoSpuriousFailure` (library), `NoFileAhead`, `SaveRepairs`, `FinalizePublishes`,
`OverwriteIsAsked`, `CurrentArtifactsPassed` (job), `RenameIsFree`, `LockKept` (candidate
runs), `AnsweredIsPrepared`, `StagingRemoved` (prepare), `NoSecretRetained`
(container), `ConversionReleased`, `TranslationsMatch` (pipeline). Model-checked:
`NormalizeTagsIsReference` (rules), `SecretAfterReview` (container),
`NoHalfLinkedCache` (assets), `OwnServicesOrNone` (launcher), `PdfTranslationKept`
(pipeline).

**Deadlock** is not checked where calls and requests are finite in number: a run
in which all of them have ended may stop. The structure run checks it.

## 6. Fairness

* *import*: weak fairness of the steps of requests, timers and
  background calls of a live Web process (its event loop), of the death of a
  group that was sent SIGKILL (the kernel) and of the clocks. None for a worker
  that finishes by itself, for a crash or for a restart: a wedged worker must be
  ended by its deadline.
* *library*: weak fairness of each update of a live process and of its
  deadline.
* *job*: a call that runs goes on (weak fairness). A client that comes back
  is given a pending chunk by `next_chunk` and saves it, or finalizes, whenever the
  flock keeps becoming free: strong fairness for each client, since another caller
  may hold the flock at any one moment. The property itself assumes that calls are
  eventually not cut short any more.
* *container*: weak fairness of the host alone. Every docker call has a deadline
  and the copy and the scan are finite; nothing is assumed of the daemon,
  the worker or the engine, which may hang.
* *launcher*: weak fairness of each command (the children it waits for end or
  have a deadline) and of a started service trying its port. None for services
  that end, signals, edits or kills.
* *pipeline*: weak fairness of the main thread, of the threads of the pool (a
  model call has a timeout), of the deadline and of a round of the memory monitor.
  `PipelineEnds` assumes in addition that what Docling's worker starts lets go of
  its stderr: the reader thread has no deadline of its own.

## 7. Proofs

All theorems are for every value of the constants, under the assumptions named in
the modules (kinds of actors are disjoint, "no one" is nobody, a tag list is not
a state). Eight modules hold them; each invariant was first checked by TLC on the
instance of a run. What is proved and already implied by a refinement is no longer
part of a run.

* **PdfImportAdmission_proofs**: `TypeCorrect`, one lemma per group of actions, and
  `WorkersSupervised`, both under every fault. The latter is not inductive:
  `SupervisedInv` adds that a request that has not spawned has no worker and has
  seen no exit, and that an exit seen while descendants live leaves SIGKILL or the
  poll pending, which is why the transfer may leave the deadline unarmed then.
  `ReleasesFollowExit` (from `ClosureInv`: a poll is armed only once the request is
  over) needs that recording the pid does not outlast the termination grace, and
  nothing else.
  `OneAtATime`, `StatusTruthful`, `AdmissionsKept`, `ClaimsExclusive` and
  `Refinement` rest on one invariant, `AdmissionInv`: each of the two directories
  has at most one *user*, the request that may still create, record or remove
  something in it, and it has one exactly while it exists (`GuardInv`, `LockInv`);
  the record is complete from the grant of the admission to the end of its worker
  (`RecordInv`); and what a claimer has judged stale belongs to nobody who is alive.
  The exclusion of two workers alone is not inductive: nothing in it stops a
  claimer from removing a directory whose owner is between two calls.
  The hypothesis is `Faults \subseteq {"torn_lock"}`: crashes that leave an
  admission half written, exits of the Web process at every other step and legacy
  lock files are included. Each of the other faults is left out because it breaks a
  conclusion: `crash_spawn` and `slow_record` break the exclusion of two workers and the
  truth of the status, `slow_setup` all of them (so `AdmissionsKept` is about requests
  that start their worker within the two minutes; after these the code does reclaim the
  admission of a request that is still alive, section 8), and `torn_guard` the exclusive
  claim, with three owners (the other three held there, in 1,069,951
  states under symmetry).
  The refinement maps each step to the grant, the start, the exit or the removal of
  SingleImport, or to a stutter.
* **LibraryState_proofs**: `TypeCorrect`, and under every fault
  `RecordsAreKept` (a record is removed by its owner or after its owner died;
  the invariant `DeadSeen` says what a claimer knows when it unlinks). Under
  `Punctual`, that is without crashes or pauses that leave the directory empty for
  thirty seconds: `MutualExclusion`, `Refinement` and `NoFailure`. Exclusion is
  not inductive: `LockInv` adds that an owner has its record in the directory,
  that there is one record, and that an empty directory always has a live call
  that answers for it (`EmptyAttended`), so nobody may take it for stale. The
  refinement adds that what an owner loaded is still in the file.
  The second half of the module is about the run *rules*. `StoredTagsLoad` and
  `ChangesAreExact` hold for lists of any length: `KeepFirstCleans` and
  `KeepFirstKeeps` say what the loop of `normalizeTags` makes of a list (every form
  once, a clean beginning kept as it is), so that `Normal`, what the file may hold,
  is what normalising leaves alone, and `MergeKeeps`, `WithoutIsNormal` and
  `WithoutKeeps` carry it through a change. `StreamsAreWhole` derives what holds of
  any two lines of an accepted stream from the comparison of neighbours;
  `MapsPairPages` inverts the page map. `ProgressIsShared` compares the loop that packs
  units into chunks (MCP) with the one that counts them (Web) over all prefixes of a
  document: both close a chunk before the same units, so the counts agree, and
  the chunks laid end to end are the units in reading order.
  The folds are handled by `SetIterates` and `FoldSteps`, which unfold the recursion of
  the community modules, and `UpTo`, induction over 0 .. n for a *set* of numbers,
  which follows from the least-number principle (`LeastNatural`); the library's
  induction theorem takes an operator and cannot be used.
* **TranslationJob_proofs**: `JobInv` says for every point of a call what the call
  knows about the files: `ReadIsCurrent` (what it read is what is there),
  `SaveProgress` and `FinalizeProgress` (which files already agree), and for the
  files at any time `FilesInv`. From it `NothingAhead`, `PublishedTranslated`,
  `CurrentPassed`, `SavesRepair`, `FinalizesPublish`, `OverwritesAsked`,
  `UpdatesKept` and the refinement of TranslationRecord. `FinalizeProgress` follows the
  rendering file by file: where a call is past the first page (`Shown`), past the last
  one (`Complete`) and past QA (`Checked`), in the first rendering and in the second.
  In TranslationRecord making pages takes steps and may stop between them, so the
  refinement says what an interrupted finalize leaves: the old first page or the new
  one, and pages that are not whole until one finalize has written all of them.
  `CurrentPassed` needs `Forwards` (no release is put back to the one that rendered the
  pages), since pages torn under a later release are otherwise called current again
  (section 8). `PublishedCurrent` needs `Forwards`,
  `WholeOverwrites` (no overwriting, or no call that ends early) and `PagesInv`,
  which allows pages to be behind the document only between the first write
  of an overwrite and the withdrawal of the pages.
* **CandidatePublication_proofs**: `PublicationInv` says that a publisher between
  lock and unlock holds the lock file of its run, that the destination is free
  from the second check to the rename, and that what was renamed is whole and stays.
  From it `RenameFree`, `PublishedWhole`, `LocksKept` and the refinement of
  RunRegistry, under every fault. `CallsCleanUp` holds under every fault too, for
  the calls that are neither killed nor denied their staging directory;
  `RefusalsTruthful` assumes that neither happens to anybody (section 8).
  The last section of the module is about PrepareJob, which shares the flock:
  `JobDirectoryInv` adds to the types that a call past its
  first line holds the flock (`FlockHeld`), that nobody else can publish while one
  builds and that it renames only a whole directory (`BuildingAlone`), and that
  whoever was turned away had and still has a reason (`VerdictJustified`). From it
  `PreparesShared`, `AnswersPrepared` and `StagingsRemoved`; `DataIsKept` follows from
  the guards of the two steps that remove something and from `BuildingAlone`.
* **ContainerRun_proofs**: one part of `Inv` per thing that is shared. `AssetsInv`: at
  most one call has linked something, and then everything linked is its own, or
  rolling back would take the links of a ready call. `RemovalInv`: what exists and is
  not excused is what the call still knows of. `StartInv`, `VolumeInv` and
  `LinesInv`: how far the worker is, what its output volume then holds and what it
  has written so far, line by line. `PublishInv`: a staged copy is all of the volume
  of a worker that ended well, or nothing, and one that passed the scan holds no
  secret. From them `ReadyStaysReady`, `LeftoversAreExcused`, `CompletedWhole`,
  `PublishedWhole` and `SecretStaysOut`, under every fault. The assumptions are
  about inputs: assets have different paths, a digest and a page sequence belong
  to the source, the engine's outputs are of its kinds.
* **Launcher_proofs**: `SetupInv` says what the holder of the setup lock has done so
  far, `RuntimeInv` which services, ports and announcements belong to a command at each
  of its steps. A record that equals the checkout describes what is there for one of two
  reasons, which `NodeInv` and `BuildInv` state side by side: the content was never left
  (`NeverLeft`), so nobody can have worked under another one since, or what was made
  is recorded and was made while nothing changed (not `unsure`). `PlanInv` says what the
  fingerprints computed before an installation are worth after an edit (`Steady`: there
  was none), and `NothingNewer` that no record, plan or content is newer than the newest
  one, so that a new content agrees with no record. `ModelsInv`: one of the two places
  always holds the tree. `ReadinessIsCurrent`, `OneAtATime`, `NothingStrays` and
  `ModelsStay` follow.
* **SemanticPipeline_proofs**: `ConversionInv` (a document is answered only by an
  attempt without failure, and a pipeline that is not converting holds nothing),
  `DocumentInv` and `PoolInv` (a unit without a translation is in a chunk that is
  still to be applied; every translation matches its text), `FilesInv` (which pictures of
  `work/assets` and which files of `html/` are this run's at each step). From them `DocumentsAreEarned`,
  `ConversionsAreReleased`, `PublishedStatusEarned`,
  `TranslationsStandUnderTheirOriginals` and `TranslationsAreKept`, for any number of
  kills and over any files left by earlier runs.

* **DoclingPasses_proofs**: for papers of any length and whatever is chosen in each
  pass. Its `PassesInv` strengthens as the passes go on. *Early*, up to the equations:
  blocks are in a linear order, sections and blocks name sections that are there,
  and a section comes after its parent and before what is in it (`Nested`), so that
  no section can be inside itself (`NestedIsRooted`: take the first of a set of
  sections). A paragraph is named by its first block or one that was its first (`Grouped`), and
  as long as prose is not moved behind its equation a block that continues none is
  alone or first (`Fresh`); so cutting a paragraph behind an equation leaves nothing
  of it behind the cut (`Ended`, the content of `EquationsEnd`). *Recut*, after the
  overlarge pictures: what a picture gives back is put under the section the picture
  stands in, where it may come before its parent; sections are still a tree because
  the new ones are leaves of the old one, and `Nested` holds if nothing was cut.
  *Merged*, from then on: replacing the parent of a section by one that comes
  before keeps `Nested`, so it keeps the tree unless a picture was cut. One lemma
  per pass says that it keeps this; the longest are about the folds over lines
  (`Release`) and over the rows of panels. `SectionsHold` and `EquationsEnd` follow.
  `PassedComplete` needs `BuildInv` only: what QA has seen was built of a structure
  that was accepted, and the cover of texts, headings, captions and visuals is
  computed from the definitions of the document.

Every safety property that a passing run checks is proved. Only model-checked are the
liveness properties `AdmissionEnds`, `LeftoverReclaimable`, `UpdateEnds`,
`DeadOwnerReplaced`, `JobCompletes`, `RunEnds`, `CommandEnds` and `PipelineEnds` (the
prover has neither fairness nor ENABLED in reach), and the five properties that
section 5 names as model-checked.

## 8. Where code and documents disagree

One run ends with a counterexample; PROJECT.json quotes the sentence that the
code does not keep.

* *job_stale*: an overwriting save that ends between the document and the manifest
  leaves a manifest that says completed, and every later finalize answers with
  the pages of the replaced text.

The following come from the definitions of the modules with the property added
to the configuration named; TLC then ends with a counterexample.

* A crash leaves `.library.lock` empty; thirty seconds later two updates reclaim it and
  both are inside (CHANGELOG.md:14): `OneUpdateAtATime` in LibraryState.cfg with
  `SPECIFICATION Spec`, `Update = {u1, u2, u3}`, `PaperOf <- MCPaperOf`,
  `PatchOf <- MCPatchOf`, `Faults = {"torn"}` and `SYMMETRY Symmetry`.
* A request that reads its upload for over two minutes has its admission reclaimed under
  it, and a second import begins: `AdmissionKept` in PdfImportAdmission.cfg with
  `Faults = {"slow_setup"}`.
* The Web process exits between `spawn` and the pid record. After two minutes the
  lock without a pid is stale, and a second import starts beside the detached
  worker: `OneImportAtATime` in PdfImportAdmission.cfg with
  `Faults = {"crash_spawn"}`.
* A child that exits leaving descendants, while recording its pid takes over five
  seconds, gives its admission back before its group is gone:
  `ReleaseAfterGroupExit` in PdfImportAdmission.cfg with `Faults = {"slow_record"}`.
* The clean-up of an unreadable directory lists it after it was judged, and may
  unlink the complete record, still in force, of a claimer that has replaced it:
  `RemnantRemovalHarmless` in PdfImportAdmission.cfg with `Faults = {"torn_guard"}`
  and three owners.
* A save that is sent again after the job was finalized withdraws the published
  paper until finalize runs again: `ReplayChangesNothing` in TranslationJob.cfg or
  TranslationJobStale.cfg.
* The pages are rewritten in place. A release with another renderer is installed, a
  finalize renders the published paper again and is killed among the pages: a mixture of
  two renderings, or half a page, is offered until finalize is called again
  (`PagesAreWhole == lock = NoOne /\ Published => html.whole` in TranslationJob.cfg). If
  the earlier release is put back before that, the manifest calls the torn pages current
  and no finalize renders them: `PublishedIsCurrent` in TranslationJob.cfg with
  `Releases = {"unsafe", "older", "current"}`.
* An installation or a build is killed, or runs while the checkout is edited, and then
  the checkout is put back to the content the record names: doctor and start call it
  ready, whatever is in `node_modules` or `.next` (local_setup.py:509-515).
  `ReadyIsCurrent` without its two exceptions, in Launcher.cfg.
* proxy.ts is compiled into the Web build and not hashed (local_setup.py:299-328), so an
  edit of it leaves an old build that is called ready: `ReadyIsCurrent` with
  `webBuild.from = {sources}` for `BuiltFrom = {Hashed(sources)}`, in Launcher.cfg with
  `Edited = {"proxy"}`.
* Pictures that an earlier run drew under names the present one does not use stay in
  `work/assets` (structure.py:680-747), are copied into `html/` (semantic_render.py:152)
  and go into the bundle (render.py:70-84), for another PDF under the slug too. The page does not
  show them: `Published => \A p \in Pictures : html.assets[p] \in {0, html.index.run}` in
  SemanticPipeline.cfg.
* A publisher killed under its lock file refuses that run id for ever, "already
  being published": `RefusalIsTruthful` in CandidateRuns.cfg with
  `Faults = {"crash"}`. So does one that gets no staging directory.
* Of two first publications of different runs of a paper the one whose `mkdir`
  comes second fails with FileExistsError: `ConcurrentRunsPublish` in
  CandidateRuns.cfg with `Faults = {}`.
* A `docker volume create` that is killed at its deadline and carried out later leaves
  a volume that nothing removes (workers/babeldoc/README.md:273): `VolumesRemoved` in
  ContainerRun.cfg.
* Two starts both pass the probe; one supervises while the other, waiting for the
  setup lock, installs and builds under its services (local_runtime.py:145):
  `RunningIsLeftAlone` in Launcher.cfg.
* The cache of page batches is named by page numbers and settings only
  (structure.py:525); another PDF given under the same slug takes over the structure
  of the first (SKILL.md:20): `StructureIsOfSource` in SemanticPipeline.cfg.
* Text recovered from an overlarge picture is joined to the first body block of the
  next page, also when a heading comes first, and a paragraph whose next block begins
  with a lower-case letter is joined to it across a heading in the same way
  (structure-rules.md:15): `ParagraphStopsAtHeading` in DoclingPasses.cfg.
* A figure without a caption on a page without text has no block to be anchored to
  and `page_assignments[0]` raises (semantic.py:560), although a paper with text
  elsewhere could be converted (docs/pdf-pipeline.md:85): `BlankPageIsKept` in
  DoclingPasses.cfg.

Two states of a document that no sentence of the repository speaks of, but that a
reader of the properties should know; the properties allow for them, and the papers
of the structure run reach both:

* A picture that stands before all text of its page is anchored to the last block of
  that page (docling_adapter.py:6625), so a heading recovered from it lies in a section
  that comes after it. If merging the panels beside it then hides the parent of that
  section, the parent becomes the section of the block before the panels, which is the recovered
  heading: two sections lie in each other (RingPaper). `SectionsResolve` says that
  there is no other way; `CutAndMerged` is the exception.
* A printed link that begins in a heading and ends in a caption makes the caption's
  block a heading that is the title of no section (docling_adapter.py:2311, HeadPaper). It
  stays the caption of its visual, so `PassedIsComplete` finds it there.

## 9. Not modelled

* Symbolic links and files of other software at the lock paths, beyond a plain
  file where a directory is expected (import) and other contents of a job's
  directory (PrepareJob). The code refuses them in one call.
* Processes that are killed *inside* a system call, and file systems that lose
  synced data. (A file written in place may be torn; one that is renamed is not. The
  pages of a job are torn as a whole, `html.whole`; which of them is not recorded.)
* A write that fails while an import's record is made: `AbortClaim` takes the `unlink` and
  the `rmdir` of the claimer's own directory as one step, because the record it
  removes was not made.
* A worker thread that is killed while its process lives.
* Web readers that read one file before and another after a replacement: their
  pages are rebuilt at the next request.
* The import pipeline run again by hand for a paper whose MCP job is open: the
  import route itself always reserves a slug nobody has.
* Verification of the source PDF of a job is one of the reasons why a call ends
  (`Abort`).
* The reservation of a slug and its rollback in the import route, and the steps
  between the `lstat` calls of `pdf_import_status.py` (the classification itself
  is `ImportState`).
* Of the container: the Harumi worker, the deterministic gateway, and the content of
  arguments beyond the controls they give a container. The engine and docker are
  external. Of the host's checks, the comparisons that repeat a digest already compared:
  the backend named in the started event, and path, size and media type of an artifact
  event (pdf_translation_worker.py:1612-1634). The purpose and promotion state of a
  profile are part of `ProfileValid` in ContainerRun.
* Of the launcher: `doctor` and `status`, which read and print, the environment
  given to children, and a pnpm or Next child that outlives a launcher killed over it.
* Of the semantic pipeline: the content of pictures and of pages; the other files of
  `html/`, which are written with the first page (`RenderIndex`). Threads of the
  pool may start in the model before the first call of `progress_callback` has
  returned, which they do not in the code.
* Of the document structure: boxes, fonts and wording (their decisions are chosen
  freely), the hyphenation pass, blocks with several provenances, the order of
  regions, more than one synthetic author row, introductory prose split off a visual
  (`split_intro_units`, semantic.py:481-500, which needs a warning that no pass over a
  Docling document writes), the layout extraction by PyMuPDF
  (`extract.py`), the deterministic structure of the hybrid mode and the caption
  evidence.
* arXiv acquisition, rendering, pages of the Web application, benchmarks: text
  processing or reading, with no interleaving to explore. PrepareJob models what
  becomes of an acquired directory, TranslationJob and SemanticPipeline when rendered
  files are written, replaced and offered.
