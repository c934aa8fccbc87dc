---------------------------- MODULE DoclingWorker ----------------------------
(* docling_worker_runtime.py, docling_worker.py and _run_docling_worker of     *)
(* docling_adapter.py: one PDF conversion in a child process, under a deadline *)
(* shared by two attempts, with a monitor thread that kills a process tree     *)
(* over the memory limit, inside resource limits put back at the end.          *)
EXTENDS Naturals
CONSTANT OneParserThread   \* PAPERTRANS_DOCLING_PARSER_THREADS is already "1"
ASSUME ThreadsAreKnown == OneParserThread \in BOOLEAN

VARIABLES
  call,       \* where the calling thread is
  attempt,    \* the attempt under way
  worker,     \* the child process: "none", "running" or how it ended
  helper,     \* a process the child may start, which inherits its stderr
  monitor,    \* the memory monitor thread
  seen,       \* the monitor has listed the helper
  memory,     \* memory_failure
  expired,    \* the deadline has passed
  output,     \* the child's own output file
  failure,    \* what the attempt raised, before its exit code is looked at
  limits,     \* the soft limits of the calling process are the job's
  answer      \* what the call ends with
doclingVars == <<call, attempt, worker, helper, monitor, seen, memory, expired, output, failure, limits, answer>>
attemptVars == <<worker, helper, monitor, seen, memory, output, failure>>

ExitCodes == {"ok", "partial", "limit", "signal", "error", "killed"}
DoclingTypeOK ==
  /\ call \in {"idle", "bounded", "waiting", "joining", "terminating", "reading", "deciding", "over"}
  /\ attempt \in 0 .. 2 /\ worker \in ExitCodes \cup {"none", "running"} /\ helper \in {"none", "alive", "gone"}
  /\ monitor \in {"off", "watching", "judging", "over"} /\ seen \in BOOLEAN /\ memory \in BOOLEAN /\ expired \in BOOLEAN
  /\ output \in {"none", "temporary", "whole"} /\ failure \in {"none", "timeout", "limit", "error"}
  /\ limits \in BOOLEAN /\ answer \in {"none", "document", "timeout", "limit", "error"}

DoclingInit ==
  /\ call = "idle" /\ attempt = 0 /\ worker = "none" /\ helper = "none" /\ monitor = "off" /\ seen = FALSE
  /\ memory = FALSE /\ expired = FALSE /\ output = "none" /\ failure = "none" /\ limits = FALSE /\ answer = "none"

--------------------------------------------------------------------------------
(* The calling thread.                                                         *)

\* temporary_process_resource_limits: all limits, or none of them and an error.
BoundProcess ==
  /\ call = "idle" /\ answer' \in {"none", "limit"}
  /\ limits' = (answer' = "none") /\ call' = IF answer' = "none" THEN "bounded" ELSE "over"
  /\ UNCHANGED <<attempt, expired, attemptVars>>

\* validate_source_pdf: a PDF that cannot be inspected, is encrypted or is over a bound.
RejectSource ==
  /\ call = "bounded" /\ attempt = 0 /\ answer' \in {"limit", "error"} /\ call' = "over"
  /\ UNCHANGED <<attempt, expired, limits, attemptVars>>

StartAttempt ==
  /\ call = "bounded" /\ call' = "waiting" /\ attempt' = attempt + 1
  /\ worker' = "running" /\ helper' = "none" /\ monitor' = "watching" /\ seen' = FALSE /\ memory' = FALSE
  /\ failure' = "none" /\ UNCHANGED <<expired, output, limits, answer>>

\* psutil cannot be loaded, or the child cannot be started.
AttemptFails ==
  /\ call = "bounded" /\ call' = "deciding" /\ attempt' = attempt + 1 /\ failure' = "error"
  /\ worker' = "none" /\ helper' = "none" /\ monitor' = "off" /\ seen' = FALSE /\ memory' = FALSE
  /\ UNCHANGED <<expired, output, limits, answer>>

\* process.wait returns, with an exit code or by the deadline; the monitor is told to stop.
WaitEnds ==
  /\ call = "waiting" /\ (worker # "running" \/ expired) /\ call' = "joining"
  /\ failure' = IF worker = "running" THEN "timeout" ELSE "none"
  /\ UNCHANGED <<attempt, worker, helper, monitor, seen, memory, expired, output, limits, answer>>

\* monitor.join(timeout=1): the monitor has ended, or is slow over its last round.
Join ==
  /\ call = "joining" /\ monitor # "watching" /\ call' = "terminating"
  /\ UNCHANGED <<attempt, expired, limits, answer, attemptVars>>

\* terminate_tree over every process the monitor has listed; then memory_failure is read.
Terminate ==
  /\ call = "terminating" /\ call' = "reading"
  /\ worker' = IF worker = "running" THEN "killed" ELSE worker
  /\ helper' = IF helper = "alive" /\ seen THEN "gone" ELSE helper
  /\ failure' = IF failure = "none" /\ memory THEN "limit" ELSE failure
  /\ UNCHANGED <<attempt, monitor, seen, memory, expired, output, limits, answer>>

\* stderr_reader.join(): the pipe ends when no process holds it any more.
ReadToEnd ==
  /\ call = "reading" /\ helper # "alive" /\ call' = "deciding"
  /\ UNCHANGED <<attempt, expired, limits, answer, attemptVars>>

Retryable == failure = "none" /\ worker \in {"signal", "partial"} /\ attempt = 1 /\ ~OneParserThread
\* One more attempt, on what is left of the deadline.
Retry ==
  /\ call = "deciding" /\ Retryable /\ output' = "none"
  /\ IF expired THEN answer' = "timeout" /\ call' = "over" ELSE answer' = answer /\ call' = "bounded"
  /\ UNCHANGED <<attempt, worker, helper, monitor, seen, memory, expired, failure, limits>>

ExportIsEnough == IF failure # "none" THEN failure ELSE IF output = "whole" THEN "document" ELSE "error"
\* What the last attempt's failure, exit code and output file make of the call; the file goes.
Verdict ==
  IF failure # "none" THEN failure
  ELSE IF worker = "limit" THEN "limit"
  ELSE IF worker = "ok" /\ output = "whole" THEN "document" ELSE "error"
Decide ==
  /\ call = "deciding" /\ ~Retryable /\ answer' = Verdict /\ output' = "none" /\ call' = "over"
  /\ UNCHANGED <<attempt, worker, helper, monitor, seen, memory, expired, failure, limits>>

--------------------------------------------------------------------------------
(* The child, the processes it starts, the monitor and the clock.              *)

SpawnHelper ==
  /\ worker = "running" /\ helper = "none" /\ helper' = "alive"
  /\ UNCHANGED <<call, attempt, worker, monitor, seen, memory, expired, output, failure, limits, answer>>
HelperEnds ==
  /\ helper = "alive" /\ helper' = "gone"
  /\ UNCHANGED <<call, attempt, worker, monitor, seen, memory, expired, output, failure, limits, answer>>

\* The export goes to a temporary file first; over its byte limit is the "limit" exit.
Export ==
  /\ worker = "running" /\ output \in {"none", "temporary"}
  /\ output' = IF output = "none" THEN "temporary" ELSE "whole"
  /\ UNCHANGED <<call, attempt, worker, helper, monitor, seen, memory, expired, failure, limits, answer>>
\* convert_pdf_with_docling: a whole document with usable pages, or what is wrong.
Conversions == {"converted", "partial", "limit", "unusable"}
\* main's exit codes.
ExitCode == [converted |-> "ok", partial |-> "partial", limit |-> "limit", unusable |-> "error"]
\* Only a whole export exits with 0; a native crash can come at any time.
WorkerEnds(code) ==
  /\ worker = "running" /\ worker' = code /\ code \in {ExitCode[c] : c \in Conversions} \cup {"signal"}
  /\ (code = "ok" => output = "whole") /\ (code \in {"partial", "limit", "error"} => output # "whole")
  /\ output' = IF code \in {"partial", "limit", "error"} THEN "none" ELSE output
  /\ UNCHANGED <<call, attempt, helper, monitor, seen, memory, expired, failure, limits, answer>>

\* monitor_memory: a round lists the tree and sums its memory ...
MonitorRound ==
  /\ monitor = "watching" /\ call = "waiting" /\ worker = "running"
  /\ seen' = (seen \/ helper = "alive") /\ monitor' \in {"watching", "judging"}
  /\ UNCHANGED <<call, attempt, worker, helper, memory, expired, output, failure, limits, answer>>
\* ... over the limit, or a tree it may not inspect, it records the failure and kills.
MonitorJudges ==
  /\ monitor = "judging" /\ monitor' = "over" /\ memory' = TRUE
  /\ worker' = IF worker = "running" THEN "killed" ELSE worker
  /\ helper' \in IF helper = "alive" /\ seen THEN {"alive", "gone"} ELSE {helper}
  /\ UNCHANGED <<call, attempt, seen, expired, output, failure, limits, answer>>
MonitorEnds ==
  /\ monitor = "watching" /\ (worker # "running" \/ call # "waiting") /\ monitor' = "over"
  /\ UNCHANGED <<call, attempt, worker, helper, seen, memory, expired, output, failure, limits, answer>>

Expire ==
  /\ attempt > 0 /\ call # "over" /\ ~expired /\ expired' = TRUE
  /\ UNCHANGED <<call, attempt, limits, answer, attemptVars>>

DoclingCall ==
  \/ BoundProcess \/ RejectSource \/ StartAttempt \/ AttemptFails \/ WaitEnds \/ Join \/ Terminate \/ ReadToEnd \/ Retry \/ Decide
DoclingSurroundings ==
  \/ SpawnHelper \/ HelperEnds \/ Export \/ \E code \in ExitCodes : WorkerEnds(code)
  \/ MonitorRound \/ MonitorJudges \/ MonitorEnds \/ Expire
DoclingStep == DoclingCall \/ DoclingSurroundings

\* Whatever ends a conversion (a document, a crash, the deadline, the memory limit or a
\* source refused), no child, no observed or unobserved process of it and no output file is
\* left, and a second attempt starts only once that holds of the first.
NothingOutlivesTheCall ==
  /\ call \in {"idle", "bounded", "over"} => worker # "running" /\ helper # "alive"
  /\ call = "over" => output = "none"
\* A document is the answer only of an attempt that ran to its end: not of one killed for
\* memory or at the deadline, nor of one that crashed after it had exported.
DocumentIsEarned == answer = "document" => worker = "ok" /\ failure = "none"
================================================================================
