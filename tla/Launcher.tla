------------------------------- MODULE Launcher -------------------------------
(* local_app.py and local_runtime.py over LocalSetup: `papertrans start` and   *)
(* `papertrans setup` of several users of one checkout.  A start probes the    *)
(* runtime lock, sets up, takes the lock and supervises the MCP and Web        *)
(* services, each in a session of its own, until it is stopped or one ends.    *)
EXTENDS LocalSetup, Sequences
CONSTANT MaxKills    \* bound: launchers killed outright
ASSUME KillsAreBounded == MaxKills \in Nat

VARIABLES
  runtimeLock,  \* the flock on papertrans.lock
  service,      \* the process group each launcher started for each service
  port,         \* whose service listens on each port
  announced,    \* runtime-state.json: the launcher that wrote it
  stopAsked,    \* the stop_requested event of each launcher
  outcome,      \* the exit code a supervisor will end with
  kills
runtimeVars == <<runtimeLock, service, port, announced, stopAsked, outcome, kills>>
vars == <<setupVars, runtimeVars>>

Services == {"mcp", "web"}
Alive == {"starting", "up"}
Supervising == {"ports", "spawnMcp", "waitMcp", "spawnWeb", "waitWeb", "announce", "monitor", "stopWeb", "stopMcp", "clear"}
Ended == {"done", "failed", "refused", "cancelled", "killed"}

TypeOK ==
  /\ SetupTypeOK
  /\ pc \in [Commands -> Working \cup Supervising \cup Ended \cup {"probe", "probed", "lock", "status"}]
  /\ runtimeLock \in Commands \cup {None}
  /\ service \in [Commands -> [Services -> Alive \cup {"none", "gone"}]]
  /\ port \in [Services -> Commands \cup {None}] /\ announced \in Commands \cup {None}
  /\ stopAsked \in [Commands -> BOOLEAN] /\ outcome \in [Commands -> Ended] /\ kills \in 0 .. MaxKills

Init ==
  /\ SetupInit /\ pc = [c \in Commands |-> IF c \in Starts THEN "probe" ELSE "setup"]
  /\ runtimeLock = None /\ service = [c \in Commands |-> [s \in Services |-> "none"]]
  /\ port = [s \in Services |-> None] /\ announced = None
  /\ stopAsked = [c \in Commands |-> FALSE] /\ outcome = [c \in Commands |-> "done"] /\ kills = 0

--------------------------------------------------------------------------------
Runtime(c, next) == UNCHANGED <<sources, files, setupLock, plan, history, kills>> /\ Goto(c, next)
\* ensure_runtime_available: the lock, for an instant.
Probe(c) ==
  /\ pc[c] = "probe"
  /\ IF runtimeLock = None THEN runtimeLock' = c /\ Runtime(c, "probed")
                           ELSE runtimeLock' = runtimeLock /\ Runtime(c, "refused")
  /\ UNCHANGED <<service, port, announced, stopAsked, outcome>>
ProbeReleased(c) ==
  /\ pc[c] = "probed" /\ runtimeLock' = None /\ Runtime(c, "setup")
  /\ UNCHANGED <<service, port, announced, stopAsked, outcome>>

\* The readiness setup ends with decides how a command goes on.
Status(c) ==
  /\ pc[c] = "status"
  /\ Runtime(c, IF ~SetupReady(c \in Dev) THEN "failed" ELSE IF c \in Starts THEN "lock" ELSE "done")
  /\ UNCHANGED <<runtimeLock, service, port, announced, stopAsked, outcome>>

TakeRuntimeLock(c) ==
  /\ pc[c] = "lock"
  /\ IF runtimeLock = None THEN runtimeLock' = c /\ Runtime(c, "ports")
                           ELSE runtimeLock' = runtimeLock /\ Runtime(c, "refused")
  /\ UNCHANGED <<service, port, announced, stopAsked, outcome>>
CheckPortsPatiently(c) ==       \* mutant
  /\ pc[c] = "ports" /\ \A s \in Services : port[s] = None
  /\ Runtime(c, "spawnMcp") /\ UNCHANGED <<runtimeLock, service, port, announced, stopAsked, outcome>>
\* _check_ports comes before the handlers and the try: nothing to shut down yet.
CheckPorts(c) ==
  /\ pc[c] = "ports"
  /\ IF \A s \in Services : port[s] = None
     THEN runtimeLock' = runtimeLock /\ Runtime(c, "spawnMcp")
     ELSE runtimeLock' = None /\ Runtime(c, "failed")
  /\ UNCHANGED <<service, port, announced, stopAsked, outcome>>

GiveUp(c, how) == outcome' = [outcome EXCEPT ![c] = how] /\ Runtime(c, "stopWeb")
\* _spawn: the child in a session of its own, or it cannot be started.
SpawnStep(c, s, here, next) ==
  /\ pc[c] = here
  /\ \/ service' = [service EXCEPT ![c][s] = "starting"] /\ outcome' = outcome /\ Runtime(c, next)
     \/ service' = service /\ GiveUp(c, "failed")
  /\ UNCHANGED <<runtimeLock, port, announced, stopAsked>>
Spawn(c) == SpawnStep(c, "mcp", "spawnMcp", "waitMcp") \/ SpawnStep(c, "web", "spawnWeb", "waitWeb")

\* _wait_until_ready: cancelled, ended, answered, or late.  The probe asks the
\* port, whoever listens there.
WaitStep(c, s, here, next) ==
  /\ pc[c] = here
  /\ \/ stopAsked[c] /\ GiveUp(c, "cancelled")
     \/ ~stopAsked[c] /\ service[c][s] \notin Alive /\ GiveUp(c, "failed")
     \/ ~stopAsked[c] /\ service[c][s] \in Alive /\ port[s] # None /\ outcome' = outcome /\ Runtime(c, next)
     \/ GiveUp(c, "failed")
  /\ UNCHANGED <<runtimeLock, service, port, announced, stopAsked>>
Wait(c) == WaitStep(c, "mcp", "waitMcp", "spawnWeb") \/ WaitStep(c, "web", "waitWeb", "announce")

Announce(c) ==
  /\ pc[c] = "announce" /\ announced' = c /\ Runtime(c, "monitor")
  /\ UNCHANGED <<runtimeLock, service, port, stopAsked, outcome>>
Monitor(c) ==
  /\ pc[c] = "monitor"
  /\ \/ stopAsked[c] /\ GiveUp(c, "done")
     \/ ~stopAsked[c] /\ (\E s \in Services : service[c][s] \notin Alive) /\ GiveUp(c, "failed")
  /\ UNCHANGED <<runtimeLock, service, port, announced, stopAsked>>

\* _shutdown: the group that was started, its leader or a descendant, is
\* terminated, killed when it lasts; the newest first.
StopStep(c, s, here, next) ==
  /\ pc[c] = here
  /\ service' = [service EXCEPT ![c][s] = IF @ = "none" THEN @ ELSE "gone"]
  /\ port' = [port EXCEPT ![s] = IF @ = c THEN None ELSE @]
  /\ Runtime(c, next) /\ UNCHANGED <<runtimeLock, announced, stopAsked, outcome>>
StopMcpIfListening(c) ==        \* mutant: one that is not ready yet is left
  /\ pc[c] = "stopMcp" /\ Runtime(c, "clear")
  /\ service' = [service EXCEPT ![c]["mcp"] = IF @ = "up" THEN "gone" ELSE @]
  /\ port' = [port EXCEPT !["mcp"] = IF @ = c THEN None ELSE @]
  /\ UNCHANGED <<runtimeLock, announced, stopAsked, outcome>>
StopMcp(c) == StopStep(c, "mcp", "stopMcp", "clear")
StopWeb(c) == StopStep(c, "web", "stopWeb", "stopMcp")
Clear(c) ==
  /\ pc[c] = "clear" /\ announced' = None /\ runtimeLock' = None /\ Runtime(c, outcome[c])
  /\ UNCHANGED <<service, port, stopAsked, outcome>>

--------------------------------------------------------------------------------
\* The services themselves: a port has one listener, the second one to come ends.
Listen(c, s) ==
  /\ service[c][s] = "starting"
  /\ service' = [service EXCEPT ![c][s] = IF port[s] = None THEN "up" ELSE "gone"]
  /\ port' = [port EXCEPT ![s] = IF @ = None THEN c ELSE @]
  /\ UNCHANGED <<setupVars, runtimeLock, announced, stopAsked, outcome, kills>>
ServiceEnds(c, s) ==
  /\ service[c][s] \in Alive
  /\ service' = [service EXCEPT ![c][s] = "gone"]
  /\ port' = [port EXCEPT ![s] = IF @ = c THEN None ELSE @]
  /\ UNCHANGED <<setupVars, runtimeLock, announced, stopAsked, outcome, kills>>
\* Ctrl-C, SIGTERM or SIGHUP of a supervisor only set an event.
AskStop(c) ==
  /\ pc[c] \in Supervising \ {"ports"} /\ ~stopAsked[c]
  /\ stopAsked' = [stopAsked EXCEPT ![c] = TRUE]
  /\ UNCHANGED <<setupVars, runtimeLock, service, port, announced, outcome, kills>>
\* kill -9, or SIGTERM before the handlers are installed: the locks go, the
\* services and the files stay.
Kill(c) ==
  /\ pc[c] \notin Ended /\ kills < MaxKills
  /\ kills' = kills + 1 /\ Goto(c, "killed") /\ Unlock(c)
  /\ runtimeLock' = IF runtimeLock = c THEN None ELSE runtimeLock
  /\ UNCHANGED <<sources, files, plan, history, service, port, announced, stopAsked, outcome>>

CommandStep(c) ==
  \/ (SetupStep(c) \/ SetupFails(c)) /\ UNCHANGED runtimeVars
  \/ Probe(c) \/ ProbeReleased(c) \/ Status(c) \/ TakeRuntimeLock(c) \/ CheckPorts(c) \/ Spawn(c)
  \/ Wait(c) \/ Announce(c) \/ Monitor(c) \/ StopWeb(c) \/ StopMcp(c) \/ Clear(c)
Environment ==
  \/ (Edit \/ RemoveModules) /\ UNCHANGED runtimeVars
  \/ \E c \in Commands : AskStop(c) \/ Kill(c)
  \/ \E c \in Commands, s \in Services : Listen(c, s) \/ ServiceEnds(c, s)
Next == Environment \/ \E c \in Commands : CommandStep(c)
\* Every child a command waits for has a deadline or ends by itself, every wait
\* of the supervisor has one, and a service that starts tries its port.
Fairness ==
  /\ \A c \in Commands : WF_vars(CommandStep(c))
  /\ \A c \in Commands, s \in Services : WF_vars(Listen(c, s))
Spec == Init /\ [][Next]_vars /\ Fairness

--------------------------------------------------------------------------------
(* Whenever doctor, or the start of a launcher, would call the setup ready,    *)
(* node_modules and the hashed part of the Web build were made from the        *)
(* checkout as it is now, whatever was edited, killed, removed or installed by *)
(* two commands at once.  Excepted is a content that was put back over an      *)
(* installation or a build that was cut short or ran during an edit: hashes    *)
(* and a record of the content agree whatever that one left.                   *)
BuiltFrom == {Hashed(checkout) : checkout \in webBuild.from}
ReadyIsCurrent ==
  \A dev \in BOOLEAN : SetupReady(dev) =>
    /\ nodeModules.from = {sources.deps} \/ ("deps" \in back /\ "node" \in unsure)
    /\ dev \/ BuiltFrom = {Hashed(sources)} \/ (back \cap HashedParts # {} /\ "build" \in unsure)

(* Once the models verify no command moves them away again, and a tree that    *)
(* did not verify is kept: at model_root or under its backup name.             *)
ModelsAreKept ==
  [][/\ Verified(models) => models' = models
     /\ models.there => models' = models \/ retained' = models
     /\ retained.there => retained' = retained \/ models' = retained]_vars

(* A launcher that ended in any other way than being killed has left no        *)
(* service running, none on a port, and no runtime-state.json naming it.       *)
NoStrayService ==
  \A c \in Commands : pc[c] \in Ended \ {"killed"} =>
    /\ \A s \in Services : service[c][s] \notin Alive /\ port[s] # c
    /\ announced # c

(* Readiness asks a port, and a service a killed launcher left may take it     *)
(* first.  A launcher whose ports are not its own does not go on supervising.  *)
OwnServicesOrNone ==
  \A c \in Commands : (pc[c] = "monitor" /\ \E s \in Services : port[s] # c)
                      ~> (pc[c] # "monitor" \/ \A s \in Services : port[s] = c)

(* Every command ends, or is a launcher that announces and watches services.   *)
CommandEnds == \A c \in Commands : pc[c] \notin Ended ~> pc[c] \in Ended \cup {"monitor"}

(* "Reject an already-running supervisor before setup mutates dependencies":   *)
(* no setup installs, builds or moves models while a launcher supervises.      *)
RunningIsLeftAlone ==
  (\E c \in Commands : pc[c] = "monitor") =>
    \A c \in Commands : pc[c] \notin {"installing", "relink", "swapIn", "building"}
================================================================================
