---------------------------- MODULE SingleImport ----------------------------
(***************************************************************************)
(* What the PDF-import admission promises to the rest of PaperTrans: one   *)
(* admission at a time per output root, at most one worker per admission,  *)
(* and no new admission before the worker of the last one has exited.      *)
(***************************************************************************)
CONSTANTS Owner, None

VARIABLES
  holder,   \* the admitted import, None when the next one may be admitted
  worker,   \* the import whose worker is alive
  admitted, \* imports that have been admitted so far
  started   \* imports whose worker has been started

avars == <<holder, worker, admitted, started>>

AInit == holder = None /\ worker = None /\ admitted = {} /\ started = {}

Admit(o) ==
  /\ holder = None /\ worker = None /\ o \notin admitted
  /\ holder' = o
  /\ admitted' = admitted \cup {o}
  /\ UNCHANGED <<worker, started>>

Start(o) ==
  /\ holder = o /\ o \notin started
  /\ worker' = o
  /\ started' = started \cup {o}
  /\ UNCHANGED <<holder, admitted>>

Exit ==
  /\ worker # None
  /\ worker' = None
  /\ UNCHANGED <<holder, admitted, started>>

Free ==
  /\ holder # None /\ worker = None
  /\ holder' = None
  /\ UNCHANGED <<worker, admitted, started>>

ANext == (\E o \in Owner : Admit(o) \/ Start(o)) \/ Exit \/ Free

ASpec == AInit /\ [][ANext]_avars
=============================================================================
