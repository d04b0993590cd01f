------------------------------ MODULE Services ------------------------------
(***************************************************************************)
(* The service manager of efi-wrapper/efi/service.c: the services compiled *)
(* into the emulator register themselves before main, main may change them *)
(* by its options, and every execution context starts what it can when it  *)
(* is created and stops services when it is destroyed.                     *)
(*                                                                         *)
(* A condition or a start function is a call into the service: the status  *)
(* conditioning or starting of the instance at pos says that it runs.      *)
(***************************************************************************)
EXTENDS Naturals, Sequences, FiniteSets, SequencesExt, Functions

CONSTANTS
  Cfg,          \* the service configurations compiled in
  Service,      \* their services
  ServiceOf,    \* cfg->service
  Guid,         \* the GUIDs services are known by
  Provides,     \* the service's own GUID and those it provides
  Depends,      \* service->depends
  After,        \* service->after
  Conditional,  \* the services with a condition function
  NeedsDisplay, \* those whose condition looks for a display
  Restarts,     \* the services with the restart flag
  Disabled,     \* the services compiled in with the disabled flag
  Enabled,      \* the services an option of main enables
  Removed,      \* the configurations an option of main unregisters
  Required,     \* the services without which a context is of no use
  GraphicsGuid, \* gEfiGraphicsOutputProtocolGuid
  CustData      \* the services whose instances get data of their own

ASSUME ServiceAssumption ==
  /\ ServiceOf \in [Cfg -> Service]
  /\ Provides \in [Service -> SUBSET Guid]
  /\ Depends \in [Service -> SUBSET Guid]
  /\ After \in [Service -> SUBSET Guid]
ASSUME FlagAssumption ==
  /\ Conditional \subseteq Service
  /\ NeedsDisplay \subseteq Conditional
  /\ Restarts \subseteq Service
  /\ Disabled \subseteq Service
  /\ Enabled \subseteq Service
  /\ Required \subseteq Service
  /\ CustData \subseteq Service
  /\ Removed \subseteq Cfg
ASSUME CfgAssumption == IsFiniteSet(Cfg)
\* sdl2.c:751, vnc.c:188 and memory.c:161: each graphics output has a condition.
ASSUME GraphicsAssumption ==
  /\ GraphicsGuid \in Guid
  /\ \A s \in Service : GraphicsGuid \in Provides[s] => s \in Conditional

VARIABLES
  cfgs,     \* efi_service_cfgs, in the order their constructors ran
  disabled, \* the services whose disabled flag is set
  display,  \* is there a display?
  ins,      \* ctx->svc_ins: an instance is named by its configuration
  status,   \* ins->status, service_unknown without an instance
  mode,     \* where the program is
  pos,      \* the configuration or instance the loop is at
  round     \* did this pass over the instances start or stop one?

vars == <<cfgs, disabled, display, ins, status, mode, pos, round>>

Status == {"unknown", "stopped", "conditioning", "skip", "starting", "started", "failed"}
Installing == {"installing", "reinstalling"}
Mode == {"constructors", "options", "starting", "failed", "ready", "stopping", "destroyed"}
          \cup Installing

Svc(i) == ServiceOf[i]
Instances == ToSet(ins)
Having(g) == {i \in Instances : g \in Provides[Svc(i)]}

-----------------------------------------------------------------------------
(* The predicates of the manager *)

Started(g) == \E i \in Having(g) : status[i] = "started"

\* Tried counts every state but unknown and stopped.
Tried(g) == \E i \in Having(g) : status[i] \notin {"unknown", "stopped"}

\* Faulty variants: a dependency need only have been tried; the GUIDs a service
\* provides are not looked at.
DependsTried(i) == \A g \in Depends[Svc(i)] \cup After[Svc(i)] : Tried(g)
OwnServiceOnly(i) == Svc(i) \in NeedsDisplay => display

DependsDone(i) ==
  /\ \A g \in Depends[Svc(i)] : Started(g)
  /\ \A g \in After[Svc(i)] : Tried(g)

\* The three condition functions: another graphics output is not started and,
\* for SDL2, there is a display.
Holds(i) == ~Started(GraphicsGuid) /\ (Svc(i) \in NeedsDisplay => display)

\* The condition resets a failed service to stopped: it is started again.
Retried(i) == Svc(i) \in Conditional \cup Restarts

\* As written: what may be stopped is a service that a started one depends on.
CanStop(i) ==
  /\ Svc(i) \notin disabled /\ status[i] = "started"
  /\ \E x \in Instances :
       /\ status[x] = "started" /\ Svc(x) \notin disabled /\ Svc(x) # Svc(i)
       /\ Depends[Svc(x)] \cap Provides[Svc(i)] # {}

-----------------------------------------------------------------------------
(* Before the context *)

Register(c) ==
  /\ mode = "constructors" /\ c \notin ToSet(cfgs)
  /\ cfgs' = Append(cfgs, c)
  /\ mode' = IF ToSet(cfgs) \cup {c} = Cfg THEN "options" ELSE mode
  /\ UNCHANGED <<disabled, display, ins, status, pos, round>>

Enable(s) ==
  /\ mode = "options"
  /\ disabled' = disabled \ {s}
  /\ UNCHANGED <<cfgs, display, ins, status, mode, pos, round>>

Unregister(c) ==
  /\ mode = "options"
  /\ \E k \in DOMAIN cfgs : cfgs[k] = c /\ cfgs' = RemoveAt(cfgs, k)
  /\ UNCHANGED <<disabled, display, ins, status, mode, pos, round>>

-----------------------------------------------------------------------------
(* efi_service_install_all adds what is not there yet, at the end *)

BeginInstall(m) == mode' = m /\ pos' = 1 /\ UNCHANGED <<cfgs, disabled, display, ins, status, round>>

NewContext == mode = "options" /\ BeginInstall("installing")

Add(c) == ins' = Append(ins, c) /\ status' = [status EXCEPT ![c] = "stopped"]

\* An instance whose data cannot be allocated is left out.
InstallVisit ==
  /\ mode \in Installing /\ pos <= Len(cfgs)
  /\ \/ cfgs[pos] \notin Instances /\ Add(cfgs[pos])
     \/ cfgs[pos] \in Instances /\ UNCHANGED <<ins, status>>
     \/ Svc(cfgs[pos]) \in CustData /\ UNCHANGED <<ins, status>>
  /\ pos' = pos + 1
  /\ UNCHANGED <<cfgs, disabled, display, mode, round>>

InstallEnds ==
  /\ mode \in Installing /\ pos > Len(cfgs)
  /\ mode' = IF mode = "installing" THEN "starting" ELSE "stopping"
  /\ pos' = 1 /\ round' = FALSE
  /\ UNCHANGED <<cfgs, disabled, display, ins, status>>

-----------------------------------------------------------------------------
(* efi_service_auto_start *)

At == ins[pos]
Visiting(m) == mode = m /\ pos <= Len(ins)
InCall == status[At] \in {"conditioning", "starting"}
Startable == Svc(At) \notin disabled /\ DependsDone(At)

CanCondition == Svc(At) \in Conditional /\ status[At] \in {"skip", "failed", "stopped"}

CanStart == /\ Svc(At) \notin Conditional
            /\ status[At] = "stopped" \/ (status[At] = "failed" /\ Svc(At) \in Restarts)

BeginCondition ==
  /\ Visiting("starting") /\ ~InCall /\ Startable /\ CanCondition
  /\ status' = [status EXCEPT ![At] = "conditioning"]
  /\ UNCHANGED <<cfgs, disabled, display, ins, mode, pos, round>>

\* A condition that holds is followed at once by the start function.
ConditionReturns ==
  /\ Visiting("starting") /\ status[At] = "conditioning"
  /\ IF Holds(At) THEN status' = [status EXCEPT ![At] = "starting"] /\ UNCHANGED pos
                  ELSE status' = [status EXCEPT ![At] = "skip"] /\ pos' = pos + 1
  /\ UNCHANGED <<cfgs, disabled, display, ins, mode, round>>

BeginStart ==
  /\ Visiting("starting") /\ ~InCall /\ Startable /\ CanStart
  /\ status' = [status EXCEPT ![At] = "starting"]
  /\ UNCHANGED <<cfgs, disabled, display, ins, mode, pos, round>>

\* Any start function may fail; a failed start counts as one of the round.
StartReturns ==
  /\ Visiting("starting") /\ status[At] = "starting"
  /\ \E outcome \in {"started", "failed"} : status' = [status EXCEPT ![At] = outcome]
  /\ round' = TRUE /\ pos' = pos + 1
  /\ UNCHANGED <<cfgs, disabled, display, ins, mode>>

PassOver ==
  /\ Visiting("starting") /\ ~InCall
  /\ ~(Startable /\ (CanCondition \/ CanStart))
  /\ pos' = pos + 1
  /\ UNCHANGED <<cfgs, disabled, display, ins, status, mode, round>>

\* Faulty variants: one pass is made; a pass is repeated whatever it did.
OnePass(done) == mode' = done /\ UNCHANGED <<pos, round>>
PassForever(done) == pos' = 1 /\ UNCHANGED <<mode, round>>

\* The end of a pass over the instances.
PassEnds(done) ==
  IF round THEN pos' = 1 /\ round' = FALSE /\ UNCHANGED mode
           ELSE mode' = done /\ UNCHANGED <<pos, round>>

StartPassEnds ==
  /\ mode = "starting" /\ pos > Len(ins)
  /\ PassEnds(IF \A s \in Required : \E i \in Instances : Svc(i) = s /\ status[i] = "started"
              THEN "ready" ELSE "failed")
  /\ UNCHANGED <<cfgs, disabled, display, ins, status>>

-----------------------------------------------------------------------------
(* efi_service_auto_stop.  No service has a stop function, so none can fail. *)

DestroyContext == mode = "ready" /\ BeginInstall("reinstalling")

Stop == status' = [status EXCEPT ![At] = "stopped"]

StopVisit ==
  /\ Visiting("stopping")
  /\ IF CanStop(At) THEN Stop /\ round' = TRUE ELSE UNCHANGED <<status, round>>
  /\ pos' = pos + 1
  /\ UNCHANGED <<cfgs, disabled, display, ins, mode>>

StopPassEnds ==
  /\ mode = "stopping" /\ pos > Len(ins)
  /\ PassEnds("destroyed")
  /\ UNCHANGED <<cfgs, disabled, display, ins, status>>

-----------------------------------------------------------------------------

Init ==
  /\ cfgs = <<>> /\ ins = <<>>
  /\ disabled = Disabled
  /\ display \in BOOLEAN
  /\ status = [c \in Cfg |-> "unknown"]
  /\ mode = "constructors"
  /\ pos = 1 /\ round = FALSE

Manager ==
  \/ InstallVisit \/ InstallEnds
  \/ BeginCondition \/ ConditionReturns \/ BeginStart \/ StartReturns
  \/ PassOver \/ StartPassEnds \/ StopVisit \/ StopPassEnds

Next ==
  \/ \E c \in Cfg : Register(c)
  \/ \E s \in Enabled : Enable(s)
  \/ \E c \in Removed : Unregister(c)
  \/ NewContext
  \/ DestroyContext
  \/ Manager

Spec == Init /\ [][Next]_vars

\* The loops run on, and condition and start functions return.
FairSpec == Spec /\ WF_vars(Manager)

-----------------------------------------------------------------------------
(* Properties *)

\* The type of every variable, a part of StartsAllItCan.  A configuration has one
\* instance, although the manager installs all of them again when it stops the
\* services.
TypeOK ==
  /\ cfgs \in Seq(Cfg)
  /\ disabled \in SUBSET Service
  /\ display \in BOOLEAN
  /\ ins \in Seq(Cfg) /\ IsInjective(ins)
  /\ status \in [Cfg -> Status]
  /\ mode \in Mode
  /\ pos \in 1 .. Len(IF mode \in Installing THEN cfgs ELSE ins) + 1
  /\ round \in BOOLEAN

\* Until the context is destroyed, whatever the constructors' order, a service
\* only runs, and its functions are only called, while all that it depends on
\* runs and all that it comes after has been tried.
DependenciesRun ==
  mode \in {"starting", "ready"} =>
    \A i \in Instances :
      status[i] \in {"conditioning", "starting", "started", "failed"} =>
        /\ \A g \in Depends[Svc(i)] : Started(g)
        /\ \A g \in After[Svc(i)] : Tried(g)

\* At most one graphics output runs, although several may be enabled: the
\* condition is evaluated again right before each start.
OneGraphics ==
  \A i, j \in Having(GraphicsGuid) :
    status[i] = "started" /\ status[j] = "started" => i = j

\* efi_service_auto_start returns when a whole pass started nothing.  By then
\* each enabled service is started or failed, or its condition says no, or a
\* dependency does not run, or a service it comes after was not tried, or was
\* only skipped later in that last pass.
StartsAllItCan ==
  /\ TypeOK
  /\ mode \in {"ready", "failed"} =>
       \A i \in DOMAIN ins :
         LET c == ins[i]
         IN /\ status[c] = "skip" => ~Holds(c)
            /\ status[c] = "stopped" /\ Svc(c) \notin disabled
                 => \/ ~DependsDone(c)
                    \/ \E g \in After[Svc(c)] :
                         \A j \in DOMAIN ins : ins[j] \in Having(g) =>
                           status[ins[j]] = "stopped" \/ (status[ins[j]] = "skip" /\ j > i)

\* efi_service_auto_start returns, unless a service that is retried fails again
\* and again: nothing limits the number of attempts.
AutoStartReturns ==
  \/ mode = "starting" ~> mode # "starting"
  \/ \E i \in Cfg : Retried(i) /\ []<>(status[i] = "failed")

\* efi_service_auto_stop says it is "stopping all service for efi context".
AllStopped ==
  mode = "destroyed" =>
    \A i \in Instances : status[i] = "started" => Svc(i) \in disabled
=============================================================================
