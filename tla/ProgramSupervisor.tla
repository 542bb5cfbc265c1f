------------------------- MODULE ProgramSupervisor -------------------------
(***************************************************************************)
(* The process supervisor of dcnetlab-node-agent                           *)
(* (nodeapps/internal/nodeagent/manager.go): the Manager and its programs  *)
(* map, the gRPC handlers Install, Start, Stop and Remove, one supervise   *)
(* goroutine per started program with its liveness and readiness monitors, *)
(* the agent's shutdown, crash and boot, and the meta.json files that      *)
(* survive them.                                                           *)
(*                                                                         *)
(* A step is one critical section of Manager.mu, or one action between two *)
(* of them that others can observe (a process spawned outside the lock, a  *)
(* probe, a cancel).  Goroutines, handlers and the operating system        *)
(* interleave freely.                                                      *)
(*                                                                         *)
(* Identities are slots taken from finite sets and reused once nothing     *)
(* refers to them: Objs are the *program objects (Install makes a new one  *)
(* for the same name), Runs the supervision contexts (the cancel/done pair *)
(* startLocked makes, with the goroutines it launches), Pids the process   *)
(* groups.  The sizes of these sets are the bounds of the model.           *)
(***************************************************************************)
EXTENDS Integers, FiniteSets

CONSTANTS
  Names,             \* program names, numbered in their sort order
  Objs,              \* slots for *program objects
  Runs,              \* slots for supervision contexts
  Pids,              \* process ids; 0 stands for "no process", as in the code
  Clients,           \* gRPC handlers that can be in flight at once
  Main,              \* the agent's main goroutine, which runs Shutdown
  Ops,               \* which of Stop and Remove clients call
  Specs,             \* the program specs clients ask for
  FailureThreshold,  \* HealthCheck.FailureThreshold
  None,              \* nil
  Broken             \* a meta.json that a crash left truncated

Policies == {"Never", "OnFailure", "Always"}
SpecType == [policy : Policies, type : {"simple", "oneshot"}, auto : BOOLEAN,
             liveness : BOOLEAN, readiness : BOOLEAN, order : Nat]

ASSUME SupervisorAssumptions ==
  /\ Names \subseteq Nat
  /\ Pids \subseteq Nat \ {0}
  /\ Specs \subseteq SpecType
  /\ FailureThreshold \in Nat \ {0}
  /\ Ops \subseteq {"stop", "remove"}
  /\ None \notin Names \cup Objs \cup Runs
  /\ Main \notin Clients

VARIABLES
  phase,     \* life cycle of the agent process
  programs,  \* Manager.programs: name -> object, None when absent
  obj,       \* the *program objects
  run,       \* the supervise goroutines
  lmon,      \* the monitorLiveness goroutine of each run
  rmon,      \* the monitorReadiness goroutine of each run
  rpc,       \* handlers inside Stop, Remove or Shutdown
  disk,      \* programs/<name>/meta.json, None when the directory is absent
  owner,     \* kernel: the program each live process group belongs to
  todo,      \* names NewManager has yet to start, or Shutdown to terminate
  bootWrite  \* the meta NewManager has marshalled and not yet written

vars == <<phase, programs, obj, run, lmon, rmon, rpc, disk, owner, todo, bootWrite>>

----------------------------------------------------------------------------
(* State *)

States  == {"Configured", "Running", "Stopped", "Failed", "Exited"}
Desired == {"Running", "Stopped"}
Health  == {"", "Unknown", "Healthy", "Unhealthy"}
Phases  == {"down", "boot", "up", "drain", "shutdown"}

\* A supervise goroutine is waiting on its process, terminating it, in its
\* backoff sleep, or holds a process it has spawned but not yet published.
Waiting == {"wait", "term"}
Active  == Waiting \cup {"backoff", "spawned"}

Obj == [name : Names, spec : Specs, state : States, pid : Pids \cup {0},
        health : Health, ready : BOOLEAN, desired : Desired, run : Runs \cup {None}]
ASSUME NilIsNoObject == None \notin Obj

Run == [obj : Objs \cup {None}, pc : Active \cup {"done"}, pid : Pids \cup {0},
        cancelled : BOOLEAN]
LMon == [pc : {"off", "idle", "probe", "pass", "fail"},
         monitored : Pids \cup {0}, failures : 0 .. FailureThreshold - 1]
RMon == {"off", "idle", "probe", "pass", "fail"}
Rpc  == [pc : {"idle", "lookup", "cancel", "wait", "ok"},
         op : {"stop", "remove", "shutdown"},
         name : Names \cup {None}, obj : Objs \cup {None}, run : Runs \cup {None},
         raced : BOOLEAN]
Meta == [spec : Specs, desired : Desired, pid : Pids \cup {0}]
ASSUME NoFileIsNoMeta == None \notin Meta /\ Broken \notin Meta

NoRun  == [obj |-> None, pc |-> "done", pid |-> 0, cancelled |-> FALSE]
NoLMon == [pc |-> "off", monitored |-> 0, failures |-> 0]
NoRpc  == [pc |-> "idle", op |-> "stop", name |-> None, obj |-> None,
           run |-> None, raced |-> FALSE]

TypeOK ==
  /\ phase \in Phases
  /\ programs \in [Names -> Objs \cup {None}]
  /\ obj \in [Objs -> Obj \cup {None}]
  /\ run \in [Runs -> Run]
  /\ lmon \in [Runs -> LMon]
  /\ rmon \in [Runs -> RMon]
  /\ rpc \in [Clients \cup {Main} -> Rpc]
  /\ disk \in [Names -> Meta \cup {None, Broken}]
  /\ owner \in [Pids -> Names \cup {None}]
  /\ todo \in SUBSET Names
  /\ bootWrite \in Meta \cup {None}

Init ==
  /\ phase = "down"
  /\ programs = [n \in Names |-> None]
  /\ obj = [o \in Objs |-> None]
  /\ run = [r \in Runs |-> NoRun]
  /\ lmon = [r \in Runs |-> NoLMon]
  /\ rmon = [r \in Runs |-> "off"]
  /\ rpc = [c \in Clients \cup {Main} |-> NoRpc]
  /\ disk = [n \in Names |-> None]
  /\ owner = [p \in Pids |-> None]
  /\ todo = {}
  /\ bootWrite = None

----------------------------------------------------------------------------
(* Free slots *)

FreeObj(o) ==
  /\ \A n \in Names : programs[n] # o
  /\ \A r \in Runs : run[r].obj = o =>
       run[r].pc = "done" /\ lmon[r].pc = "off" /\ rmon[r] = "off"
  /\ \A c \in Clients \cup {Main} : rpc[c].pc # "idle" => rpc[c].obj # o

FreeRun(r) ==
  /\ run[r].pc = "done" /\ lmon[r].pc = "off" /\ rmon[r] = "off"
  /\ \A o \in Objs : (obj[o] # None /\ ~FreeObj(o)) => obj[o].run # r
  /\ \A c \in Clients \cup {Main} : rpc[c].pc # "idle" => rpc[c].run # r

\* A process id returns to the kernel only once its exit has been waited for.
FreePid(p) ==
  /\ owner[p] = None
  /\ \A r \in Runs : run[r].pc \in Waiting \cup {"spawned"} => run[r].pid # p

----------------------------------------------------------------------------
(* Helpers shared by the handlers *)

MetaOf(x) == [spec |-> x.spec, desired |-> x.desired, pid |-> x.pid]

\* Mutant: nothing is written.
PersistNothing(x) == disk

\* persistLocked: os.WriteFile fails when Remove has deleted the directory.
Persist(x) == IF disk[x.name] = None THEN disk
                                     ELSE [disk EXCEPT ![x.name] = MetaOf(x)]

\* The fields startLocked sets once the process is spawned.
Started(x, r, p) ==
  [x EXCEPT !.state = "Running", !.pid = p, !.health = "Unknown",
            !.ready = ~x.spec.readiness, !.desired = "Running", !.run = r]

\* Launching the supervise goroutine and the monitors the spec asks for.
LaunchRun(o, r, p) ==
  /\ run' = [run EXCEPT ![r] = [obj |-> o, pc |-> "wait", pid |-> p, cancelled |-> FALSE]]
  /\ lmon' = [lmon EXCEPT ![r].pc = IF obj[o].spec.liveness THEN "idle" ELSE "off"]
  /\ rmon' = [rmon EXCEPT ![r] = IF obj[o].spec.readiness THEN "idle" ELSE "off"]

\* A Stop in flight for the name learns that a Start overlapped it.
MarkRaced(n) ==
  rpc' = [c \in Clients \cup {Main} |->
            IF rpc[c].name = n THEN [rpc[c] EXCEPT !.raced = TRUE] ELSE rpc[c]]

\* An oneshot program cannot ask to be restarted for ever.
Installable(s) == ~(s.type = "oneshot" /\ s.policy = "Always")

----------------------------------------------------------------------------
(* gRPC handlers *)

\* Mutant: a running program may be replaced.
AlwaysReplaceable(n) == TRUE

\* Install replaces a definition only while its program is not running.
Replaceable(n) == programs[n] # None => obj[programs[n]].state # "Running"

Install(n, s) ==
  /\ phase = "up"
  /\ Installable(s)
  /\ Replaceable(n)
  /\ \E o \in Objs :
       LET x == [name |-> n, spec |-> s, state |-> "Configured", pid |-> 0,
                 health |-> "", ready |-> FALSE, desired |-> "Stopped", run |-> None]
       IN /\ FreeObj(o)
          /\ obj' = [obj EXCEPT ![o] = x]
          /\ programs' = [programs EXCEPT ![n] = o]
          /\ disk' = [disk EXCEPT ![n] = MetaOf(x)]
  /\ UNCHANGED <<phase, run, lmon, rmon, rpc, owner, todo, bootWrite>>

\* Mutant: a running program may be started.
StartableAgain(n) == programs[n] # None

\* Starting a running program is a no-op.
Startable(n) == programs[n] # None /\ obj[programs[n]].state # "Running"

\* Start when spawn succeeds.
Start(n) ==
  /\ phase = "up"
  /\ Startable(n)
  /\ \E r \in Runs, p \in Pids :
       LET o == programs[n]
       IN /\ FreeRun(r) /\ FreePid(p)
          /\ obj' = [obj EXCEPT ![o] = Started(@, r, p)]
          /\ LaunchRun(o, r, p)
          /\ owner' = [owner EXCEPT ![p] = n]
          /\ disk' = Persist(Started(obj[o], r, p))
  /\ MarkRaced(n)
  /\ UNCHANGED <<phase, programs, todo, bootWrite>>

\* Start when spawn fails: the desired state is changed in memory only.
StartFails(n) ==
  /\ phase = "up"
  /\ Startable(n)
  /\ obj' = [obj EXCEPT ![programs[n]].state = "Failed", ![programs[n]].desired = "Running"]
  /\ MarkRaced(n)
  /\ UNCHANGED <<phase, programs, run, lmon, rmon, disk, owner, todo, bootWrite>>

\* First critical section of Stop; Remove begins with a Stop.
StopBegin(c, n, op) ==
  /\ phase = "up"
  /\ rpc[c].pc = "idle"
  /\ programs[n] # None
  /\ LET o == programs[n]
         x == [obj[o] EXCEPT !.desired = "Stopped"]
     IN /\ obj' = [obj EXCEPT ![o] = x]
        /\ disk' = Persist(x)
        /\ rpc' = [rpc EXCEPT ![c] = [NoRpc EXCEPT !.pc = "lookup", !.op = op,
                                                   !.name = n, !.obj = o]]
  /\ UNCHANGED <<phase, programs, run, lmon, rmon, owner, todo, bootWrite>>

\* terminate looks the program up again, by name.
TerminateLookup(c) ==
  /\ rpc[c].pc = "lookup"
  /\ LET o == programs[rpc[c].name]
     IN rpc' = [rpc EXCEPT ![c] =
          IF o = None THEN NoRpc
          ELSE IF obj[o].run = None THEN [@ EXCEPT !.pc = "ok"]
          ELSE [@ EXCEPT !.pc = "cancel", !.run = obj[o].run]]
  /\ todo' = IF c = Main /\ programs[rpc[c].name] = None THEN todo \ {rpc[c].name} ELSE todo
  /\ UNCHANGED <<phase, programs, obj, run, lmon, rmon, disk, owner, bootWrite>>

TerminateCancel(c) ==
  /\ rpc[c].pc = "cancel"
  /\ run' = [run EXCEPT ![rpc[c].run].cancelled = TRUE]
  /\ rpc' = [rpc EXCEPT ![c].pc = "wait"]
  /\ UNCHANGED <<phase, programs, obj, lmon, rmon, disk, owner, todo, bootWrite>>

TerminateDone(c) ==
  /\ rpc[c].pc = "wait"
  /\ run[rpc[c].run].pc = "done"
  /\ rpc' = [rpc EXCEPT ![c].pc = "ok"]
  /\ UNCHANGED <<phase, programs, obj, run, lmon, rmon, disk, owner, todo, bootWrite>>

\* Mutant: terminate reports success when its wait times out.
TimeoutIsSuccess(c) ==
  /\ rpc[c].pc = "wait"
  /\ run[rpc[c].run].pc # "done"
  /\ rpc' = [rpc EXCEPT ![c].pc = "ok"]
  /\ UNCHANGED <<phase, programs, obj, run, lmon, rmon, disk, owner, todo, bootWrite>>

\* stopTimeout + 2s pass first: the handler fails, Shutdown only warns.
TerminateTimeout(c) ==
  /\ rpc[c].pc = "wait"
  /\ run[rpc[c].run].pc # "done"
  /\ rpc' = [rpc EXCEPT ![c] = NoRpc]
  /\ todo' = IF c = Main THEN todo \ {rpc[c].name} ELSE todo
  /\ UNCHANGED <<phase, programs, obj, run, lmon, rmon, disk, owner, bootWrite>>

\* The handler returns; Remove first deletes whatever the name maps to now.
TerminateReturn(c) ==
  /\ rpc[c].pc = "ok"
  /\ LET n == rpc[c].name
         removing == rpc[c].op = "remove"
     IN /\ programs' = IF removing THEN [programs EXCEPT ![n] = None] ELSE programs
        /\ disk' = IF removing THEN [disk EXCEPT ![n] = None] ELSE disk
        /\ todo' = IF c = Main THEN todo \ {n} ELSE todo
  /\ rpc' = [rpc EXCEPT ![c] = NoRpc]
  /\ UNCHANGED <<phase, obj, run, lmon, rmon, owner, bootWrite>>

----------------------------------------------------------------------------
(* The supervise goroutine *)

\* What the switch after waitProcess decides.
Halted(x, cancelled) == cancelled \/ x.desired # "Running"

Restarts(x, cancelled, failed) ==
  /\ ~Halted(x, cancelled)
  /\ x.spec.policy = "Always" \/ (x.spec.policy = "OnFailure" /\ failed)

StateAfter(x, cancelled, failed) ==
  IF Halted(x, cancelled) THEN "Stopped"
  ELSE IF Restarts(x, cancelled, failed) THEN x.state
  ELSE IF failed THEN "Failed"
  ELSE IF x.spec.type = "oneshot" THEN "Exited" ELSE "Stopped"

\* Mutant: a program stopped by a cancellation is no longer wanted.
DesiredLost(x, cancelled, failed) ==
  IF StateAfter(x, cancelled, failed) = "Running" THEN x.desired ELSE "Stopped"

DesiredAfter(x, cancelled, failed) ==
  IF StateAfter(x, cancelled, failed) = "Exited" THEN "Stopped" ELSE x.desired

AfterExit(x, cancelled, failed) ==
  [x EXCEPT !.pid = 0, !.health = "Unknown", !.ready = FALSE,
            !.state = StateAfter(x, cancelled, failed),
            !.desired = DesiredAfter(x, cancelled, failed)]

\* The process is gone and waited for; the exit status is whatever it was.
SuperviseExited(r) ==
  /\ run[r].pc \in Waiting
  /\ owner[run[r].pid] = None
  /\ \E failed \in BOOLEAN :
       LET o == run[r].obj
           x == AfterExit(obj[o], run[r].cancelled, failed)
       IN /\ obj' = [obj EXCEPT ![o] = x]
          /\ disk' = Persist(x)
          /\ run' = [run EXCEPT ![r].pid = 0, ![r].pc =
               IF Restarts(obj[o], run[r].cancelled, failed) THEN "backoff" ELSE "done"]
  /\ UNCHANGED <<phase, programs, lmon, rmon, rpc, owner, todo, bootWrite>>

\* waitProcess sees the cancellation and sends SIGTERM, which may be ignored.
SuperviseTerm(r) ==
  /\ run[r].pc = "wait"
  /\ run[r].cancelled
  /\ run' = [run EXCEPT ![r].pc = "term"]
  /\ UNCHANGED <<phase, programs, obj, lmon, rmon, rpc, disk, owner, todo, bootWrite>>

\* Mutant: SIGTERM is repeated where SIGKILL is meant.
TermAgain(r) ==
  /\ run[r].pc = "term"
  /\ owner[run[r].pid] # None
  /\ UNCHANGED vars

\* After stopTimeout it sends SIGKILL, which may not.
SuperviseKill(r) ==
  /\ run[r].pc = "term"
  /\ owner[run[r].pid] # None
  /\ owner' = [owner EXCEPT ![run[r].pid] = None]
  /\ UNCHANGED <<phase, programs, obj, run, lmon, rmon, rpc, disk, todo, bootWrite>>

\* The backoff sleep is interrupted by the cancellation.
SuperviseCancelled(r) ==
  /\ run[r].pc = "backoff"
  /\ run[r].cancelled
  /\ obj' = [obj EXCEPT ![run[r].obj].state = "Stopped"]
  /\ run' = [run EXCEPT ![r].pc = "done"]
  /\ UNCHANGED <<phase, programs, lmon, rmon, rpc, disk, owner, todo, bootWrite>>

\* The backoff has passed; spawn runs outside the lock and needs the
\* program directory for its log.
SuperviseSpawn(r) ==
  /\ run[r].pc = "backoff"
  /\ LET n == obj[run[r].obj].name
     IN /\ disk[n] # None
        /\ \E p \in Pids :
             /\ FreePid(p)
             /\ owner' = [owner EXCEPT ![p] = n]
             /\ run' = [run EXCEPT ![r].pc = "spawned", ![r].pid = p]
  /\ UNCHANGED <<phase, programs, obj, lmon, rmon, rpc, disk, todo, bootWrite>>

SuperviseSpawnFails(r) ==
  /\ run[r].pc = "backoff"
  /\ obj' = [obj EXCEPT ![run[r].obj].state = "Failed"]
  /\ run' = [run EXCEPT ![r].pc = "done"]
  /\ UNCHANGED <<phase, programs, lmon, rmon, rpc, disk, owner, todo, bootWrite>>

\* Mutant: the respawn does not publish its pid.
RespawnedNoPid(x, p) == [x EXCEPT !.state = "Running", !.ready = ~x.spec.readiness]

Respawned(x, p) == [x EXCEPT !.pid = p, !.state = "Running", !.ready = ~x.spec.readiness]

\* The new incarnation is published under the lock.
SuperviseRespawned(r) ==
  /\ run[r].pc = "spawned"
  /\ LET o == run[r].obj
         x == Respawned(obj[o], run[r].pid)
     IN /\ obj' = [obj EXCEPT ![o] = x]
        /\ disk' = Persist(x)
  /\ run' = [run EXCEPT ![r].pc = "wait"]
  /\ UNCHANGED <<phase, programs, lmon, rmon, rpc, owner, todo, bootWrite>>

----------------------------------------------------------------------------
(* The monitors.  A tick may win over a cancellation that is also ready. *)

MonitorEnds(r) ==
  /\ run[r].cancelled
  /\ \/ lmon[r].pc = "idle" /\ lmon' = [lmon EXCEPT ![r] = NoLMon] /\ UNCHANGED rmon
     \/ rmon[r] = "idle" /\ rmon' = [rmon EXCEPT ![r] = "off"] /\ UNCHANGED lmon
  /\ UNCHANGED <<phase, programs, obj, run, rpc, disk, owner, todo, bootWrite>>

Probeable(x) == x.state = "Running" /\ x.pid # 0

\* The failure count restarts with every incarnation the monitor meets.
LivenessTick(r) ==
  /\ lmon[r].pc = "idle"
  /\ LET x == obj[run[r].obj]
     IN lmon' = [lmon EXCEPT ![r] =
          IF Probeable(x)
            THEN [pc |-> "probe", monitored |-> x.pid,
                  failures |-> IF x.pid = @.monitored THEN @.failures ELSE 0]
            ELSE [NoLMon EXCEPT !.pc = "idle"]]
  /\ UNCHANGED <<phase, programs, obj, run, rmon, rpc, disk, owner, todo, bootWrite>>

\* Mutant: the threshold is compared one failure late.
ToleratedLate(failures) == failures + 1 <= FailureThreshold

\* One more failure stays below the threshold.
Tolerated(failures) == failures + 1 < FailureThreshold

\* The probe passes or fails: what answers on the loopback port, or the
\* state of the process by then, is beyond the agent.
LivenessProbe(r) ==
  /\ lmon[r].pc = "probe"
  /\ \/ lmon' = [lmon EXCEPT ![r].pc = "pass", ![r].failures = 0]
     \/ /\ Tolerated(lmon[r].failures)
        /\ lmon' = [lmon EXCEPT ![r].pc = "idle", ![r].failures = @ + 1]
     \/ /\ ~Tolerated(lmon[r].failures)
        /\ lmon' = [lmon EXCEPT ![r].pc = "fail"]
  /\ UNCHANGED <<phase, programs, obj, run, rmon, rpc, disk, owner, todo, bootWrite>>

\* setHealth and setReady record a verdict only while the program is running.
SetHealth(x, h) == IF x.state = "Running" THEN [x EXCEPT !.health = h] ELSE x
SetReady(x, b)  == IF x.state = "Running" THEN [x EXCEPT !.ready = b] ELSE x

LivenessPasses(r) ==
  /\ lmon[r].pc = "pass"
  /\ obj' = [obj EXCEPT ![run[r].obj] = SetHealth(@, "Healthy")]
  /\ lmon' = [lmon EXCEPT ![r].pc = "idle"]
  /\ UNCHANGED <<phase, programs, run, rmon, rpc, disk, owner, todo, bootWrite>>

\* The threshold is reached.  SIGTERM goes to the process group that was
\* probed, which may ignore it: an exit is ProcessExits.
LivenessFails(r) ==
  /\ lmon[r].pc = "fail"
  /\ obj' = [obj EXCEPT ![run[r].obj] = SetHealth(@, "Unhealthy")]
  /\ lmon' = [lmon EXCEPT ![r] = [NoLMon EXCEPT !.pc = "idle"]]
  /\ UNCHANGED <<phase, programs, run, rmon, rpc, disk, owner, todo, bootWrite>>

ReadinessTick(r) ==
  /\ rmon[r] = "idle"
  /\ rmon' = [rmon EXCEPT ![r] = IF Probeable(obj[run[r].obj]) THEN "probe" ELSE "fail"]
  /\ UNCHANGED <<phase, programs, obj, run, lmon, rpc, disk, owner, todo, bootWrite>>

ReadinessProbe(r) ==
  /\ rmon[r] = "probe"
  /\ \E verdict \in {"pass", "fail"} : rmon' = [rmon EXCEPT ![r] = verdict]
  /\ UNCHANGED <<phase, programs, obj, run, lmon, rpc, disk, owner, todo, bootWrite>>

ReadinessVerdict(r) ==
  /\ rmon[r] \in {"pass", "fail"}
  /\ obj' = [obj EXCEPT ![run[r].obj] = SetReady(@, rmon[r] = "pass")]
  /\ rmon' = [rmon EXCEPT ![r] = "idle"]
  /\ UNCHANGED <<phase, programs, run, lmon, rpc, disk, owner, todo, bootWrite>>

----------------------------------------------------------------------------
(* Processes end when they like: completion, crash, or a signal they heed. *)

ProcessExits(p) ==
  /\ owner[p] # None
  /\ owner' = [owner EXCEPT ![p] = None]
  /\ UNCHANGED <<phase, programs, obj, run, lmon, rmon, rpc, disk, todo, bootWrite>>

----------------------------------------------------------------------------
(* Shutdown, crash and boot of the agent *)

\* SIGTERM: GracefulStop refuses new calls and waits for those in flight.
Drain ==
  /\ phase = "up"
  /\ phase' = "drain"
  /\ UNCHANGED <<programs, obj, run, lmon, rmon, rpc, disk, owner, todo, bootWrite>>

ShutdownBegin ==
  /\ phase = "drain"
  /\ \A c \in Clients : rpc[c].pc = "idle"
  /\ phase' = "shutdown"
  /\ todo' = {n \in Names : programs[n] # None /\ obj[programs[n]].state = "Running"}
  /\ UNCHANGED <<programs, obj, run, lmon, rmon, rpc, disk, owner, bootWrite>>

ShutdownTerminate(n) ==
  /\ phase = "shutdown"
  /\ n \in todo
  /\ \A m \in todo : n <= m
  /\ rpc[Main].pc = "idle"
  /\ rpc' = [rpc EXCEPT ![Main] = [NoRpc EXCEPT !.pc = "lookup", !.op = "shutdown",
                                                !.name = n, !.obj = programs[n]]]
  /\ UNCHANGED <<phase, programs, obj, run, lmon, rmon, disk, owner, todo, bootWrite>>

\* The agent process is gone and all its memory with it.  The programs are
\* process groups of their own and live on.
Vanish ==
  /\ phase' = "down"
  /\ programs' = [n \in Names |-> None]
  /\ obj' = [o \in Objs |-> None]
  /\ run' = [r \in Runs |-> NoRun]
  /\ lmon' = [r \in Runs |-> NoLMon]
  /\ rmon' = [r \in Runs |-> "off"]
  /\ rpc' = [c \in Clients \cup {Main} |-> NoRpc]
  /\ todo' = {}
  /\ bootWrite' = None

ShutdownExit ==
  /\ phase = "shutdown"
  /\ todo = {}
  /\ rpc[Main].pc = "idle"
  /\ Vanish
  /\ UNCHANGED <<disk, owner>>

Crash ==
  /\ phase # "down"
  /\ Vanish
  /\ UNCHANGED <<disk, owner>>

\* A crash inside Start, once the process is spawned and before it is recorded.
CrashAfterSpawn(n) ==
  /\ phase = "up"
  /\ Startable(n)
  /\ \E p \in Pids : FreePid(p) /\ owner' = [owner EXCEPT ![p] = n]
  /\ Vanish
  /\ UNCHANGED disk

\* A crash inside a persistLocked, of a handler or of a supervise goroutine,
\* leaves a truncated file.
CrashInPersist(n) ==
  /\ phase # "down"
  /\ disk[n] # None
  /\ \/ phase = "up" /\ programs[n] # None
     \/ \E r \in Runs :
          /\ run[r].pc = "spawned" \/ (run[r].pc \in Waiting /\ owner[run[r].pid] = None)
          /\ obj[run[r].obj].name = n
  /\ Vanish
  /\ disk' = [disk EXCEPT ![n] = Broken]
  /\ UNCHANGED owner

\* NewManager loads every readable definition and kills the recorded pids.
BootLoad ==
  /\ phase = "down"
  /\ phase' = "boot"
  /\ LET readable == {n \in Names : disk[n] \notin {None, Broken}}
     IN /\ \E f \in [readable -> Objs] :
             /\ \A m, n \in readable : f[m] = f[n] => m = n
             /\ programs' = [n \in Names |-> IF n \in readable THEN f[n] ELSE None]
             /\ obj' = [o \in Objs |->
                  IF \E n \in readable : f[n] = o
                    THEN LET n == CHOOSE m \in readable : f[m] = o
                         IN [name |-> n, spec |-> disk[n].spec, state |-> "Configured",
                             pid |-> 0, health |-> "", ready |-> FALSE,
                             desired |-> disk[n].desired, run |-> None]
                    ELSE None]
        /\ owner' = [p \in Pids |->
             IF \E n \in readable : disk[n].pid = p THEN None ELSE owner[p]]
        /\ todo' = {n \in readable : disk[n].desired = "Running" \/ disk[n].spec.auto}
  /\ UNCHANGED <<run, lmon, rmon, rpc, disk, bootWrite>>

\* sortByStartupOrder
StartsBefore(m, n) ==
  LET a == obj[programs[m]].spec.order
      b == obj[programs[n]].spec.order
  IN a < b \/ (a = b /\ m <= n)

\* NewManager calls startLocked without holding the lock.
BootStart(n) ==
  /\ phase = "boot"
  /\ bootWrite = None
  /\ n \in todo
  /\ \A m \in todo : StartsBefore(n, m)
  /\ obj[programs[n]].state = "Configured"
  /\ LET o == programs[n]
     IN \E r \in Runs, p \in Pids :
          /\ FreeRun(r) /\ FreePid(p)
          /\ obj' = [obj EXCEPT ![o] = Started(@, r, p)]
          /\ LaunchRun(o, r, p)
          /\ owner' = [owner EXCEPT ![p] = n]
  /\ UNCHANGED <<phase, programs, rpc, disk, todo, bootWrite>>

BootStartFails(n) ==
  /\ phase = "boot"
  /\ bootWrite = None
  /\ n \in todo
  /\ \A m \in todo : StartsBefore(n, m)
  /\ obj[programs[n]].state = "Configured"
  /\ obj' = [obj EXCEPT ![programs[n]].state = "Failed", ![programs[n]].desired = "Running"]
  /\ UNCHANGED <<phase, programs, run, lmon, rmon, rpc, disk, owner, todo, bootWrite>>

\* persistLocked marshals the program, again without the lock ...
BootMarshal(n) ==
  /\ phase = "boot"
  /\ bootWrite = None
  /\ n \in todo
  /\ \A m \in todo : StartsBefore(n, m)
  /\ obj[programs[n]].state # "Configured"
  /\ bootWrite' = MetaOf(obj[programs[n]])
  /\ UNCHANGED <<phase, programs, obj, run, lmon, rmon, rpc, disk, owner, todo>>

\* ... and writes the file.
BootPersist(n) ==
  /\ phase = "boot"
  /\ bootWrite # None
  /\ n \in todo
  /\ \A m \in todo : StartsBefore(n, m)
  /\ disk' = [disk EXCEPT ![n] = bootWrite]
  /\ bootWrite' = None
  /\ todo' = todo \ {n}
  /\ UNCHANGED <<phase, programs, obj, run, lmon, rmon, rpc, owner>>

BootDone ==
  /\ phase = "boot"
  /\ todo = {}
  /\ phase' = "up"
  /\ UNCHANGED <<programs, obj, run, lmon, rmon, rpc, disk, owner, todo, bootWrite>>

----------------------------------------------------------------------------

Handlers ==
  \/ \E n \in Names, s \in Specs : Install(n, s)
  \/ \E n \in Names : Start(n) \/ StartFails(n)
  \/ \E c \in Clients, n \in Names, op \in Ops : StopBegin(c, n, op)
  \/ \E c \in Clients \cup {Main} :
       \/ TerminateLookup(c) \/ TerminateCancel(c) \/ TerminateDone(c)
       \/ TerminateTimeout(c) \/ TerminateReturn(c)

Supervise(r) ==
  \/ SuperviseExited(r) \/ SuperviseTerm(r) \/ SuperviseKill(r)
  \/ SuperviseCancelled(r) \/ SuperviseSpawn(r) \/ SuperviseSpawnFails(r)
  \/ SuperviseRespawned(r)

Monitor(r) ==
  \/ MonitorEnds(r)
  \/ LivenessTick(r) \/ LivenessProbe(r) \/ LivenessPasses(r) \/ LivenessFails(r)
  \/ ReadinessTick(r) \/ ReadinessProbe(r) \/ ReadinessVerdict(r)

Lifecycle ==
  \/ Drain \/ ShutdownBegin \/ ShutdownExit \/ Crash \/ BootLoad \/ BootDone
  \/ \E n \in Names :
       \/ ShutdownTerminate(n) \/ CrashAfterSpawn(n) \/ CrashInPersist(n)
       \/ BootStart(n) \/ BootStartFails(n) \/ BootMarshal(n) \/ BootPersist(n)

Next ==
  \/ Handlers
  \/ \E r \in Runs : Supervise(r) \/ Monitor(r)
  \/ \E p \in Pids : ProcessExits(p)
  \/ Lifecycle

Spec == Init /\ [][Next]_vars

\* Go runs every goroutine that can run: a supervise goroutine whose process
\* has exited, whose context is cancelled or whose timer has fired goes on.
FairSpec == Spec /\ \A r \in Runs : WF_vars(Supervise(r))

----------------------------------------------------------------------------
(* Properties *)

\* Every supervise goroutine that has not ended serves an object that says
\* Running and whose current run it is: no goroutine of an earlier Start
\* (supervise, startLocked) lives on beside the one of a later Start.
RunServesItsProgram ==
  \A r \in Runs : run[r].pc \in Active =>
    /\ run[r].obj \in Objs
    /\ obj[run[r].obj] \in Obj
    /\ obj[run[r].obj].state = "Running"
    /\ obj[run[r].obj].run = r

\* Every object that says Running has a live supervise goroutine of its own,
\* so List never shows a Running program that nothing will ever update.
RunningIsSupervised ==
  \A o \in Objs : obj[o] # None /\ obj[o].state = "Running" =>
    /\ obj[o].run \in Runs
    /\ run[obj[o].run].obj = o
    /\ run[obj[o].run].pc \in Active

\* The pid an object shows is the one its goroutine waits on, and 0 in the
\* backoff, before a respawn is published and after the end of supervision.
PidIsTheProcess ==
  \A o \in Objs : obj[o] # None =>
    obj[o].pid = IF obj[o].state = "Running" /\ run[obj[o].run].pc \in Waiting
                   THEN run[obj[o].run].pid ELSE 0

\* No two goroutines wait on the same process group, and the process a
\* goroutine waits on is of its own program unless it has exited.
ProcessesAreApart ==
  \A r \in Runs : run[r].pc \in Waiting \cup {"spawned"} =>
    /\ run[r].pid \in Pids
    /\ owner[run[r].pid] \in {None, obj[run[r].obj].name}
    /\ \A q \in Runs : run[q].pc \in Waiting \cup {"spawned"} /\ run[q].pid = run[r].pid
                         => q = r

\* One supervised process per program object (manager.go startLocked and
\* supervise), whatever handlers, exits, probes, crashes and boots interleave.
SupervisionInv ==
  RunServesItsProgram /\ RunningIsSupervised /\ PidIsTheProcess /\ ProcessesAreApart

\* When Stop (or the Stop inside Remove) has succeeded and no Start of the
\* same name overlapped it, the program is stopped for good: neither the
\* object Stop found nor the one the name maps to now is running, although
\* Stop looks the name up twice and respawns happen outside the lock.
StopHolds ==
  \A c \in Clients : rpc[c].pc = "ok" /\ ~rpc[c].raced =>
    /\ obj[rpc[c].obj].state # "Running"
    /\ obj[rpc[c].obj].desired = "Stopped"
    /\ programs[rpc[c].name] # None => obj[programs[rpc[c].name]].state # "Running"

\* Every supervise goroutine belongs to an installed program, so that List,
\* Stop and Shutdown reach its process (Remove: "stops a program and deletes
\* its definition and logs").
NoOrphanRun ==
  \A r \in Runs : run[r].pc \in Active => programs[obj[run[r].obj].name] = run[r].obj

\* While the agent serves, meta.json holds the desired state and the spec of
\* every simple program that is not Failed: a crash at this moment loses no
\* acknowledged Install, Start or Stop (persistLocked, NewManager).
DesiredIsDurable ==
  phase \in {"up", "drain"} =>
    \A n \in Names : programs[n] # None =>
      LET x == obj[programs[n]]
      IN x.state # "Failed" /\ x.spec.type = "simple" =>
           /\ disk[n] \notin {None, Broken}
           /\ disk[n].desired = x.desired
           /\ disk[n].spec = x.spec

\* Shutdown never rewrites a desired state on disk: "a supervisor restart
\* must not read as the user stopped these programs".  Only a oneshot that
\* completes meanwhile turns to Stopped.
ShutdownKeepsDesired ==
  [][phase = "shutdown" =>
       \A n \in Names : disk[n] \notin {None, Broken} /\ disk'[n] \notin {None, Broken} =>
         \/ disk'[n].desired = disk[n].desired
         \/ disk[n].spec.type = "oneshot" /\ disk'[n].desired = "Stopped"]_vars

\* A cancelled supervise goroutine ends, even when the process ignores
\* SIGTERM or a respawn was already under way (waitProcess, supervise).
CancelledRunEnds ==
  \A r \in Runs : run[r].cancelled ~> run[r].pc = "done"

\* A program that lost its process and says Running gets a new one or stops
\* saying Running: the backoff is never its last state (supervise).
BackoffEnds ==
  \A o \in Objs :
    (obj[o] # None /\ obj[o].state = "Running" /\ obj[o].pid = 0)
      ~> (obj[o] = None \/ obj[o].state # "Running" \/ obj[o].pid # 0)

=============================================================================
