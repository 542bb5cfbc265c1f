---------------------- MODULE ProgramSupervisorProofs ----------------------
(***************************************************************************)
(* Proofs about ProgramSupervisor, for any numbers of programs, object and *)
(* run slots, processes and clients.                                       *)
(*                                                                         *)
(* First the type invariant, and that one goroutine supervises one process *)
(* per running program object.  Neither is inductive alone.                *)
(* References adds what ties the variables together: a name in the map, a  *)
(* goroutine, a monitor and a handler in flight always point at something  *)
(* that exists, and an agent that is down has no goroutine left.           *)
(*                                                                         *)
(* Then, on top of that and as long as nobody calls Remove (whose delete,  *)
(* made after the lock was released, may strike a program that was started *)
(* meanwhile), what Stop, a crash and Shutdown promise: JInv says what a   *)
(* Stop in flight knows of its program and how memory and meta.json agree. *)
(***************************************************************************)
EXTENDS ProgramSupervisor, TLAPS

Procs == Clients \cup {Main}

\* The goroutines of a run that still use its object.
InUse(r) == run[r].pc # "done" \/ lmon[r].pc # "off" \/ rmon[r] # "off"

\* Names in the map and goroutines point at objects, handlers at names and
\* runs.
MapRefs == \A n \in Names : programs[n] # None =>
             obj[programs[n]] \in Obj /\ obj[programs[n]].name = n
RunRefs == \A r \in Runs : InUse(r) => run[r].obj \in Objs /\ obj[run[r].obj] \in Obj
RpcRefs == \A c \in Procs :
             /\ rpc[c].pc # "idle" => rpc[c].name \in Names
             /\ rpc[c].pc \in {"cancel", "wait"} => rpc[c].run \in Runs

\* An agent that is down runs nothing; one that boots has loaded what it starts.
DownRefs == /\ phase = "down" => \A r \in Runs : ~InUse(r)
            /\ phase \in {"down", "boot"} => \A c \in Procs : rpc[c].pc = "idle"
BootRefs == phase = "boot" => \A n \in todo : programs[n] # None

References == MapRefs /\ RunRefs /\ RpcRefs /\ DownRefs /\ BootRefs

\* The inductive invariant.
IInv == TypeOK /\ References /\ SupervisionInv

----------------------------------------------------------------------------
(* What the helpers return *)

\* startLocked makes a well-formed, Running object with the new process.
LEMMA StartedFields ==
  ASSUME NEW x \in Obj, NEW r \in Runs, NEW p \in Pids
  PROVE  /\ Started(x, r, p) \in Obj
         /\ Started(x, r, p).state = "Running"
         /\ Started(x, r, p).pid = p
         /\ Started(x, r, p).run = r
         /\ Started(x, r, p).name = x.name
  BY SupervisorAssumptions DEF Started, Obj, States, Desired, Health, SpecType

\* The object after an exit: no pid, and Running only if it was and a
\* restart follows.
LEMMA AfterExitFields ==
  ASSUME NEW x \in Obj, NEW c \in BOOLEAN, NEW f \in BOOLEAN, x.state = "Running"
  PROVE  /\ AfterExit(x, c, f) \in Obj
         /\ AfterExit(x, c, f).pid = 0
         /\ AfterExit(x, c, f).run = x.run
         /\ AfterExit(x, c, f).name = x.name
         /\ (AfterExit(x, c, f).state = "Running") <=> Restarts(x, c, f)
  BY DEF AfterExit, StateAfter, DesiredAfter, Restarts, Halted, Obj, States, Desired, Health

\* Verdicts touch only health and ready.
LEMMA VerdictFields ==
  ASSUME NEW x \in Obj, NEW b \in BOOLEAN, NEW h \in Health
  PROVE  /\ SetReady(x, b) \in Obj /\ SetHealth(x, h) \in Obj
         /\ SetReady(x, b).pid = x.pid /\ SetHealth(x, h).pid = x.pid
         /\ SetReady(x, b).run = x.run /\ SetHealth(x, h).run = x.run
         /\ SetReady(x, b).name = x.name /\ SetHealth(x, h).name = x.name
         /\ SetReady(x, b).state = x.state /\ SetHealth(x, h).state = x.state
  BY DEF SetReady, SetHealth, Obj

\* persistLocked writes a well-formed file or leaves the directory alone.
LEMMA PersistType ==
  ASSUME NEW x \in Obj, TypeOK
  PROVE  Persist(x) \in [Names -> Meta \cup {None, Broken}]
  BY DEF Persist, MetaOf, TypeOK, Obj, Meta

----------------------------------------------------------------------------
(* Steps that leave objects, runs and processes alone *)

\* SupervisionInv is about objects, runs and processes only.
LEMMA SupervisionFrame ==
  ASSUME SupervisionInv, UNCHANGED <<obj, run, owner>>
  PROVE  SupervisionInv'
  BY DEF SupervisionInv, RunServesItsProgram, RunningIsSupervised, PidIsTheProcess,
         ProcessesAreApart

\* A handler moves on to a well-formed state of its own.
LEMMA RpcUpdate ==
  ASSUME IInv, NEW c \in Procs, NEW v \in Rpc, rpc' = [rpc EXCEPT ![c] = v],
         v.pc # "idle" => v.name \in Names,
         v.pc \in {"cancel", "wait"} => v.run \in Runs
  PROVE  rpc' \in [Procs -> Rpc] /\ RpcRefs'
<1>1. rpc \in [Procs -> Rpc]
  BY DEF IInv, TypeOK, Procs
<1> QED
  BY <1>1 DEF IInv, References, RpcRefs

\* The idle state a handler returns to.
LEMMA NoRpcType == NoRpc \in Rpc /\ NoRpc.pc = "idle"
  BY DEF NoRpc, Rpc

\* A step that changes only handlers and what is left to terminate.
LEMMA RpcFrame ==
  ASSUME IInv, UNCHANGED <<phase, programs, obj, run, lmon, rmon, disk, owner, bootWrite>>,
         rpc' \in [Procs -> Rpc], RpcRefs', todo' \in SUBSET todo,
         phase \notin {"down", "boot"}
  PROVE  IInv'
<1>1. TypeOK'
  BY DEF IInv, TypeOK, Procs
<1>2. References'
  BY DEF IInv, References, MapRefs, RunRefs, DownRefs, BootRefs, InUse
<1> QED
  BY <1>1, <1>2, SupervisionFrame DEF IInv

\* terminate looks the program up.
LEMMA TerminateLookupStep ==
  ASSUME IInv, NEW c \in Procs, TerminateLookup(c)
  PROVE  IInv'
<1> DEFINE n == rpc[c].name
           v == IF programs[n] = None THEN NoRpc
                ELSE IF obj[programs[n]].run = None THEN [rpc[c] EXCEPT !.pc = "ok"]
                ELSE [rpc[c] EXCEPT !.pc = "cancel", !.run = obj[programs[n]].run]
<1>1. rpc[c] \in Rpc /\ n \in Names /\ phase \notin {"down", "boot"}
  BY DEF IInv, TypeOK, Procs, References, RpcRefs, DownRefs, TerminateLookup
<1>2. programs[n] # None => obj[programs[n]].run \in Runs \cup {None}
  BY <1>1 DEF IInv, References, MapRefs, Obj
<1>3. v \in Rpc /\ (v.pc # "idle" => v.name \in Names) /\ (v.pc \in {"cancel", "wait"} => v.run \in Runs)
  BY <1>1, <1>2, NoRpcType DEF Rpc
<1>4. rpc' = [rpc EXCEPT ![c] = v] /\ todo' \in SUBSET todo
  BY DEF TerminateLookup
<1> HIDE DEF v
<1>5. rpc' \in [Procs -> Rpc] /\ RpcRefs'
  BY <1>3, <1>4, RpcUpdate
<1> QED
  BY <1>1, <1>4, <1>5, RpcFrame DEF TerminateLookup

\* terminate sees done closed, or gives up.
LEMMA TerminateWaitStep ==
  ASSUME IInv, NEW c \in Procs, TerminateDone(c) \/ TerminateTimeout(c)
  PROVE  IInv'
<1>1. rpc[c] \in Rpc /\ rpc[c].name \in Names /\ phase \notin {"down", "boot"}
  BY DEF IInv, TypeOK, Procs, References, RpcRefs, DownRefs, TerminateDone, TerminateTimeout
<1>2. rpc' \in [Procs -> Rpc] /\ RpcRefs'
  <2>1. CASE TerminateDone(c)
    <3> DEFINE v == [rpc[c] EXCEPT !.pc = "ok"]
    <3>1. v \in Rpc /\ v.pc = "ok" /\ v.name = rpc[c].name
      BY <1>1 DEF Rpc
    <3>2. rpc' = [rpc EXCEPT ![c] = v]
      BY <2>1 DEF TerminateDone
    <3> QED
      BY <1>1, <3>1, <3>2, RpcUpdate
  <2>2. CASE TerminateTimeout(c)
    BY <2>2, NoRpcType, RpcUpdate DEF TerminateTimeout
  <2> QED
    BY <2>1, <2>2
<1>3. todo' \in SUBSET todo
  BY DEF TerminateDone, TerminateTimeout
<1> QED
  BY <1>1, <1>2, <1>3, RpcFrame DEF TerminateDone, TerminateTimeout

----------------------------------------------------------------------------
(* startLocked *)

\* Launching a run for an object that is not Running, from Start or at boot.
LEMMA LaunchStep ==
  ASSUME IInv, NEW n \in Names, programs[n] # None, NEW r \in Runs, NEW p \in Pids,
         obj[programs[n]].state # "Running", FreeRun(r), FreePid(p),
         obj' = [obj EXCEPT ![programs[n]] = Started(@, r, p)],
         LaunchRun(programs[n], r, p),
         owner' = [owner EXCEPT ![p] = n],
         programs' = programs
  PROVE  /\ obj' \in [Objs -> Obj \cup {None}]
         /\ run' \in [Runs -> Run] /\ lmon' \in [Runs -> LMon] /\ rmon' \in [Runs -> RMon]
         /\ owner' \in [Pids -> Names \cup {None}]
         /\ MapRefs' /\ RunRefs'
         /\ SupervisionInv'
<1> DEFINE o == programs[n]
           x == Started(obj[o], r, p)
<1>1. /\ o \in Objs /\ obj[o] \in Obj /\ obj[o].name = n
      /\ x \in Obj /\ x.state = "Running" /\ x.pid = p /\ x.run = r /\ x.name = n
      /\ obj' = [obj EXCEPT ![o] = x]
  BY StartedFields DEF IInv, TypeOK, References, MapRefs
<1>2. obj' \in [Objs -> Obj \cup {None}]
  BY <1>1 DEF IInv, TypeOK
<1>3. /\ run' \in [Runs -> Run]
      /\ run'[r].obj = o /\ run'[r].pc = "wait" /\ run'[r].pid = p
      /\ \A q \in Runs \ {r} : run'[q] = run[q] /\ lmon'[q] = lmon[q] /\ rmon'[q] = rmon[q]
  BY <1>1 DEF LaunchRun, IInv, TypeOK, Run, Active, Waiting
<1>4. /\ lmon' \in [Runs -> LMon]
      /\ rmon' \in [Runs -> RMon]
  BY <1>1 DEF LaunchRun, IInv, TypeOK, LMon, RMon
<1>5. owner' \in [Pids -> Names \cup {None}]
  BY DEF IInv, TypeOK
<1>6. run[r].pc = "done" /\ \A q \in Runs : run[q].pc \in Active => run[q].obj # o
  BY <1>1 DEF FreeRun, IInv, SupervisionInv, RunServesItsProgram
<1>7. MapRefs'
  BY <1>1 DEF IInv, TypeOK, References, MapRefs
<1>8. RunRefs'
  BY <1>1, <1>3 DEF IInv, TypeOK, References, RunRefs, InUse
<1>9. RunServesItsProgram'
  BY <1>1, <1>3, <1>6 DEF IInv, TypeOK, SupervisionInv, RunServesItsProgram
<1>10. RunningIsSupervised'
  <2> SUFFICES ASSUME NEW b \in Objs, obj'[b] # None, obj'[b].state = "Running"
               PROVE  /\ obj'[b].run \in Runs
                      /\ run'[obj'[b].run].obj = b
                      /\ run'[obj'[b].run].pc \in Active
    BY DEF RunningIsSupervised
  <2>1. CASE b = o
    BY <2>1, <1>1, <1>3 DEF IInv, TypeOK, Active, Waiting
  <2>2. CASE b # o
    <3>1. obj'[b] = obj[b]
      BY <2>2, <1>1 DEF IInv, TypeOK
    <3>2. obj[b].run \in Runs /\ run[obj[b].run].obj = b /\ run[obj[b].run].pc \in Active
      BY <3>1 DEF IInv, SupervisionInv, RunningIsSupervised
    <3>3. obj[b].run # r
      BY <3>2, <1>6 DEF Active, Waiting
    <3> QED
      BY <3>1, <3>2, <3>3, <1>3
  <2> QED
    BY <2>1, <2>2
<1>11. PidIsTheProcess'
  <2> SUFFICES ASSUME NEW b \in Objs, obj'[b] # None
               PROVE  obj'[b].pid = IF obj'[b].state = "Running" /\ run'[obj'[b].run].pc \in Waiting
                                      THEN run'[obj'[b].run].pid ELSE 0
    BY DEF PidIsTheProcess
  <2>1. CASE b = o
    BY <2>1, <1>1, <1>3 DEF IInv, TypeOK, Waiting
  <2>2. CASE b # o
    <3>1. obj'[b] = obj[b]
      BY <2>2, <1>1 DEF IInv, TypeOK
    <3>2. obj[b].state = "Running" => obj[b].run \in Runs /\ run[obj[b].run].pc \in Active
      BY <3>1 DEF IInv, SupervisionInv, RunningIsSupervised
    <3>3. obj[b].state = "Running" => run'[obj[b].run] = run[obj[b].run]
      BY <3>2, <1>6, <1>3 DEF Active, Waiting
    <3> QED
      BY <3>1, <3>3 DEF IInv, SupervisionInv, PidIsTheProcess
  <2> QED
    BY <2>1, <2>2
<1>12. ProcessesAreApart'
  <2>1. \A q \in Runs \ {r} : run'[q].pc \in Waiting \cup {"spawned"} =>
          /\ run'[q].pid \in Pids /\ run'[q].pid # p
          /\ run'[q].obj # o /\ obj'[run'[q].obj] = obj[run[q].obj]
    BY <1>1, <1>3, <1>6 DEF IInv, TypeOK, SupervisionInv, ProcessesAreApart, FreePid, Active, RunServesItsProgram
  <2> QED
    BY <2>1, <1>1, <1>3, <1>5 DEF IInv, TypeOK, SupervisionInv, ProcessesAreApart
<1> QED
  BY <1>2, <1>3, <1>4, <1>5, <1>7, <1>8, <1>9, <1>10, <1>11, <1>12 DEF SupervisionInv

----------------------------------------------------------------------------
(* Updates of one object, of one run *)

\* An object changes and keeps its name, run and pid, and stays Running or
\* stays not Running: what verdicts, Stop and a failed spawn do.
LEMMA ObjUpdate ==
  ASSUME IInv, NEW o \in Objs, obj[o] \in Obj, NEW y \in Obj, obj' = [obj EXCEPT ![o] = y],
         y.name = obj[o].name, y.run = obj[o].run, y.pid = obj[o].pid,
         (y.state = "Running") <=> (obj[o].state = "Running"),
         UNCHANGED <<programs, run, owner>>
  PROVE  obj' \in [Objs -> Obj \cup {None}] /\ MapRefs' /\ SupervisionInv'
<1>1. obj' \in [Objs -> Obj \cup {None}] /\ obj'[o] = y /\ \A b \in Objs \ {o} : obj'[b] = obj[b]
  BY DEF IInv, TypeOK
<1>2. MapRefs'
  BY <1>1 DEF IInv, TypeOK, References, MapRefs
<1>3. RunServesItsProgram'
  BY <1>1 DEF IInv, SupervisionInv, RunServesItsProgram
<1>4. \A b \in Objs : obj'[b] # None =>
        /\ obj[b] # None
        /\ obj'[b].run = obj[b].run /\ obj'[b].pid = obj[b].pid
        /\ (obj'[b].state = "Running") <=> (obj[b].state = "Running")
  <2>1. \A b \in Objs \ {o} : obj'[b] = obj[b]
    BY <1>1
  <2>2. obj[o] # None
    BY NilIsNoObject
  <2> QED
    BY <1>1, <2>1, <2>2
<1>5. RunningIsSupervised'
  BY <1>4 DEF IInv, SupervisionInv, RunningIsSupervised
<1>6. PidIsTheProcess'
  BY <1>4 DEF IInv, SupervisionInv, PidIsTheProcess
<1>7. ProcessesAreApart'
  BY <1>1 DEF IInv, SupervisionInv, RunServesItsProgram, ProcessesAreApart, Active
<1> QED
  BY <1>1, <1>2, <1>3, <1>5, <1>6, <1>7 DEF SupervisionInv

\* A supervise goroutine moves on, together with its object, and perhaps its
\* process.
LEMMA RunUpdate ==
  ASSUME IInv, NEW r \in Runs, run[r].pc \in Active, NEW y \in Obj,
         obj' = [obj EXCEPT ![run[r].obj] = y],
         y.name = obj[run[r].obj].name, y.run = obj[run[r].obj].run,
         run' \in [Runs -> Run], \A q \in Runs \ {r} : run'[q] = run[q],
         run'[r].obj = run[r].obj,
         (y.state = "Running") <=> (run'[r].pc \in Active),
         y.pid = IF run'[r].pc \in Waiting THEN run'[r].pid ELSE 0,
         run'[r].pc \in Waiting \cup {"spawned"} =>
           /\ run'[r].pid \in Pids
           /\ owner'[run'[r].pid] \in {None, y.name}
           /\ \A q \in Runs \ {r} : run[q].pc \in Waiting \cup {"spawned"} =>
                run[q].pid # run'[r].pid,
         \A q \in Runs \ {r} : run[q].pc \in Waiting \cup {"spawned"} =>
           owner'[run[q].pid] \in {None, owner[run[q].pid]},
         UNCHANGED <<programs, lmon, rmon>>
  PROVE  obj' \in [Objs -> Obj \cup {None}] /\ MapRefs' /\ RunRefs' /\ SupervisionInv'
<1> DEFINE o == run[r].obj
<1>1. o \in Objs /\ obj[o] \in Obj /\ obj[o].state = "Running" /\ obj[o].run = r
  BY DEF IInv, SupervisionInv, RunServesItsProgram
<1>2. obj' \in [Objs -> Obj \cup {None}] /\ obj'[o] = y /\ \A b \in Objs \ {o} : obj'[b] = obj[b]
  BY <1>1 DEF IInv, TypeOK
<1>3. \A q \in Runs \ {r} : run[q].pc \in Active => run[q].obj # o
  BY <1>1 DEF IInv, SupervisionInv, RunServesItsProgram
<1>4. \A b \in Objs \ {o} : obj[b] # None /\ obj[b].state = "Running" =>
        obj[b].run \in Runs \ {r} /\ run[obj[b].run].obj = b /\ run[obj[b].run].pc \in Active
  BY DEF IInv, SupervisionInv, RunningIsSupervised
<1>5. MapRefs'
  BY <1>1, <1>2 DEF IInv, TypeOK, References, MapRefs
<1>6. RunRefs'
  BY <1>1, <1>2 DEF IInv, TypeOK, References, RunRefs, InUse, Active, Waiting
<1>7. RunServesItsProgram'
  BY <1>1, <1>2, <1>3 DEF IInv, SupervisionInv, RunServesItsProgram
<1>8. RunningIsSupervised'
  BY <1>1, <1>2, <1>4 DEF RunningIsSupervised
<1>9. PidIsTheProcess'
  <2> SUFFICES ASSUME NEW b \in Objs, obj'[b] # None
               PROVE  obj'[b].pid = IF obj'[b].state = "Running" /\ run'[obj'[b].run].pc \in Waiting
                                      THEN run'[obj'[b].run].pid ELSE 0
    BY DEF PidIsTheProcess
  <2>1. CASE b = o
    BY <2>1, <1>1, <1>2 DEF Active
  <2>2. CASE b # o
    <3>1. obj'[b] = obj[b] /\ (obj[b].state = "Running" => run'[obj[b].run] = run[obj[b].run])
      BY <2>2, <1>2, <1>4
    <3> QED
      BY <3>1 DEF IInv, SupervisionInv, PidIsTheProcess
  <2> QED
    BY <2>1, <2>2
<1>10. ProcessesAreApart'
  <2>1. \A q \in Runs \ {r} : run[q].pc \in Waiting \cup {"spawned"} =>
          /\ run[q].obj \in Objs \ {o}
          /\ run[q].pid \in Pids /\ owner[run[q].pid] \in {None, obj[run[q].obj].name}
    BY <1>3 DEF IInv, SupervisionInv, ProcessesAreApart, RunServesItsProgram, Active
  <2>2. \A q, t \in Runs \ {r} :
          (/\ run[q].pc \in Waiting \cup {"spawned"}
           /\ run[t].pc \in Waiting \cup {"spawned"}
           /\ run[q].pid = run[t].pid) => q = t
    BY DEF IInv, SupervisionInv, ProcessesAreApart
  <2>3. \A q \in Runs \ {r} : run'[q].pc \in Waiting \cup {"spawned"} =>
          /\ run'[q].pid \in Pids
          /\ owner'[run'[q].pid] \in {None, obj'[run'[q].obj].name}
          /\ run'[r].pc \in Waiting \cup {"spawned"} => run'[q].pid # run'[r].pid
    BY <2>1, <1>2
  <2>4. run'[r].pc \in Waiting \cup {"spawned"} =>
          run'[r].pid \in Pids /\ owner'[run'[r].pid] \in {None, obj'[run'[r].obj].name}
    BY <1>2
  <2>5. \A q, t \in Runs :
          (/\ run'[q].pc \in Waiting \cup {"spawned"}
           /\ run'[t].pc \in Waiting \cup {"spawned"}
           /\ run'[q].pid = run'[t].pid) => q = t
    BY <2>2, <2>3
  <2> QED
    BY <2>3, <2>4, <2>5 DEF ProcessesAreApart
<1> QED
  BY <1>2, <1>5, <1>6, <1>7, <1>8, <1>9, <1>10 DEF SupervisionInv

----------------------------------------------------------------------------
(* The handlers *)

\* Install takes a slot nothing refers to.
LEMMA InstallStep ==
  ASSUME IInv, NEW n \in Names, NEW s \in Specs, Install(n, s)
  PROVE  IInv'
<1> DEFINE x == [name |-> n, spec |-> s, state |-> "Configured", pid |-> 0,
                 health |-> "", ready |-> FALSE, desired |-> "Stopped", run |-> None]
<1>1. PICK o \in Objs : /\ FreeObj(o)
                        /\ obj' = [obj EXCEPT ![o] = x]
                        /\ programs' = [programs EXCEPT ![n] = o]
                        /\ disk' = [disk EXCEPT ![n] = MetaOf(x)]
  BY DEF Install
<1>2. x \in Obj /\ MetaOf(x) \in Meta
  BY DEF Obj, States, Health, Desired, MetaOf, Meta
<1>3. phase = "up" /\ UNCHANGED <<phase, run, lmon, rmon, rpc, owner, todo, bootWrite>>
  BY DEF Install
<1>4. x.name = n /\ x.state = "Configured" /\ x.pid = 0
  OBVIOUS
<1> HIDE DEF x
<1>5. /\ obj' \in [Objs -> Obj \cup {None}] /\ obj'[o] = x
      /\ \A b \in Objs \ {o} : obj'[b] = obj[b]
  BY <1>1, <1>2 DEF IInv, TypeOK
<1>6. \A r \in Runs : run[r].pc \in Active => run[r].obj # o
  BY <1>1 DEF FreeObj, Active, Waiting
<1>7. TypeOK'
  BY <1>1, <1>2, <1>3, <1>5 DEF IInv, TypeOK
<1>8. MapRefs'
  BY <1>1, <1>2, <1>4, <1>5 DEF IInv, TypeOK, References, MapRefs, FreeObj
<1>9. RunRefs' /\ RpcRefs' /\ DownRefs' /\ BootRefs'
  BY <1>1, <1>3, <1>5
     DEF IInv, References, RunRefs, RpcRefs, DownRefs, BootRefs, InUse, FreeObj
<1>10. RunServesItsProgram'
  BY <1>3, <1>5, <1>6 DEF IInv, SupervisionInv, RunServesItsProgram
<1>11. RunningIsSupervised' /\ PidIsTheProcess'
  BY <1>3, <1>4, <1>5 DEF IInv, SupervisionInv, RunningIsSupervised, PidIsTheProcess
<1>12. ProcessesAreApart'
  BY <1>3, <1>5, <1>6 DEF IInv, SupervisionInv, RunServesItsProgram, ProcessesAreApart, Active
<1> QED
  BY <1>7, <1>8, <1>9, <1>10, <1>11, <1>12 DEF IInv, References, SupervisionInv

\* A Start only marks the handlers it races with.
LEMMA RacedHandlers ==
  ASSUME IInv, NEW n \in Names, MarkRaced(n)
  PROVE  /\ rpc' \in [Procs -> Rpc] /\ RpcRefs'
         /\ \A c \in Procs : rpc'[c].pc = rpc[c].pc
<1>1. /\ rpc \in [Procs -> Rpc]
      /\ rpc' = [c \in Procs |-> IF rpc[c].name = n THEN [rpc[c] EXCEPT !.raced = TRUE] ELSE rpc[c]]
  BY DEF IInv, TypeOK, Procs, MarkRaced
<1>2. \A c \in Procs : /\ rpc'[c] \in Rpc
                        /\ rpc'[c].pc = rpc[c].pc /\ rpc'[c].name = rpc[c].name
                        /\ rpc'[c].run = rpc[c].run
  BY <1>1 DEF Rpc
<1>3. rpc' \in [Procs -> Rpc]
  BY <1>1, <1>2
<1> QED
  BY <1>2, <1>3 DEF IInv, References, RpcRefs

\* Start of a program that is not running.
LEMMA StartStep ==
  ASSUME IInv, NEW n \in Names, Start(n)
  PROVE  IInv'
<1>1. PICK r \in Runs, p \in Pids :
        /\ FreeRun(r) /\ FreePid(p)
        /\ obj' = [obj EXCEPT ![programs[n]] = Started(@, r, p)]
        /\ LaunchRun(programs[n], r, p)
        /\ owner' = [owner EXCEPT ![p] = n]
        /\ disk' = Persist(Started(obj[programs[n]], r, p))
  BY DEF Start
<1>2. /\ phase = "up" /\ programs[n] # None /\ obj[programs[n]].state # "Running"
      /\ MarkRaced(n) /\ UNCHANGED <<phase, programs, todo, bootWrite>>
  BY DEF Start, Startable
<1>3. /\ obj' \in [Objs -> Obj \cup {None}]
      /\ run' \in [Runs -> Run] /\ lmon' \in [Runs -> LMon] /\ rmon' \in [Runs -> RMon]
      /\ owner' \in [Pids -> Names \cup {None}]
      /\ MapRefs' /\ RunRefs' /\ SupervisionInv'
  BY <1>1, <1>2, LaunchStep
<1>4. rpc' \in [Procs -> Rpc] /\ RpcRefs'
  BY <1>2, RacedHandlers
<1>5. disk' \in [Names -> Meta \cup {None, Broken}]
  <2>1. obj[programs[n]] \in Obj
    BY <1>2 DEF IInv, References, MapRefs
  <2> QED
    BY <1>1, <2>1, StartedFields, PersistType DEF IInv
<1>6. TypeOK'
  BY <1>2, <1>3, <1>4, <1>5 DEF IInv, TypeOK, Procs
<1>7. DownRefs' /\ BootRefs'
  BY <1>2 DEF DownRefs, BootRefs
<1> QED
  BY <1>3, <1>4, <1>6, <1>7 DEF IInv, References

\* Start whose spawn fails, in a handler or at boot.
LEMMA StartFailsObj ==
  ASSUME IInv, NEW n \in Names, programs[n] # None, obj[programs[n]].state # "Running",
         obj' = [obj EXCEPT ![programs[n]].state = "Failed", ![programs[n]].desired = "Running"],
         UNCHANGED <<programs, run, owner>>
  PROVE  obj' \in [Objs -> Obj \cup {None}] /\ MapRefs' /\ SupervisionInv'
<1> DEFINE o == programs[n]
           y == [obj[o] EXCEPT !.state = "Failed", !.desired = "Running"]
<1>1. o \in Objs /\ obj[o] \in Obj
  BY DEF IInv, TypeOK, References, MapRefs
<1>2. /\ y \in Obj /\ y.name = obj[o].name /\ y.run = obj[o].run /\ y.pid = obj[o].pid
      /\ y.state = "Failed"
  BY <1>1 DEF Obj, States, Desired
<1>3. obj' = [obj EXCEPT ![o] = y]
  BY <1>1 DEF IInv, TypeOK
<1> HIDE DEF y
<1> QED
  BY <1>1, <1>2, <1>3, ObjUpdate

\* Goroutines keep their objects when objects stay objects.
LEMMA RunRefsKept ==
  ASSUME RunRefs, \A b \in Objs : obj[b] \in Obj => obj'[b] \in Obj,
         \A r \in Runs : InUse(r)' => InUse(r) /\ run'[r].obj = run[r].obj
  PROVE  RunRefs'
  BY DEF RunRefs

\* One object replaced by another leaves objects objects.
LEMMA ObjectsStay ==
  ASSUME IInv, NEW o \in Objs, NEW y \in Obj, obj' = [obj EXCEPT ![o] = y]
  PROVE  \A b \in Objs : obj[b] \in Obj => obj'[b] \in Obj
  BY DEF IInv, TypeOK

\* Start that fails.
LEMMA StartFailsStep ==
  ASSUME IInv, NEW n \in Names, StartFails(n)
  PROVE  IInv'
<1>1. /\ phase = "up" /\ programs[n] # None /\ obj[programs[n]].state # "Running"
      /\ obj' = [obj EXCEPT ![programs[n]].state = "Failed", ![programs[n]].desired = "Running"]
      /\ MarkRaced(n)
      /\ UNCHANGED <<phase, programs, run, lmon, rmon, disk, owner, todo, bootWrite>>
  BY DEF StartFails, Startable
<1>2. obj' \in [Objs -> Obj \cup {None}] /\ MapRefs' /\ SupervisionInv'
  BY <1>1, StartFailsObj
<1>3. rpc' \in [Procs -> Rpc] /\ RpcRefs'
  BY <1>1, RacedHandlers
<1>4. TypeOK'
  BY <1>1, <1>2, <1>3 DEF IInv, TypeOK, Procs
<1>5. RunRefs'
  <2>1. \A b \in Objs : obj[b] \in Obj => obj'[b] \in Obj
    BY <1>1 DEF IInv, TypeOK, Obj, States, Desired
  <2> QED
    BY <1>1, <2>1, RunRefsKept DEF IInv, References, InUse
<1>6. DownRefs' /\ BootRefs'
  BY <1>1 DEF DownRefs, BootRefs
<1> QED
  BY <1>2, <1>3, <1>4, <1>5, <1>6 DEF IInv, References

\* The first critical section of Stop and Remove.
LEMMA StopBeginStep ==
  ASSUME IInv, NEW c \in Clients, NEW n \in Names, NEW op \in Ops, StopBegin(c, n, op)
  PROVE  IInv'
<1> DEFINE o == programs[n]
           y == [obj[o] EXCEPT !.desired = "Stopped"]
           v == [NoRpc EXCEPT !.pc = "lookup", !.op = op, !.name = n, !.obj = o]
<1>1. /\ phase = "up" /\ o # None
      /\ obj' = [obj EXCEPT ![o] = y]
      /\ disk' = Persist(y)
      /\ rpc' = [rpc EXCEPT ![c] = v]
      /\ UNCHANGED <<phase, programs, run, lmon, rmon, owner, todo, bootWrite>>
  BY DEF StopBegin
<1>2. o \in Objs /\ obj[o] \in Obj
  BY <1>1 DEF IInv, TypeOK, References, MapRefs
<1>3. /\ y \in Obj /\ y.name = obj[o].name /\ y.run = obj[o].run /\ y.pid = obj[o].pid
      /\ y.state = obj[o].state
  BY <1>2 DEF Obj, Desired
<1>4. v \in Rpc /\ v.pc = "lookup" /\ v.name = n
  BY <1>2, SupervisorAssumptions DEF NoRpc, Rpc
<1> HIDE DEF y, v
<1>5. obj' \in [Objs -> Obj \cup {None}] /\ MapRefs' /\ SupervisionInv'
  BY <1>1, <1>2, <1>3, ObjUpdate
<1>6. rpc' \in [Procs -> Rpc] /\ RpcRefs'
  BY <1>1, <1>4, RpcUpdate DEF Procs
<1>7. disk' \in [Names -> Meta \cup {None, Broken}]
  BY <1>1, <1>3, PersistType DEF IInv
<1>8. TypeOK'
  BY <1>1, <1>5, <1>6, <1>7 DEF IInv, TypeOK, Procs
<1>9. RunRefs'
  BY <1>1, <1>2, <1>3, ObjectsStay, RunRefsKept DEF IInv, References, InUse
<1>10. DownRefs' /\ BootRefs'
  BY <1>1 DEF DownRefs, BootRefs
<1> QED
  BY <1>5, <1>6, <1>8, <1>9, <1>10 DEF IInv, References

\* terminate cancels the context: only the flag of the run changes.
LEMMA TerminateCancelStep ==
  ASSUME IInv, NEW c \in Procs, TerminateCancel(c)
  PROVE  IInv'
<1> DEFINE v == [rpc[c] EXCEPT !.pc = "wait"]
           t == rpc[c].run
<1>1. rpc[c] \in Rpc /\ rpc[c].name \in Names /\ t \in Runs /\ phase \notin {"down", "boot"}
  BY DEF IInv, TypeOK, Procs, References, RpcRefs, DownRefs, TerminateCancel
<1>2. v \in Rpc /\ v.pc = "wait" /\ v.name = rpc[c].name /\ v.run = t
  BY <1>1 DEF Rpc
<1>3. rpc' \in [Procs -> Rpc] /\ RpcRefs'
  <2>1. rpc' = [rpc EXCEPT ![c] = v]
    BY DEF TerminateCancel
  <2> HIDE DEF v
  <2> QED
    BY <1>1, <1>2, <2>1, RpcUpdate
<1>4. UNCHANGED <<phase, programs, obj, lmon, rmon, disk, owner, todo, bootWrite>>
  BY DEF TerminateCancel
<1>5. /\ run' \in [Runs -> Run]
      /\ \A r \in Runs : run'[r].obj = run[r].obj /\ run'[r].pc = run[r].pc
                         /\ run'[r].pid = run[r].pid
  <2> DEFINE g == [run[t] EXCEPT !.cancelled = TRUE]
  <2>1. run \in [Runs -> Run] /\ run[t] \in Run /\ run' = [run EXCEPT ![t] = g]
    BY <1>1 DEF TerminateCancel, IInv, TypeOK
  <2>2. g \in Run /\ g.obj = run[t].obj /\ g.pc = run[t].pc /\ g.pid = run[t].pid
    BY <2>1 DEF Run
  <2> HIDE DEF g
  <2> QED
    BY <1>1, <2>1, <2>2
<1>6. TypeOK'
  BY <1>3, <1>4, <1>5 DEF IInv, TypeOK, Procs
<1>7. MapRefs' /\ RunRefs' /\ DownRefs' /\ BootRefs'
  BY <1>1, <1>4, <1>5 DEF IInv, References, MapRefs, RunRefs, DownRefs, BootRefs, InUse
<1>8. RunServesItsProgram' /\ RunningIsSupervised'
  BY <1>4, <1>5 DEF IInv, SupervisionInv, RunServesItsProgram, RunningIsSupervised
<1>10. PidIsTheProcess'
  <2>1. \A b \in Objs : obj[b] # None /\ obj[b].state = "Running" => obj[b].run \in Runs
    BY DEF IInv, SupervisionInv, RunningIsSupervised
  <2> QED
    BY <1>4, <1>5, <2>1 DEF IInv, SupervisionInv, PidIsTheProcess
<1>9. ProcessesAreApart'
  BY <1>4, <1>5 DEF IInv, SupervisionInv, ProcessesAreApart
<1> QED
  BY <1>3, <1>6, <1>7, <1>8, <1>9, <1>10 DEF IInv, References, SupervisionInv

\* The handler returns, and Remove deletes the definition.
LEMMA TerminateReturnStep ==
  ASSUME IInv, NEW c \in Procs, TerminateReturn(c)
  PROVE  IInv'
<1> DEFINE n == rpc[c].name
<1>1. n \in Names /\ phase \notin {"down", "boot"}
  BY DEF IInv, References, RpcRefs, DownRefs, TerminateReturn
<1>2. /\ programs' \in [Names -> Objs \cup {None}]
      /\ \A m \in Names : programs'[m] \in {programs[m], None}
      /\ disk' \in [Names -> Meta \cup {None, Broken}]
      /\ todo' \in SUBSET Names
  BY <1>1 DEF TerminateReturn, IInv, TypeOK
<1>3. rpc' \in [Procs -> Rpc] /\ RpcRefs'
  BY NoRpcType, RpcUpdate DEF TerminateReturn
<1>4. UNCHANGED <<phase, obj, run, lmon, rmon, owner, bootWrite>>
  BY DEF TerminateReturn
<1>5. TypeOK'
  BY <1>2, <1>3, <1>4 DEF IInv, TypeOK, Procs
<1>6. MapRefs' /\ RunRefs' /\ DownRefs' /\ BootRefs'
  BY <1>1, <1>2, <1>4 DEF IInv, References, MapRefs, RunRefs, DownRefs, BootRefs, InUse
<1> QED
  BY <1>3, <1>4, <1>5, <1>6, SupervisionFrame DEF IInv, References

----------------------------------------------------------------------------
(* The supervise goroutine *)

\* What a step of a supervise goroutine has to establish, the rest being
\* unchanged.
LEMMA SuperviseFrame ==
  ASSUME IInv, UNCHANGED <<phase, programs, lmon, rmon, rpc, todo, bootWrite>>,
         NEW r \in Runs, run[r].pc \in Active,
         run' \in [Runs -> Run], obj' \in [Objs -> Obj \cup {None}],
         disk' \in [Names -> Meta \cup {None, Broken}],
         owner' \in [Pids -> Names \cup {None}],
         MapRefs', RunRefs', SupervisionInv'
  PROVE  IInv'
<1>1. TypeOK'
  BY DEF IInv, TypeOK
<1>2. phase # "down"
  BY DEF IInv, References, DownRefs, InUse, Active, Waiting
<1>3. RpcRefs' /\ DownRefs' /\ BootRefs'
  BY <1>2 DEF IInv, References, RpcRefs, DownRefs, BootRefs
<1> QED
  BY <1>1, <1>3 DEF IInv, References

\* The exit of the process, whatever the switch decides.
LEMMA SuperviseExitedStep ==
  ASSUME IInv, NEW r \in Runs, SuperviseExited(r)
  PROVE  IInv'
<1> DEFINE o == run[r].obj
<1>1. /\ run[r].pc \in Active /\ o \in Objs /\ obj[o] \in Obj /\ obj[o].state = "Running"
      /\ run[r].cancelled \in BOOLEAN
  BY DEF SuperviseExited, Active, IInv, TypeOK, Run, SupervisionInv, RunServesItsProgram
<1>2. PICK failed \in BOOLEAN :
        /\ obj' = [obj EXCEPT ![o] = AfterExit(obj[o], run[r].cancelled, failed)]
        /\ disk' = Persist(AfterExit(obj[o], run[r].cancelled, failed))
        /\ run' = [run EXCEPT ![r].pid = 0, ![r].pc =
             IF Restarts(obj[o], run[r].cancelled, failed) THEN "backoff" ELSE "done"]
  BY DEF SuperviseExited
<1> DEFINE y == AfterExit(obj[o], run[r].cancelled, failed)
<1>3. /\ y \in Obj /\ y.pid = 0 /\ y.run = obj[o].run /\ y.name = obj[o].name
      /\ (y.state = "Running") <=> Restarts(obj[o], run[r].cancelled, failed)
  BY <1>1, AfterExitFields
<1>4. /\ run' \in [Runs -> Run] /\ \A q \in Runs \ {r} : run'[q] = run[q]
      /\ run'[r].obj = o
      /\ run'[r].pc = IF Restarts(obj[o], run[r].cancelled, failed) THEN "backoff" ELSE "done"
  <2> DEFINE pc == IF Restarts(obj[o], run[r].cancelled, failed) THEN "backoff" ELSE "done"
             g == [run[r] EXCEPT !.pid = 0, !.pc = pc]
  <2>1. run \in [Runs -> Run] /\ run[r] \in Run /\ run' = [run EXCEPT ![r] = g]
    BY <1>2 DEF IInv, TypeOK
  <2>2. pc \in {"backoff", "done"}
    OBVIOUS
  <2> HIDE DEF pc
  <2>3. g \in Run /\ g.obj = o /\ g.pc = pc
    BY <2>1, <2>2 DEF Run, Active
  <2> HIDE DEF g
  <2> QED
    BY <2>1, <2>3 DEF pc
<1>5. UNCHANGED <<phase, programs, lmon, rmon, rpc, owner, todo, bootWrite>>
  BY DEF SuperviseExited
<1>6. disk' \in [Names -> Meta \cup {None, Broken}]
  BY <1>2, <1>3, PersistType DEF IInv
<1> HIDE DEF y
<1>7. /\ (y.state = "Running") <=> (run'[r].pc \in Active)
      /\ run'[r].pc \notin Waiting \cup {"spawned"}
  BY <1>3, <1>4 DEF Active, Waiting
<1>8. obj' = [obj EXCEPT ![run[r].obj] = y]
  BY <1>2 DEF y
<1>9. obj' \in [Objs -> Obj \cup {None}] /\ MapRefs' /\ RunRefs' /\ SupervisionInv'
  BY <1>1, <1>3, <1>4, <1>5, <1>7, <1>8, RunUpdate
<1> QED
  BY <1>1, <1>4, <1>5, <1>6, <1>9, SuperviseFrame DEF IInv, TypeOK

\* waitProcess notices the cancellation.
LEMMA SuperviseTermStep ==
  ASSUME IInv, NEW r \in Runs, SuperviseTerm(r)
  PROVE  IInv'
<1> DEFINE o == run[r].obj
           g == [run[r] EXCEPT !.pc = "term"]
<1>1. /\ run[r].pc = "wait" /\ run' = [run EXCEPT ![r] = g]
      /\ UNCHANGED <<phase, programs, obj, lmon, rmon, rpc, disk, owner, todo, bootWrite>>
  BY DEF SuperviseTerm
<1>2. run[r] \in Run /\ g \in Run /\ g.obj = o /\ g.pc = "term" /\ g.pid = run[r].pid
  BY DEF IInv, TypeOK, Run, Active, Waiting
<1> HIDE DEF g
<1>3. run' \in [Runs -> Run] /\ run'[r] = g /\ \A q \in Runs \ {r} : run'[q] = run[q]
  BY <1>1, <1>2 DEF IInv, TypeOK
<1>4. /\ run[r].pc \in Active /\ o \in Objs /\ obj[o] \in Obj /\ obj[o].state = "Running"
      /\ obj[o].run = r
  BY <1>1 DEF Active, Waiting, IInv, SupervisionInv, RunServesItsProgram
<1>5. obj[o].pid = run[r].pid
  BY <1>1, <1>4, NilIsNoObject DEF IInv, SupervisionInv, PidIsTheProcess, Waiting
<1>6. /\ run[r].pid \in Pids /\ owner[run[r].pid] \in {None, obj[o].name}
      /\ \A q \in Runs \ {r} : run[q].pc \in Waiting \cup {"spawned"} => run[q].pid # run[r].pid
  BY <1>1 DEF IInv, SupervisionInv, ProcessesAreApart, Waiting
<1>7. obj' = [obj EXCEPT ![run[r].obj] = obj[o]]
  BY <1>1, <1>4 DEF IInv, TypeOK
<1>8. g.pc \in Active /\ g.pc \in Waiting
  BY <1>2 DEF Active, Waiting
<1>9. /\ run'[r].pid \in Pids /\ owner'[run'[r].pid] \in {None, obj[o].name}
      /\ \A q \in Runs \ {r} : run[q].pc \in Waiting \cup {"spawned"} => run[q].pid # run'[r].pid
      /\ obj[o].pid = IF run'[r].pc \in Waiting THEN run'[r].pid ELSE 0
      /\ run'[r].obj = run[r].obj
      /\ (obj[o].state = "Running") <=> (run'[r].pc \in Active)
  BY <1>1, <1>2, <1>3, <1>4, <1>5, <1>6, <1>8
<1>10. \A q \in Runs \ {r} : run[q].pc \in Waiting \cup {"spawned"} =>
         owner'[run[q].pid] \in {None, owner[run[q].pid]}
  BY <1>1
<1>11. obj' \in [Objs -> Obj \cup {None}] /\ MapRefs' /\ RunRefs' /\ SupervisionInv'
  BY <1>1, <1>3, <1>4, <1>7, <1>9, <1>10, RunUpdate
<1> QED
  BY <1>1, <1>3, <1>4, <1>11, SuperviseFrame DEF IInv, TypeOK

\* A process group ends, by itself or by SIGKILL.
LEMMA ExitStep ==
  ASSUME IInv, NEW p \in Pids, owner' = [owner EXCEPT ![p] = None],
         UNCHANGED <<phase, programs, obj, run, lmon, rmon, rpc, disk, todo, bootWrite>>
  PROVE  IInv'
<1>1. TypeOK'
  BY DEF IInv, TypeOK
<1>2. References'
  BY DEF IInv, References, MapRefs, RunRefs, RpcRefs, DownRefs, BootRefs, InUse
<1>3. RunServesItsProgram' /\ RunningIsSupervised' /\ PidIsTheProcess'
  BY DEF IInv, SupervisionInv, RunServesItsProgram, RunningIsSupervised, PidIsTheProcess
<1>4. ProcessesAreApart'
  BY DEF IInv, TypeOK, SupervisionInv, ProcessesAreApart
<1> QED
  BY <1>1, <1>2, <1>3, <1>4 DEF IInv, SupervisionInv

\* SIGKILL after stopTimeout.
LEMMA SuperviseKillStep ==
  ASSUME IInv, NEW r \in Runs, SuperviseKill(r)
  PROVE  IInv'
<1>1. run[r].pid \in Pids
  BY DEF SuperviseKill, IInv, SupervisionInv, ProcessesAreApart, Waiting
<1> QED
  BY <1>1, ExitStep DEF SuperviseKill

\* Supervision ends in the backoff, by cancellation or a failed spawn.
LEMMA SuperviseEndsStep ==
  ASSUME IInv, NEW r \in Runs, SuperviseCancelled(r) \/ SuperviseSpawnFails(r)
  PROVE  IInv'
<1> DEFINE o == run[r].obj
           g == [run[r] EXCEPT !.pc = "done"]
<1>1. PICK st \in {"Stopped", "Failed"} :
        /\ run[r].pc = "backoff" /\ run' = [run EXCEPT ![r] = g]
        /\ obj' = [obj EXCEPT ![o].state = st]
        /\ UNCHANGED <<phase, programs, lmon, rmon, rpc, disk, owner, todo, bootWrite>>
  BY DEF SuperviseCancelled, SuperviseSpawnFails
<1> DEFINE y == [obj[o] EXCEPT !.state = st]
<1>2. run[r] \in Run /\ g \in Run /\ g.obj = o /\ g.pc = "done"
  BY DEF IInv, TypeOK, Run
<1> HIDE DEF g
<1>3. run' \in [Runs -> Run] /\ run'[r] = g /\ \A q \in Runs \ {r} : run'[q] = run[q]
  BY <1>1, <1>2 DEF IInv, TypeOK
<1>4. /\ run[r].pc \in Active /\ o \in Objs /\ obj[o] \in Obj /\ obj[o].state = "Running"
      /\ obj[o].run = r
  BY <1>1 DEF Active, IInv, SupervisionInv, RunServesItsProgram
<1>5. obj[o].pid = 0
  BY <1>1, <1>4, NilIsNoObject DEF IInv, SupervisionInv, PidIsTheProcess, Waiting
<1>6. /\ y \in Obj /\ y.name = obj[o].name /\ y.run = obj[o].run /\ y.pid = 0
      /\ y.state # "Running" /\ obj' = [obj EXCEPT ![run[r].obj] = y]
  BY <1>1, <1>4, <1>5 DEF Obj, States
<1> HIDE DEF y
<1>7. g.pc \notin Active /\ g.pc \notin Waiting \cup {"spawned"}
  BY <1>2 DEF Active, Waiting
<1>8. obj' \in [Objs -> Obj \cup {None}] /\ MapRefs' /\ RunRefs' /\ SupervisionInv'
  BY <1>1, <1>2, <1>3, <1>4, <1>6, <1>7, RunUpdate
<1> QED
  BY <1>1, <1>3, <1>4, <1>8, SuperviseFrame DEF IInv, TypeOK

\* The backoff is over and a new process runs, unpublished.
LEMMA SuperviseSpawnStep ==
  ASSUME IInv, NEW r \in Runs, SuperviseSpawn(r)
  PROVE  IInv'
<1> DEFINE o == run[r].obj
<1>1. PICK p \in Pids : /\ FreePid(p)
                        /\ owner' = [owner EXCEPT ![p] = obj[o].name]
                        /\ run' = [run EXCEPT ![r].pc = "spawned", ![r].pid = p]
  BY DEF SuperviseSpawn
<1> DEFINE g == [run[r] EXCEPT !.pc = "spawned", !.pid = p]
<1>2. run[r] \in Run /\ run' = [run EXCEPT ![r] = g]
  BY <1>1 DEF IInv, TypeOK
<1>3. g \in Run /\ g.obj = o /\ g.pc = "spawned" /\ g.pid = p
  BY <1>2 DEF Run, Active
<1> HIDE DEF g
<1>4. run' \in [Runs -> Run] /\ run'[r] = g /\ \A q \in Runs \ {r} : run'[q] = run[q]
  BY <1>2, <1>3 DEF IInv, TypeOK
<1>5. /\ run[r].pc = "backoff"
      /\ UNCHANGED <<phase, programs, obj, lmon, rmon, rpc, disk, todo, bootWrite>>
  BY DEF SuperviseSpawn
<1>6. /\ run[r].pc \in Active /\ o \in Objs /\ obj[o] \in Obj /\ obj[o].state = "Running"
      /\ obj[o].run = r
  BY <1>5 DEF Active, IInv, SupervisionInv, RunServesItsProgram
<1>7. obj[o].pid = 0 /\ obj[o].name \in Names
  BY <1>5, <1>6, NilIsNoObject DEF IInv, SupervisionInv, PidIsTheProcess, Waiting, Obj
<1>8. /\ owner' \in [Pids -> Names \cup {None}] /\ owner'[p] = obj[o].name
      /\ \A q \in Pids \ {p} : owner'[q] = owner[q]
  BY <1>1, <1>7 DEF IInv, TypeOK
<1>9. \A q \in Runs : run[q].pc \in Waiting \cup {"spawned"} =>
        run[q].pid # p /\ run[q].pid \in Pids
  BY <1>1 DEF FreePid, IInv, SupervisionInv, ProcessesAreApart
<1>10. obj' = [obj EXCEPT ![run[r].obj] = obj[o]]
  BY <1>5, <1>6 DEF IInv, TypeOK
<1>11. g.pc \in Active /\ g.pc \notin Waiting
  BY <1>3 DEF Active, Waiting
<1>12. /\ run'[r].pid \in Pids /\ owner'[run'[r].pid] \in {None, obj[o].name}
       /\ \A q \in Runs \ {r} : run[q].pc \in Waiting \cup {"spawned"} => run[q].pid # run'[r].pid
       /\ obj[o].pid = IF run'[r].pc \in Waiting THEN run'[r].pid ELSE 0
       /\ run'[r].obj = run[r].obj
       /\ (obj[o].state = "Running") <=> (run'[r].pc \in Active)
  BY <1>3, <1>4, <1>6, <1>7, <1>8, <1>9, <1>11
<1>13. \A q \in Runs \ {r} : run[q].pc \in Waiting \cup {"spawned"} =>
         owner'[run[q].pid] \in {None, owner[run[q].pid]}
  BY <1>8, <1>9
<1>14. obj' \in [Objs -> Obj \cup {None}] /\ MapRefs' /\ RunRefs' /\ SupervisionInv'
  BY <1>4, <1>5, <1>6, <1>10, <1>12, <1>13, RunUpdate
<1> QED
  BY <1>4, <1>5, <1>6, <1>8, <1>14, SuperviseFrame DEF IInv, TypeOK

\* The respawn is published.
LEMMA SuperviseRespawnedStep ==
  ASSUME IInv, NEW r \in Runs, SuperviseRespawned(r)
  PROVE  IInv'
<1> DEFINE o == run[r].obj
           y == Respawned(obj[o], run[r].pid)
           g == [run[r] EXCEPT !.pc = "wait"]
<1>1. /\ run[r].pc = "spawned"
      /\ obj' = [obj EXCEPT ![run[r].obj] = y] /\ disk' = Persist(y)
      /\ run' = [run EXCEPT ![r] = g]
      /\ UNCHANGED <<phase, programs, lmon, rmon, rpc, owner, todo, bootWrite>>
  BY DEF SuperviseRespawned
<1>2. /\ run[r].pc \in Active /\ o \in Objs /\ obj[o] \in Obj /\ obj[o].run = r
  BY <1>1 DEF Active, IInv, SupervisionInv, RunServesItsProgram
<1>3. /\ run[r].pid \in Pids /\ owner[run[r].pid] \in {None, obj[o].name}
      /\ \A q \in Runs \ {r} : run[q].pc \in Waiting \cup {"spawned"} => run[q].pid # run[r].pid
  BY <1>1 DEF IInv, SupervisionInv, ProcessesAreApart
<1>4. /\ y \in Obj /\ y.name = obj[o].name /\ y.run = obj[o].run /\ y.pid = run[r].pid
      /\ y.state = "Running"
  BY <1>2, <1>3, SupervisorAssumptions DEF Respawned, Obj, States, SpecType
<1>5. run[r] \in Run /\ g \in Run /\ g.obj = o /\ g.pc = "wait" /\ g.pid = run[r].pid
  BY DEF IInv, TypeOK, Run, Active, Waiting
<1> HIDE DEF y, g
<1>6. run' \in [Runs -> Run] /\ run'[r] = g /\ \A q \in Runs \ {r} : run'[q] = run[q]
  BY <1>1, <1>5 DEF IInv, TypeOK
<1>7. disk' \in [Names -> Meta \cup {None, Broken}]
  BY <1>1, <1>4, PersistType DEF IInv
<1>8. /\ run'[r].pid \in Pids /\ owner'[run'[r].pid] \in {None, y.name}
      /\ \A q \in Runs \ {r} : run[q].pc \in Waiting \cup {"spawned"} => run[q].pid # run'[r].pid
      /\ y.pid = IF run'[r].pc \in Waiting THEN run'[r].pid ELSE 0
      /\ run'[r].obj = run[r].obj
      /\ (y.state = "Running") <=> (run'[r].pc \in Active)
  BY <1>1, <1>3, <1>4, <1>5, <1>6 DEF Active, Waiting
<1>9. \A q \in Runs \ {r} : run[q].pc \in Waiting \cup {"spawned"} =>
        owner'[run[q].pid] \in {None, owner[run[q].pid]}
  BY <1>1
<1>10. obj' \in [Objs -> Obj \cup {None}] /\ MapRefs' /\ RunRefs' /\ SupervisionInv'
  BY <1>1, <1>2, <1>4, <1>6, <1>8, <1>9, RunUpdate
<1> QED
  BY <1>1, <1>2, <1>6, <1>7, <1>10, SuperviseFrame DEF IInv, TypeOK

----------------------------------------------------------------------------
(* The monitors *)

\* A monitor moves on without touching its object.
LEMMA MonitorFrame ==
  ASSUME IInv, UNCHANGED <<phase, programs, obj, run, rpc, disk, owner, todo, bootWrite>>,
         lmon' \in [Runs -> LMon], rmon' \in [Runs -> RMon],
         \A r \in Runs : InUse(r)' => InUse(r)
  PROVE  IInv'
<1>1. TypeOK'
  BY DEF IInv, TypeOK
<1>2. MapRefs' /\ RunRefs' /\ RpcRefs' /\ BootRefs'
  BY DEF IInv, References, MapRefs, RunRefs, RpcRefs, BootRefs
<1>3. DownRefs'
  BY DEF IInv, References, DownRefs
<1> QED
  BY <1>1, <1>2, <1>3, SupervisionFrame DEF IInv, References

\* A liveness tick or probe.
LEMMA LivenessStep ==
  ASSUME IInv, NEW r \in Runs, LivenessTick(r) \/ LivenessProbe(r)
  PROVE  IInv'
<1>1. /\ UNCHANGED <<phase, programs, obj, run, rmon, rpc, disk, owner, todo, bootWrite>>
      /\ lmon[r].pc # "off"
  BY DEF LivenessTick, LivenessProbe
<1>2. lmon \in [Runs -> LMon] /\ lmon[r] \in LMon
  BY DEF IInv, TypeOK
<1>3. PICK g \in LMon : lmon' = [lmon EXCEPT ![r] = g]
  <2>1. CASE LivenessTick(r)
    <3> DEFINE x == obj[run[r].obj]
               g == IF Probeable(x)
                      THEN [pc |-> "probe", monitored |-> x.pid,
                            failures |-> IF x.pid = lmon[r].monitored THEN lmon[r].failures ELSE 0]
                      ELSE [NoLMon EXCEPT !.pc = "idle"]
    <3>1. x.pid \in Pids \cup {0}
      BY <1>1 DEF IInv, References, RunRefs, InUse, Obj
    <3>2. g \in LMon
      BY <3>1, <1>2, SupervisorAssumptions DEF LMon, NoLMon
    <3>3. lmon' = [lmon EXCEPT ![r] = g]
      BY <2>1 DEF LivenessTick
    <3> QED
      BY <3>2, <3>3
  <2>2. CASE LivenessProbe(r)
    <3>1. CASE lmon' = [lmon EXCEPT ![r].pc = "pass", ![r].failures = 0]
      <4> DEFINE g == [lmon[r] EXCEPT !.pc = "pass", !.failures = 0]
      <4>1. 0 \in 0 .. FailureThreshold - 1
        BY SupervisorAssumptions
      <4>2. g \in LMon
        BY <4>1, <1>2 DEF LMon
      <4>3. lmon' = [lmon EXCEPT ![r] = g]
        BY <3>1, <1>2
      <4> QED
        BY <4>2, <4>3
    <3>2. CASE /\ Tolerated(lmon[r].failures)
               /\ lmon' = [lmon EXCEPT ![r].pc = "idle", ![r].failures = @ + 1]
      <4> DEFINE g == [lmon[r] EXCEPT !.pc = "idle", !.failures = lmon[r].failures + 1]
      <4>1. lmon[r].failures + 1 \in 0 .. FailureThreshold - 1
        BY <3>2, <1>2, SupervisorAssumptions DEF LMon, Tolerated
      <4>2. g \in LMon
        BY <4>1, <1>2 DEF LMon
      <4>3. lmon' = [lmon EXCEPT ![r] = g]
        BY <3>2, <1>2
      <4> QED
        BY <4>2, <4>3
    <3>3. CASE lmon' = [lmon EXCEPT ![r].pc = "fail"]
      <4> DEFINE g == [lmon[r] EXCEPT !.pc = "fail"]
      <4>1. g \in LMon /\ lmon' = [lmon EXCEPT ![r] = g]
        BY <3>3, <1>2 DEF LMon
      <4> QED
        BY <4>1
    <3> QED
      BY <2>2, <3>1, <3>2, <3>3 DEF LivenessProbe
  <2> QED
    BY <2>1, <2>2
<1>4. lmon' \in [Runs -> LMon] /\ \A q \in Runs \ {r} : lmon'[q] = lmon[q]
  BY <1>2, <1>3
<1>5. \A q \in Runs : InUse(q)' => InUse(q)
  BY <1>1, <1>4 DEF InUse
<1> QED
  BY <1>1, <1>4, <1>5, MonitorFrame DEF IInv, TypeOK

\* A readiness tick or probe.
LEMMA ReadinessStep ==
  ASSUME IInv, NEW r \in Runs, ReadinessTick(r) \/ ReadinessProbe(r)
  PROVE  IInv'
<1>1. /\ UNCHANGED <<phase, programs, obj, run, lmon, rpc, disk, owner, todo, bootWrite>>
      /\ rmon[r] # "off"
      /\ \E v \in RMon : rmon' = [rmon EXCEPT ![r] = v]
  BY DEF ReadinessTick, ReadinessProbe, RMon
<1>2. rmon' \in [Runs -> RMon] /\ \A q \in Runs \ {r} : rmon'[q] = rmon[q]
  BY <1>1 DEF IInv, TypeOK
<1>3. \A q \in Runs : InUse(q)' => InUse(q)
  BY <1>1, <1>2 DEF InUse
<1> QED
  BY <1>1, <1>2, <1>3, MonitorFrame DEF IInv, TypeOK

\* A monitor sees its context cancelled.
LEMMA MonitorEndsStep ==
  ASSUME IInv, NEW r \in Runs, MonitorEnds(r)
  PROVE  IInv'
<1>1. /\ lmon' \in [Runs -> LMon] /\ rmon' \in [Runs -> RMon]
      /\ \A q \in Runs : lmon'[q] \in {lmon[q], NoLMon} /\ rmon'[q] \in {rmon[q], "off"}
  BY SupervisorAssumptions DEF MonitorEnds, IInv, TypeOK, LMon, RMon, NoLMon
<1>2. UNCHANGED <<phase, programs, obj, run, rpc, disk, owner, todo, bootWrite>>
  BY DEF MonitorEnds
<1>3. \A q \in Runs : InUse(q)' => InUse(q)
  BY <1>1, <1>2 DEF InUse, NoLMon
<1> QED
  BY <1>1, <1>2, <1>3, MonitorFrame

\* A monitor records its verdict in its object.
LEMMA VerdictStep ==
  ASSUME IInv, NEW r \in Runs,
         LivenessPasses(r) \/ LivenessFails(r) \/ ReadinessVerdict(r)
  PROVE  IInv'
<1> DEFINE o == run[r].obj
<1>1. /\ UNCHANGED <<phase, programs, run, rpc, disk, owner, todo, bootWrite>>
      /\ InUse(r)
  BY DEF LivenessPasses, LivenessFails, ReadinessVerdict, InUse
<1>2. o \in Objs /\ obj[o] \in Obj
  BY <1>1 DEF IInv, References, RunRefs
<1>3. PICK y \in Obj : /\ obj' = [obj EXCEPT ![o] = y]
                       /\ y.name = obj[o].name /\ y.run = obj[o].run /\ y.pid = obj[o].pid
                       /\ y.state = obj[o].state
  <2>1. CASE LivenessPasses(r)
    <3>1. "Healthy" \in Health
      BY DEF Health
    <3> QED
      BY <2>1, <3>1, <1>2, VerdictFields DEF LivenessPasses
  <2>2. CASE LivenessFails(r)
    <3>1. "Unhealthy" \in Health
      BY DEF Health
    <3> QED
      BY <2>2, <3>1, <1>2, VerdictFields DEF LivenessFails
  <2>3. CASE ReadinessVerdict(r)
    <3>1. (rmon[r] = "pass") \in BOOLEAN /\ "" \in Health
      BY DEF Health
    <3> QED
      BY <2>3, <3>1, <1>2, VerdictFields DEF ReadinessVerdict
  <2> QED
    BY <2>1, <2>2, <2>3
<1>4. obj' \in [Objs -> Obj \cup {None}] /\ MapRefs' /\ SupervisionInv'
  BY <1>1, <1>2, <1>3, ObjUpdate
<1>5. /\ lmon' \in [Runs -> LMon] /\ rmon' \in [Runs -> RMon]
      /\ \A q \in Runs : InUse(q)' => InUse(q)
  <2>1. lmon \in [Runs -> LMon] /\ lmon[r] \in LMon /\ rmon \in [Runs -> RMon]
    BY DEF IInv, TypeOK
  <2>2. [lmon[r] EXCEPT !.pc = "idle"] \in LMon /\ [NoLMon EXCEPT !.pc = "idle"] \in LMon
    BY <2>1, SupervisorAssumptions DEF LMon, NoLMon
  <2>3. /\ \E g \in LMon : lmon' = [lmon EXCEPT ![r] = g] \/ lmon' = lmon
        /\ \E v \in RMon : rmon' = [rmon EXCEPT ![r] = v] \/ rmon' = rmon
    BY <2>1, <2>2 DEF LivenessPasses, LivenessFails, ReadinessVerdict, RMon
  <2>4. lmon' \in [Runs -> LMon] /\ rmon' \in [Runs -> RMon]
    BY <2>1, <2>3
  <2>5. \A q \in Runs \ {r} : lmon'[q] = lmon[q] /\ rmon'[q] = rmon[q]
    BY <2>1, <2>3
  <2> QED
    BY <2>4, <2>5, <1>1 DEF InUse
<1>6. TypeOK'
  BY <1>1, <1>4, <1>5 DEF IInv, TypeOK
<1>7. RunRefs'
  BY <1>1, <1>2, <1>3, <1>5, ObjectsStay, RunRefsKept DEF IInv, References
<1>8. RpcRefs' /\ DownRefs' /\ BootRefs'
  BY <1>1, <1>5 DEF IInv, References, RpcRefs, DownRefs, BootRefs
<1> QED
  BY <1>4, <1>6, <1>7, <1>8 DEF IInv, References

----------------------------------------------------------------------------
(* Shutdown, crash and boot *)

\* With no goroutine left and fresh objects, the invariant holds.
LEMMA QuietState ==
  ASSUME obj \in [Objs -> Obj \cup {None}], \A r \in Runs : ~InUse(r),
         \A o \in Objs : obj[o] # None => obj[o].state # "Running" /\ obj[o].pid = 0
  PROVE  SupervisionInv /\ RunRefs
  BY DEF SupervisionInv, RunServesItsProgram, RunningIsSupervised, PidIsTheProcess,
         ProcessesAreApart, RunRefs, InUse, Active, Waiting

\* The values memory is reset to are well formed.
LEMMA ResetTypes ==
  NoRun \in Run /\ NoLMon \in LMon /\ NoRpc \in Rpc /\ "off" \in RMon
  BY SupervisorAssumptions DEF NoRun, Run, NoLMon, LMon, NoRpc, Rpc, RMon

\* The end of the agent process, in any way.
LEMMA VanishStep ==
  ASSUME IInv, Vanish, disk' \in [Names -> Meta \cup {None, Broken}],
         owner' \in [Pids -> Names \cup {None}]
  PROVE  IInv'
<1>1. TypeOK'
  BY ResetTypes DEF Vanish, TypeOK, Phases
<1>2. /\ obj' \in [Objs -> Obj \cup {None}]
      /\ \A r \in Runs : run'[r].pc = "done" /\ lmon'[r].pc = "off" /\ rmon'[r] = "off"
      /\ \A o \in Objs : obj'[o] = None
  BY DEF Vanish, NoRun, NoLMon
<1>3. SupervisionInv' /\ RunRefs'
  BY <1>2 DEF SupervisionInv, RunServesItsProgram, RunningIsSupervised, PidIsTheProcess,
              ProcessesAreApart, RunRefs, InUse, Active, Waiting
<1>4. MapRefs' /\ RpcRefs' /\ DownRefs' /\ BootRefs'
  BY <1>2 DEF Vanish, MapRefs, RpcRefs, DownRefs, BootRefs, InUse, NoRpc, Procs
<1> QED
  BY <1>1, <1>3, <1>4 DEF IInv, References

\* Shutdown ends, or the agent crashes wherever it is.
LEMMA CrashStep ==
  ASSUME IInv,
         \/ Crash \/ ShutdownExit
         \/ \E n \in Names : CrashAfterSpawn(n) \/ CrashInPersist(n)
  PROVE  IInv'
<1>1. /\ Vanish
      /\ disk' \in [Names -> Meta \cup {None, Broken}]
      /\ owner' \in [Pids -> Names \cup {None}]
  BY DEF Crash, ShutdownExit, CrashAfterSpawn, CrashInPersist, IInv, TypeOK
<1> QED
  BY <1>1, VanishStep

\* Steps that only move the phase on.
LEMMA PhaseStep ==
  ASSUME IInv, Drain \/ ShutdownBegin \/ BootDone
  PROVE  IInv'
<1>1. /\ UNCHANGED <<programs, obj, run, lmon, rmon, rpc, disk, owner, bootWrite>>
      /\ phase' \in {"drain", "shutdown", "up"} /\ todo' \in SUBSET Names
  BY DEF Drain, ShutdownBegin, BootDone, IInv, TypeOK
<1>2. TypeOK'
  BY <1>1 DEF IInv, TypeOK, Phases
<1>3. References'
  BY <1>1 DEF IInv, References, MapRefs, RunRefs, RpcRefs, DownRefs, BootRefs, InUse
<1> QED
  BY <1>1, <1>2, <1>3, SupervisionFrame DEF IInv

\* Shutdown turns to the next running program.
LEMMA ShutdownTerminateStep ==
  ASSUME IInv, NEW n \in Names, ShutdownTerminate(n)
  PROVE  IInv'
<1> DEFINE v == [NoRpc EXCEPT !.pc = "lookup", !.op = "shutdown", !.name = n,
                              !.obj = programs[n]]
<1>1. programs[n] \in Objs \cup {None}
  BY DEF IInv, TypeOK
<1>2. v \in Rpc /\ v.pc = "lookup" /\ v.name = n
  BY <1>1 DEF NoRpc, Rpc
<1>3. rpc' = [rpc EXCEPT ![Main] = v]
  BY DEF ShutdownTerminate
<1> HIDE DEF v
<1>4. rpc' \in [Procs -> Rpc] /\ RpcRefs'
  BY <1>2, <1>3, RpcUpdate DEF Procs
<1> QED
  BY <1>4, RpcFrame DEF ShutdownTerminate

\* NewManager loads the definitions into fresh objects.
LEMMA BootLoadStep ==
  ASSUME IInv, BootLoad
  PROVE  IInv'
<1> DEFINE readable == {n \in Names : disk[n] \notin {None, Broken}}
           Fresh(n) == [name |-> n, spec |-> disk[n].spec, state |-> "Configured",
                        pid |-> 0, health |-> "", ready |-> FALSE,
                        desired |-> disk[n].desired, run |-> None]
<1>1. PICK f \in [readable -> Objs] :
        /\ \A m, n \in readable : f[m] = f[n] => m = n
        /\ programs' = [n \in Names |-> IF n \in readable THEN f[n] ELSE None]
        /\ obj' = [o \in Objs |-> IF \E n \in readable : f[n] = o
                                   THEN Fresh(CHOOSE m \in readable : f[m] = o)
                                   ELSE None]
  BY DEF BootLoad
<1>2. /\ phase = "down" /\ phase' = "boot"
      /\ owner' = [p \in Pids |-> IF \E n \in readable : disk[n].pid = p THEN None ELSE owner[p]]
      /\ todo' = {n \in readable : disk[n].desired = "Running" \/ disk[n].spec.auto}
      /\ UNCHANGED <<run, lmon, rmon, rpc, disk, bootWrite>>
  BY DEF BootLoad
<1>3. \A n \in readable : disk[n] \in Meta
  BY DEF IInv, TypeOK
<1>4. \A n \in readable : /\ Fresh(n) \in Obj /\ Fresh(n).name = n
                           /\ Fresh(n).state = "Configured" /\ Fresh(n).pid = 0
  BY <1>3 DEF Meta, Obj, States, Health
<1> HIDE DEF Fresh
<1>5. \A n \in readable : (CHOOSE m \in readable : f[m] = f[n]) = n
  BY <1>1
<1>6. \A n \in readable : obj'[f[n]] = Fresh(n)
  BY <1>1, <1>5
<1>7. \A o \in Objs : obj'[o] = None \/ \E n \in readable : obj'[o] = Fresh(n)
  BY <1>1, <1>6
<1>8. obj' \in [Objs -> Obj \cup {None}]
  <2>1. obj' = [o \in Objs |-> obj'[o]]
    BY <1>1
  <2> QED
    BY <2>1, <1>4, <1>7
<1>9. owner' \in [Pids -> Names \cup {None}] /\ todo' \in SUBSET Names
  BY <1>2 DEF IInv, TypeOK
<1>10. programs' \in [Names -> Objs \cup {None}]
  BY <1>1
<1>11. TypeOK'
  BY <1>2, <1>8, <1>9, <1>10 DEF IInv, TypeOK, Phases
<1>12. MapRefs' /\ BootRefs'
  BY <1>1, <1>2, <1>4, <1>6, SupervisorAssumptions DEF MapRefs, BootRefs
<1>13. RpcRefs' /\ DownRefs'
  BY <1>2 DEF IInv, References, RpcRefs, DownRefs
<1>14. \A r \in Runs : run'[r].pc = "done" /\ lmon'[r].pc = "off" /\ rmon'[r] = "off"
  BY <1>2 DEF IInv, References, DownRefs, InUse
<1>15. \A o \in Objs : obj'[o] # None => obj'[o].state # "Running" /\ obj'[o].pid = 0
  BY <1>4, <1>7
<1>16. SupervisionInv' /\ RunRefs'
  BY <1>14, <1>15 DEF SupervisionInv, RunServesItsProgram, RunningIsSupervised, PidIsTheProcess,
                      ProcessesAreApart, RunRefs, InUse, Active, Waiting
<1> QED
  BY <1>11, <1>12, <1>13, <1>16 DEF IInv, References

\* NewManager starts a program.
LEMMA BootStartStep ==
  ASSUME IInv, NEW n \in Names, BootStart(n)
  PROVE  IInv'
<1>1. PICK r \in Runs, p \in Pids :
        /\ FreeRun(r) /\ FreePid(p)
        /\ obj' = [obj EXCEPT ![programs[n]] = Started(@, r, p)]
        /\ LaunchRun(programs[n], r, p)
        /\ owner' = [owner EXCEPT ![p] = n]
  BY DEF BootStart
<1>2. /\ phase = "boot" /\ programs[n] # None /\ obj[programs[n]].state # "Running"
      /\ UNCHANGED <<phase, programs, rpc, disk, todo, bootWrite>>
  BY DEF BootStart, IInv, References, BootRefs
<1>3. /\ obj' \in [Objs -> Obj \cup {None}]
      /\ run' \in [Runs -> Run] /\ lmon' \in [Runs -> LMon] /\ rmon' \in [Runs -> RMon]
      /\ owner' \in [Pids -> Names \cup {None}]
      /\ MapRefs' /\ RunRefs' /\ SupervisionInv'
  BY <1>1, <1>2, LaunchStep
<1>4. TypeOK'
  BY <1>2, <1>3 DEF IInv, TypeOK
<1>5. RpcRefs' /\ DownRefs' /\ BootRefs'
  BY <1>2 DEF IInv, References, RpcRefs, DownRefs, BootRefs
<1> QED
  BY <1>3, <1>4, <1>5 DEF IInv, References

\* NewManager fails to start a program.
LEMMA BootStartFailsStep ==
  ASSUME IInv, NEW n \in Names, BootStartFails(n)
  PROVE  IInv'
<1>1. /\ phase = "boot" /\ programs[n] # None /\ obj[programs[n]].state # "Running"
      /\ obj' = [obj EXCEPT ![programs[n]].state = "Failed", ![programs[n]].desired = "Running"]
      /\ UNCHANGED <<phase, programs, run, lmon, rmon, rpc, disk, owner, todo, bootWrite>>
  BY DEF BootStartFails, IInv, References, BootRefs
<1>2. obj' \in [Objs -> Obj \cup {None}] /\ MapRefs' /\ SupervisionInv'
  BY <1>1, StartFailsObj
<1>3. TypeOK'
  BY <1>1, <1>2 DEF IInv, TypeOK
<1>4. RunRefs'
  <2>1. \A b \in Objs : obj[b] \in Obj => obj'[b] \in Obj
    BY <1>1 DEF IInv, TypeOK, Obj, States, Desired
  <2> QED
    BY <1>1, <2>1, RunRefsKept DEF IInv, References, InUse
<1>5. RpcRefs' /\ DownRefs' /\ BootRefs'
  BY <1>1 DEF IInv, References, RpcRefs, DownRefs, BootRefs
<1> QED
  BY <1>2, <1>3, <1>4, <1>5 DEF IInv, References

\* NewManager persists a program in two steps.
LEMMA BootWriteStep ==
  ASSUME IInv, NEW n \in Names, BootMarshal(n) \/ BootPersist(n)
  PROVE  IInv'
<1>1. /\ UNCHANGED <<phase, programs, obj, run, lmon, rmon, rpc, owner>>
      /\ todo' \in SUBSET todo
  BY DEF BootMarshal, BootPersist
<1>2. disk' \in [Names -> Meta \cup {None, Broken}] /\ bootWrite' \in Meta \cup {None}
  <2>1. CASE BootMarshal(n)
    <3>1. obj[programs[n]] \in Obj
      BY <2>1 DEF BootMarshal, IInv, References, MapRefs, BootRefs
    <3>2. MetaOf(obj[programs[n]]) \in Meta
      BY <3>1 DEF MetaOf, Meta, Obj
    <3> QED
      BY <2>1, <3>2 DEF BootMarshal, IInv, TypeOK
  <2>2. CASE BootPersist(n)
    BY <2>2 DEF BootPersist, IInv, TypeOK
  <2> QED
    BY <2>1, <2>2
<1>3. TypeOK'
  BY <1>1, <1>2 DEF IInv, TypeOK
<1>4. References'
  BY <1>1 DEF IInv, References, MapRefs, RunRefs, RpcRefs, DownRefs, BootRefs, InUse
<1> QED
  BY <1>1, <1>3, <1>4, SupervisionFrame DEF IInv

----------------------------------------------------------------------------
(* The theorems *)

\* The agent starts in a state that satisfies the inductive invariant.
LEMMA InitIInv == Init => IInv
<1> SUFFICES ASSUME Init PROVE IInv
  OBVIOUS
<1>1. TypeOK
  BY ResetTypes DEF Init, TypeOK, Phases
<1>2. \A r \in Runs : ~InUse(r)
  BY DEF Init, InUse, NoRun, NoLMon
<1>3. SupervisionInv /\ RunRefs
  BY <1>1, <1>2, QuietState DEF Init, TypeOK
<1>4. MapRefs /\ RpcRefs /\ DownRefs /\ BootRefs
  BY <1>2 DEF Init, MapRefs, RpcRefs, DownRefs, BootRefs, NoRpc, Procs
<1> QED
  BY <1>1, <1>3, <1>4 DEF IInv, References

\* Every step of the supervisor preserves the inductive invariant.
LEMMA NextIInv == IInv /\ [Next]_vars => IInv'
<1> SUFFICES ASSUME IInv, [Next]_vars PROVE IInv'
  OBVIOUS
<1>1. CASE Handlers
  <2>1. ASSUME NEW n \in Names, NEW s \in Specs, Install(n, s) PROVE IInv'
    BY <2>1, InstallStep
  <2>2. ASSUME NEW n \in Names, Start(n) \/ StartFails(n) PROVE IInv'
    BY <2>2, StartStep, StartFailsStep
  <2>3. ASSUME NEW c \in Clients, NEW n \in Names, NEW op \in Ops, StopBegin(c, n, op)
        PROVE  IInv'
    BY <2>3, StopBeginStep
  <2>4. ASSUME NEW c \in Procs,
               \/ TerminateLookup(c) \/ TerminateCancel(c) \/ TerminateDone(c)
               \/ TerminateTimeout(c) \/ TerminateReturn(c)
        PROVE  IInv'
    BY <2>4, TerminateLookupStep, TerminateCancelStep, TerminateWaitStep, TerminateReturnStep
  <2> QED
    BY <1>1, <2>1, <2>2, <2>3, <2>4 DEF Handlers, Procs
<1>2. ASSUME NEW r \in Runs, Supervise(r) PROVE IInv'
  BY <1>2, SuperviseExitedStep, SuperviseTermStep, SuperviseKillStep, SuperviseEndsStep,
     SuperviseSpawnStep, SuperviseRespawnedStep DEF Supervise
<1>3. ASSUME NEW r \in Runs, Monitor(r) PROVE IInv'
  BY <1>3, MonitorEndsStep, LivenessStep, ReadinessStep, VerdictStep DEF Monitor
<1>4. ASSUME NEW p \in Pids, ProcessExits(p) PROVE IInv'
  BY <1>4, ExitStep DEF ProcessExits
<1>5. CASE Lifecycle
  <2>1. CASE Drain \/ ShutdownBegin \/ BootDone
    BY <2>1, PhaseStep
  <2>2. CASE Crash \/ ShutdownExit
    BY <2>2, CrashStep
  <2>3. CASE BootLoad
    BY <2>3, BootLoadStep
  <2>4. ASSUME NEW n \in Names, CrashAfterSpawn(n) \/ CrashInPersist(n) PROVE IInv'
    BY <2>4, CrashStep
  <2>5. ASSUME NEW n \in Names,
               ShutdownTerminate(n) \/ BootStart(n) \/ BootStartFails(n)
        PROVE  IInv'
    BY <2>5, ShutdownTerminateStep, BootStartStep, BootStartFailsStep
  <2>6. ASSUME NEW n \in Names, BootMarshal(n) \/ BootPersist(n) PROVE IInv'
    BY <2>6, BootWriteStep
  <2> QED
    BY <1>5, <2>1, <2>2, <2>3, <2>4, <2>5, <2>6 DEF Lifecycle
<1>6. CASE UNCHANGED vars
  <2>1. TypeOK'
    BY <1>6 DEF vars, IInv, TypeOK
  <2>2. References'
    BY <1>6 DEF vars, IInv, References, MapRefs, RunRefs, RpcRefs, DownRefs, BootRefs, InUse
  <2> QED
    BY <1>6, <2>1, <2>2, SupervisionFrame DEF vars, IInv
<1> QED
  BY <1>1, <1>2, <1>3, <1>4, <1>5, <1>6 DEF Next

\* Every reachable state of the supervisor is well formed.
THEOREM SupervisorTypeOK == Spec => []TypeOK
<1>1. IInv => TypeOK
  BY DEF IInv
<1> QED
  BY <1>1, InitIInv, NextIInv, PTL DEF Spec

\* Each Running program object is served by exactly one supervise goroutine,
\* which waits on the one process whose pid the object shows, for any number
\* of programs, clients and crashes (manager.go startLocked, supervise,
\* terminate, NewManager).
THEOREM OneSupervisorPerProgram == Spec => []SupervisionInv
<1>1. IInv => SupervisionInv
  BY DEF IInv
<1> QED
  BY <1>1, InitIInv, NextIInv, PTL DEF Spec

----------------------------------------------------------------------------
(* As long as nobody calls Remove: the second inductive invariant *)

NoRemove == \A c \in Procs : rpc[c].op # "remove"

\* An object of this name that says Running.
Up(b, n) == obj[b] # None /\ obj[b].name = n /\ obj[b].state = "Running"

\* What a Stop that no Start has overlapped knows: its object is marked, the
\* run it waits for is that of the only object of the name that may be Running,
\* and in the end there is none.
StopOK(c) ==
  LET k == rpc[c]
  IN k.pc # "idle" /\ ~k.raced =>
       /\ k.obj \in Objs /\ obj[k.obj] \in Obj
       /\ obj[k.obj].name = k.name /\ obj[k.obj].desired = "Stopped"
       /\ k.pc \in {"cancel", "wait"} => \A b \in Objs : Up(b, k.name) => obj[b].run = k.run
       /\ k.pc = "ok" => \A b \in Objs : ~Up(b, k.name)

Stops == \A c \in Clients : StopOK(c)

\* Programs whose desired state no step of the supervisor has changed in
\* memory only.
Steady(x) == x.state = "Running" \/ (x.state # "Failed" /\ x.spec.type = "simple")

Matches(m, x) == m.spec = x.spec /\ (Steady(x) => m.desired = x.desired)

\* The file of a program agrees with it, except while NewManager has yet to
\* write it.
Recorded(n) ==
  /\ disk[n] \in Meta
  /\ disk[n].spec = obj[programs[n]].spec
  /\ (phase = "boot" /\ n \in todo) \/ Matches(disk[n], obj[programs[n]])

Recording == \A n \in Names : programs[n] # None => Recorded(n)

First(n) == n \in todo /\ \A m \in todo : StartsBefore(n, m)

\* What NewManager is about to write agrees with the program it writes.
Marshalled ==
  /\ phase = "down" => bootWrite = None
  /\ phase = "boot" /\ bootWrite # None =>
       \A n \in Names : First(n) => Matches(bootWrite, obj[programs[n]])

JInv == NoRemove /\ NoOrphanRun /\ Stops /\ Recording /\ Marshalled

----------------------------------------------------------------------------
(* Steps that start nothing *)

\* What most steps do to an object: it keeps its identity, does not come to be
\* Running, and changes its desired state only to Stopped, and not while it is
\* steady.
Tame(b) ==
  obj[b] \in Obj =>
    /\ obj'[b] \in Obj
    /\ obj'[b].name = obj[b].name /\ obj'[b].spec = obj[b].spec /\ obj'[b].run = obj[b].run
    /\ obj'[b].state = "Running" => obj[b].state = "Running"
    /\ obj'[b].desired \in {obj[b].desired, "Stopped"}
    /\ Steady(obj'[b]) => Steady(obj[b]) /\ obj'[b].desired = obj[b].desired

\* A Running object is the one its name maps to.
LEMMA UpInMap ==
  ASSUME IInv, NoOrphanRun, NEW b \in Objs, NEW n \in Names, Up(b, n)
  PROVE  programs[n] = b /\ obj[b].run \in Runs /\ run[obj[b].run].pc \in Active
<1>1. obj[b].run \in Runs /\ run[obj[b].run].obj = b /\ run[obj[b].run].pc \in Active
  BY DEF Up, IInv, SupervisionInv, RunningIsSupervised
<1> QED BY <1>1 DEF NoOrphanRun, Up

\* A Stop in flight whose objects are left tame.
LEMMA StopKept ==
  ASSUME IInv, NEW c \in Clients, StopOK(c), rpc'[c] = rpc[c],
         rpc[c].obj \in Objs => Tame(rpc[c].obj),
         \A b \in Objs : obj'[b] # None /\ obj'[b].name = rpc[c].name /\ obj'[b].state = "Running"
                           => Up(b, rpc[c].name) /\ obj'[b].run = obj[b].run
  PROVE  StopOK(c)'
<1> SUFFICES ASSUME rpc[c].pc # "idle", ~rpc[c].raced PROVE StopOK(c)'
  BY DEF StopOK
<1>1. PICK k \in Rpc : k = rpc[c] /\ k = rpc'[c]
  BY DEF IInv, TypeOK
<1>2. /\ k.obj \in Objs /\ obj[k.obj] \in Obj
      /\ obj[k.obj].name = k.name /\ obj[k.obj].desired = "Stopped"
      /\ k.pc \in {"cancel", "wait"} => \A b \in Objs : Up(b, k.name) => obj[b].run = k.run
      /\ k.pc = "ok" => \A b \in Objs : ~Up(b, k.name)
  BY <1>1 DEF StopOK
<1>3. obj'[k.obj] \in Obj /\ obj'[k.obj].name = k.name /\ obj'[k.obj].desired = "Stopped"
  BY <1>1, <1>2 DEF Tame
<1>4. \A b \in Objs : Up(b, k.name)' => Up(b, k.name) /\ obj'[b].run = obj[b].run
  BY <1>1 DEF Up
<1>5. k.pc \in {"cancel", "wait"} => \A b \in Objs : Up(b, k.name)' => obj'[b].run = k.run
  BY <1>2, <1>4
<1>6. k.pc = "ok" => \A b \in Objs : ~Up(b, k.name)'
  BY <1>2, <1>4
<1> QED BY <1>1, <1>2, <1>3, <1>5, <1>6 DEF StopOK, Up

\* A goroutine that goes on serves the same object.
LEMMA OrphanKept ==
  ASSUME IInv, NoOrphanRun, UNCHANGED programs, \A b \in Objs : Tame(b),
         \A r \in Runs : run'[r].pc \in Active => run[r].pc \in Active /\ run'[r].obj = run[r].obj
  PROVE  NoOrphanRun'
<1> SUFFICES ASSUME NEW r \in Runs, run'[r].pc \in Active
             PROVE  programs'[obj'[run'[r].obj].name] = run'[r].obj
  BY DEF NoOrphanRun
<1>1. run[r].obj \in Objs /\ obj[run[r].obj] \in Obj
  BY DEF IInv, SupervisionInv, RunServesItsProgram
<1> QED BY <1>1 DEF NoOrphanRun, Tame

\* A file that is left alone, or written with the program.
LEMMA RecordKept ==
  ASSUME IInv, NEW n \in Names, programs[n] # None, Recorded(n), programs'[n] = programs[n],
         Tame(programs[n]), disk'[n] \in Meta,
         disk'[n] = disk[n] \/ disk'[n] = MetaOf(obj'[programs[n]]),
         phase = "boot" /\ n \in todo => phase' = "boot" /\ n \in todo'
  PROVE  Recorded(n)'
<1>1. programs[n] \in Objs /\ obj[programs[n]] \in Obj
  BY DEF IInv, TypeOK, References, MapRefs
<1>2. obj'[programs[n]].spec = obj[programs[n]].spec
  BY <1>1 DEF Tame
<1>3. CASE disk'[n] = disk[n]
  <2>1. Matches(disk[n], obj[programs[n]]) => Matches(disk[n], obj'[programs[n]])
    BY <1>1 DEF Tame, Matches
  <2> QED BY <1>2, <1>3, <2>1 DEF Recorded, Matches, Steady
<1>4. CASE disk'[n] = MetaOf(obj'[programs[n]])
  BY <1>2, <1>4 DEF Recorded, Matches, MetaOf, Steady
<1> QED BY <1>3, <1>4

\* What NewManager is about to write, while nothing it looks at changes.
LEMMA MarshalKept ==
  ASSUME IInv, Marshalled, UNCHANGED <<phase, programs, bootWrite>>,
         phase = "boot" => todo' = todo, \A b \in Objs : Tame(b)
  PROVE  Marshalled'
<1> SUFFICES ASSUME phase = "boot", bootWrite # None, NEW n \in Names, First(n)'
             PROVE  Matches(bootWrite, obj'[programs[n]])
  BY DEF Marshalled, Matches, Steady
<1>1. \A m \in todo : /\ programs[m] \in Objs /\ obj[programs[m]] \in Obj
                      /\ obj'[programs[m]].spec = obj[programs[m]].spec
  BY DEF IInv, TypeOK, References, BootRefs, MapRefs, Tame
<1>2. First(n)
  BY <1>1 DEF First, StartsBefore
<1>3. Matches(bootWrite, obj[programs[n]])
  BY <1>2 DEF Marshalled
<1> QED BY <1>1, <1>2, <1>3 DEF First, Matches, Tame

\* A step after which objects are tame and files left alone or written.
LEMMA TameStep ==
  ASSUME IInv, JInv, IInv', \A b \in Objs : Tame(b),
         \A b \in Objs : obj[b] = None => obj'[b] = None,
         UNCHANGED programs,
         \/ UNCHANGED <<phase, bootWrite>> /\ (phase = "boot" => todo' = todo)
         \/ phase' \notin {"down", "boot"} /\ (phase = "boot" => todo = {}),
         \A r \in Runs : run'[r].pc \in Active => run[r].pc \in Active /\ run'[r].obj = run[r].obj,
         \A n \in Names : \/ disk'[n] = disk[n]
                          \/ programs[n] # None /\ disk'[n] = MetaOf(obj'[programs[n]]),
         NoRemove',
         \A c \in Clients : rpc'[c] = rpc[c] \/ StopOK(c)'
  PROVE  JInv'
<1>1. NoOrphanRun'
  BY OrphanKept DEF JInv
<1>2. Stops'
  <2> SUFFICES ASSUME NEW c \in Clients, rpc'[c] = rpc[c] PROVE StopOK(c)'
    BY DEF Stops
  <2>1. \A b \in Objs : obj[b] # None => obj[b] \in Obj
    BY DEF IInv, TypeOK
  <2>2. \A b \in Objs : obj'[b] # None /\ obj'[b].name = rpc[c].name /\ obj'[b].state = "Running"
                          => Up(b, rpc[c].name) /\ obj'[b].run = obj[b].run
    BY <2>1 DEF Tame, Up
  <2> QED BY <2>2, StopKept DEF JInv, Stops
<1>3. Recording'
  <2> SUFFICES ASSUME NEW n \in Names, programs[n] # None PROVE Recorded(n)'
    BY DEF Recording
  <2>1. Recorded(n) /\ Tame(programs[n])
    BY DEF JInv, Recording, IInv, TypeOK
  <2>2. obj'[programs[n]] \in Obj
    BY DEF IInv, References, MapRefs
  <2>3. MetaOf(obj'[programs[n]]) \in Meta
    BY <2>2 DEF MetaOf, Meta, Obj
  <2>4. disk'[n] \in Meta /\ (disk'[n] = disk[n] \/ disk'[n] = MetaOf(obj'[programs[n]]))
    BY <2>1, <2>3 DEF Recorded
  <2>5. phase = "boot" /\ n \in todo => phase' = "boot" /\ n \in todo'
    OBVIOUS
  <2> QED BY <2>1, <2>4, <2>5, RecordKept
<1>4. Marshalled'
  <2>1. CASE UNCHANGED <<phase, bootWrite>> /\ (phase = "boot" => todo' = todo)
    BY <2>1, MarshalKept DEF JInv
  <2>2. CASE phase' \notin {"down", "boot"}
    BY <2>2 DEF Marshalled
  <2> QED BY <2>1, <2>2
<1> QED BY <1>1, <1>2, <1>3, <1>4 DEF JInv

\* Objects that do not change are tame.
LEMMA SameTame ==
  ASSUME UNCHANGED obj
  PROVE  \A b \in Objs : Tame(b) /\ (obj[b] = None => obj'[b] = None)
  BY DEF Tame

\* One object changes as Tame asks.
LEMMA OneTame ==
  ASSUME IInv, NEW o \in Objs, obj[o] \in Obj, NEW y \in Obj, obj' = [obj EXCEPT ![o] = y],
         y.name = obj[o].name, y.spec = obj[o].spec, y.run = obj[o].run,
         y.state = "Running" => obj[o].state = "Running",
         y.desired \in {obj[o].desired, "Stopped"},
         Steady(y) => Steady(obj[o]) /\ y.desired = obj[o].desired
  PROVE  /\ \A b \in Objs : Tame(b) /\ (obj[b] = None => obj'[b] = None)
         /\ obj'[o] = y
<1>1. obj'[o] = y /\ \A b \in Objs \ {o} : obj'[b] = obj[b]
  BY DEF IInv, TypeOK
<1>2. Tame(o)
  BY <1>1 DEF Tame
<1>3. \A b \in Objs \ {o} : Tame(b)
  BY <1>1 DEF Tame
<1> QED BY <1>1, <1>2, <1>3, NilIsNoObject

\* The supervise goroutine changes and writes only the object it serves, which
\* is the one the file belongs to.
LEMMA ServedStep ==
  ASSUME IInv, JInv, IInv', NEW r \in Runs, run[r].pc \in Active, NEW y \in Obj,
         obj' = [obj EXCEPT ![run[r].obj] = y],
         y.name = obj[run[r].obj].name, y.spec = obj[run[r].obj].spec, y.run = obj[run[r].obj].run,
         y.desired \in {obj[run[r].obj].desired, "Stopped"},
         Steady(y) => y.desired = obj[run[r].obj].desired,
         disk' = disk \/ disk' = Persist(y),
         \A q \in Runs : run'[q].pc \in Active => run[q].pc \in Active /\ run'[q].obj = run[q].obj,
         UNCHANGED <<phase, programs, rpc, todo, bootWrite>>
  PROVE  JInv'
<1> DEFINE o == run[r].obj
<1>1. o \in Objs /\ obj[o] \in Obj /\ obj[o].state = "Running" /\ programs[obj[o].name] = o
  BY DEF IInv, SupervisionInv, RunServesItsProgram, JInv, NoOrphanRun
<1>2. Steady(obj[o])
  BY <1>1 DEF Steady
<1>3. (\A b \in Objs : Tame(b) /\ (obj[b] = None => obj'[b] = None)) /\ obj'[o] = y
  BY <1>1, <1>2, OneTame
<1>4. \A n \in Names : \/ disk'[n] = disk[n]
                       \/ programs[n] # None /\ disk'[n] = MetaOf(obj'[programs[n]])
  <2>1. \A n \in Names : disk'[n] = disk[n] \/ (n = y.name /\ disk'[n] = MetaOf(y))
    BY DEF Persist, IInv, TypeOK
  <2> QED BY <2>1, <1>1, <1>3, SupervisorAssumptions
<1>5. NoRemove'
  BY DEF JInv, NoRemove
<1> QED BY <1>3, <1>4, <1>5, TameStep

\* The supervise goroutine.
LEMMA SuperviseKeeps ==
  ASSUME IInv, JInv, IInv', NEW r \in Runs, Supervise(r)
  PROVE  JInv'
<1>1. CASE SuperviseTerm(r) \/ SuperviseKill(r) \/ SuperviseSpawn(r)
  <2>1. UNCHANGED <<phase, programs, obj, rpc, disk, todo, bootWrite>>
    BY <1>1 DEF SuperviseTerm, SuperviseKill, SuperviseSpawn
  <2>2. \A q \in Runs : run'[q].pc \in Active => run[q].pc \in Active /\ run'[q].obj = run[q].obj
    BY <1>1 DEF SuperviseTerm, SuperviseKill, SuperviseSpawn, IInv, TypeOK, Run, Active, Waiting
  <2>3. NoRemove'
    BY <2>1 DEF JInv, NoRemove
  <2> QED BY <2>1, <2>2, <2>3, SameTame, TameStep
<1>2. CASE SuperviseExited(r)
  <2> DEFINE o == run[r].obj
  <2>1. run[r].pc \in Active /\ run[r] \in Run /\ run[r].cancelled \in BOOLEAN
    BY <1>2 DEF SuperviseExited, Active, IInv, TypeOK, Run
  <2>2. o \in Objs /\ obj[o] \in Obj /\ obj[o].state = "Running"
    BY <2>1 DEF IInv, SupervisionInv, RunServesItsProgram
  <2>3. PICK failed \in BOOLEAN :
          /\ obj' = [obj EXCEPT ![o] = AfterExit(obj[o], run[r].cancelled, failed)]
          /\ disk' = Persist(AfterExit(obj[o], run[r].cancelled, failed))
    BY <1>2 DEF SuperviseExited
  <2>4. PICK y : y = AfterExit(obj[o], run[r].cancelled, failed)
    OBVIOUS
  <2>5. y \in Obj /\ y.name = obj[o].name /\ y.run = obj[o].run
    BY <2>1, <2>2, <2>4, AfterExitFields
  <2>6. /\ y.spec = obj[o].spec /\ y.desired \in {obj[o].desired, "Stopped"}
        /\ Steady(y) => y.desired = obj[o].desired
    BY <2>1, <2>2, <2>4 DEF AfterExit, StateAfter, DesiredAfter, Restarts, Halted, Steady, Obj
  <2>7. /\ \A q \in Runs : run'[q].pc \in Active => run[q].pc \in Active /\ run'[q].obj = run[q].obj
        /\ UNCHANGED <<phase, programs, rpc, todo, bootWrite>>
    BY <1>2, <2>1 DEF SuperviseExited, IInv, TypeOK, Run
  <2> QED BY <2>1, <2>3, <2>4, <2>5, <2>6, <2>7, ServedStep
<1>3. CASE SuperviseCancelled(r) \/ SuperviseSpawnFails(r) \/ SuperviseRespawned(r)
  <2> DEFINE o == run[r].obj
  <2>1. run[r].pc \in Active /\ run[r] \in Run
    BY <1>3 DEF SuperviseCancelled, SuperviseSpawnFails, SuperviseRespawned, Active, IInv, TypeOK
  <2>2. o \in Objs /\ obj[o] \in Obj /\ obj[o].state = "Running"
    BY <2>1 DEF IInv, SupervisionInv, RunServesItsProgram
  <2>3. /\ \A q \in Runs : run'[q].pc \in Active => run[q].pc \in Active /\ run'[q].obj = run[q].obj
        /\ UNCHANGED <<phase, programs, rpc, todo, bootWrite>>
    BY <1>3, <2>1 DEF SuperviseCancelled, SuperviseSpawnFails, SuperviseRespawned, IInv, TypeOK, Run
  <2>4. CASE SuperviseCancelled(r) \/ SuperviseSpawnFails(r)
    <3>1. PICK st \in {"Stopped", "Failed"} : obj' = [obj EXCEPT ![o].state = st] /\ disk' = disk
      BY <2>4 DEF SuperviseCancelled, SuperviseSpawnFails
    <3>2. PICK y : y = [obj[o] EXCEPT !.state = st]
      OBVIOUS
    <3>3. /\ y \in Obj /\ y.name = obj[o].name /\ y.run = obj[o].run /\ y.spec = obj[o].spec
          /\ y.desired = obj[o].desired
      BY <2>2, <3>2 DEF Obj, States
    <3>4. obj' = [obj EXCEPT ![o] = y]
      BY <3>1, <3>2
    <3> QED BY <2>1, <2>3, <3>1, <3>3, <3>4, ServedStep
  <2>5. CASE SuperviseRespawned(r)
    <3>1. PICK y : y = Respawned(obj[o], run[r].pid)
      OBVIOUS
    <3>2. obj' = [obj EXCEPT ![o] = y] /\ disk' = Persist(y)
      BY <2>5, <3>1 DEF SuperviseRespawned
    <3>3. /\ y \in Obj /\ y.name = obj[o].name /\ y.run = obj[o].run /\ y.spec = obj[o].spec
          /\ y.desired = obj[o].desired
      BY <2>1, <2>2, <3>1, SupervisorAssumptions DEF Respawned, Obj, States, Run, SpecType
    <3> QED BY <2>1, <2>3, <3>2, <3>3, ServedStep
  <2> QED BY <1>3, <2>4, <2>5
<1> QED BY <1>1, <1>2, <1>3 DEF Supervise

\* The monitors.
LEMMA MonitorKeeps ==
  ASSUME IInv, JInv, IInv', NEW r \in Runs, Monitor(r)
  PROVE  JInv'
<1>1. UNCHANGED <<phase, programs, run, rpc, disk, todo, bootWrite>>
  BY DEF Monitor, MonitorEnds, LivenessTick, LivenessProbe, LivenessPasses, LivenessFails, ReadinessTick,
         ReadinessProbe, ReadinessVerdict
<1>2. \A b \in Objs : Tame(b) /\ (obj[b] = None => obj'[b] = None)
  <2>1. CASE UNCHANGED obj
    BY <2>1, SameTame
  <2>2. CASE LivenessPasses(r) \/ LivenessFails(r) \/ ReadinessVerdict(r)
    <3> DEFINE o == run[r].obj
    <3>1. InUse(r)
      BY <2>2 DEF InUse, LivenessPasses, LivenessFails, ReadinessVerdict
    <3>2. o \in Objs /\ obj[o] \in Obj
      BY <3>1 DEF IInv, References, RunRefs
    <3>3. PICK h \in Health, b \in BOOLEAN :
            obj' = [obj EXCEPT ![o] = SetHealth(@, h)] \/ obj' = [obj EXCEPT ![o] = SetReady(@, b)]
      <4>1. "Healthy" \in Health /\ "Unhealthy" \in Health
        BY DEF Health
      <4>2. (rmon[r] = "pass") \in BOOLEAN
        OBVIOUS
      <4> QED BY <2>2, <4>1, <4>2 DEF LivenessPasses, LivenessFails, ReadinessVerdict
    <3>4. PICK y : obj' = [obj EXCEPT ![o] = y] /\ (y = SetHealth(obj[o], h) \/ y = SetReady(obj[o], b))
      BY <3>3
    <3>5. /\ y \in Obj /\ y.name = obj[o].name /\ y.run = obj[o].run /\ y.spec = obj[o].spec
          /\ y.desired = obj[o].desired /\ y.state = obj[o].state
      BY <3>2, <3>4 DEF SetHealth, SetReady, Obj
    <3>6. Steady(y) <=> Steady(obj[o])
      BY <3>5 DEF Steady
    <3> QED BY <3>2, <3>4, <3>5, <3>6, OneTame
  <2> QED BY <2>1, <2>2 DEF Monitor, MonitorEnds, LivenessTick, LivenessProbe,
                            ReadinessTick, ReadinessProbe
<1>3. NoRemove'
  BY <1>1 DEF JInv, NoRemove
<1> QED BY <1>1, <1>2, <1>3, TameStep

\* A process ends, or only the phase of the agent changes.
LEMMA PhaseKeeps ==
  ASSUME IInv, JInv, IInv',
         Drain \/ ShutdownBegin \/ BootDone \/ (\E p \in Pids : ProcessExits(p)) \/ UNCHANGED vars
  PROVE  JInv'
<1>1. /\ UNCHANGED <<programs, obj, run, rpc, disk>>
      /\ \/ UNCHANGED <<phase, bootWrite>> /\ (phase = "boot" => todo' = todo)
         \/ phase' \notin {"down", "boot"} /\ (phase = "boot" => todo = {})
  BY DEF Drain, ShutdownBegin, BootDone, ProcessExits, vars
<1>2. NoRemove'
  BY <1>1 DEF JInv, NoRemove
<1> QED BY <1>1, <1>2, SameTame, TameStep

\* A handler that moves on while nothing but the runs' contexts changes.
LEMMA RpcStep ==
  ASSUME IInv, JInv, IInv', NEW c \in Procs, NEW v \in Rpc, rpc' = [rpc EXCEPT ![c] = v],
         v.op # "remove", c \in Clients => StopOK(c)',
         UNCHANGED <<phase, programs, obj, disk, bootWrite>>, phase = "boot" => todo' = todo,
         \A q \in Runs : run'[q].pc = run[q].pc /\ run'[q].obj = run[q].obj
  PROVE  JInv'
<1>1. rpc'[c] = v /\ \A d \in Procs \ {c} : rpc'[d] = rpc[d]
  BY DEF IInv, TypeOK, Procs
<1>2. NoRemove'
  BY <1>1 DEF JInv, NoRemove
<1>3. \A d \in Clients : rpc'[d] = rpc[d] \/ StopOK(d)'
  BY <1>1 DEF Procs
<1> QED BY <1>2, <1>3, SameTame, TameStep

\* terminate: the object that is looked up is the only one that may be Running,
\* and once its run is done it is not.
LEMMA TerminateKeeps ==
  ASSUME IInv, JInv, IInv', NEW c \in Procs,
         \/ TerminateLookup(c) \/ TerminateCancel(c) \/ TerminateDone(c)
         \/ TerminateTimeout(c) \/ TerminateReturn(c)
  PROVE  JInv'
<1>1. /\ rpc \in [Procs -> Rpc] /\ rpc[c] \in Rpc /\ rpc[c].op # "remove"
      /\ rpc[c].pc # "idle" /\ rpc[c].name \in Names /\ phase # "boot"
  BY DEF IInv, TypeOK, Procs, References, RpcRefs, DownRefs, JInv, NoRemove, TerminateLookup,
         TerminateCancel, TerminateDone, TerminateTimeout, TerminateReturn
<1>2. PICK k \in Rpc : k = rpc[c]
  BY <1>1
<1>3. c \in Clients /\ ~k.raced =>
        /\ k.obj \in Objs /\ obj[k.obj] \in Obj
        /\ obj[k.obj].name = k.name /\ obj[k.obj].desired = "Stopped"
        /\ k.pc \in {"cancel", "wait"} => \A b \in Objs : Up(b, k.name) => obj[b].run = k.run
        /\ k.pc = "ok" => \A b \in Objs : ~Up(b, k.name)
  BY <1>1, <1>2 DEF JInv, Stops, StopOK
<1>4. NoRpc \in Rpc /\ NoRpc.op # "remove" /\ NoRpc.pc = "idle"
  BY DEF NoRpc, Rpc
<1>5. ASSUME NEW v \in Rpc, rpc' = [rpc EXCEPT ![c] = v], UNCHANGED obj,
             v = NoRpc \/ (/\ v.obj = k.obj /\ v.name = k.name /\ v.raced = k.raced
                           /\ c \in Clients /\ ~k.raced =>
                                /\ v.pc \in {"cancel", "wait"} => \A b \in Objs : Up(b, k.name) => obj[b].run = v.run
                                /\ v.pc = "ok" => \A b \in Objs : ~Up(b, k.name))
      PROVE  c \in Clients => StopOK(c)'
  <2> SUFFICES ASSUME c \in Clients PROVE StopOK(c)'
    OBVIOUS
  <2>1. rpc'[c] = v
    BY <1>1, <1>5
  <2>2. CASE v = NoRpc
    BY <2>1, <2>2, <1>4 DEF StopOK
  <2>3. CASE v # NoRpc
    BY <2>1, <2>3, <1>3, <1>5 DEF StopOK, Up
  <2> QED BY <2>2, <2>3
<1>6. CASE TerminateLookup(c)
  <2> DEFINE m == programs[k.name]
             v == IF m = None THEN NoRpc
                  ELSE IF obj[m].run = None THEN [k EXCEPT !.pc = "ok"]
                  ELSE [k EXCEPT !.pc = "cancel", !.run = obj[m].run]
  <2>1. rpc' = [rpc EXCEPT ![c] = v] /\ UNCHANGED <<phase, programs, obj, run, disk, bootWrite>>
    BY <1>2, <1>6 DEF TerminateLookup
  <2>2. m # None => obj[m].run \in Runs \cup {None}
    BY <1>1, <1>2 DEF IInv, References, MapRefs, Obj
  <2>3. v \in Rpc /\ v.op # "remove"
    <3>1. CASE m = None
      BY <3>1, <1>4
    <3>2. CASE m # None /\ obj[m].run = None
      BY <3>2, <1>1, <1>2 DEF Rpc
    <3>3. CASE m # None /\ obj[m].run # None
      <4>1. PICK q \in Runs : q = obj[m].run
        BY <2>2, <3>3
      <4>2. v = [k EXCEPT !.pc = "cancel", !.run = q]
        BY <3>3, <4>1
      <4> QED BY <4>1, <4>2, <1>1, <1>2 DEF Rpc
    <3> QED BY <3>1, <3>2, <3>3
  <2>4. ASSUME NEW b \in Objs, Up(b, k.name) PROVE b = m /\ obj[b].run # None
    <3> HIDE DEF v
    <3>1. b = programs[k.name] /\ obj[b].run \in Runs
      BY <2>4, <1>1, <1>2, UpInMap DEF JInv
    <3> QED BY <3>1, SupervisorAssumptions
  <2>5. v = NoRpc \/ (/\ v.obj = k.obj /\ v.name = k.name /\ v.raced = k.raced
                      /\ v.pc \in {"cancel", "wait"} => \A b \in Objs : Up(b, k.name) => obj[b].run = v.run
                      /\ v.pc = "ok" => \A b \in Objs : ~Up(b, k.name))
    <3>1. CASE m = None
      BY <3>1
    <3>2. CASE m # None /\ obj[m].run = None
      BY <3>2, <2>4 DEF Rpc
    <3>3. CASE m # None /\ obj[m].run # None
      BY <3>3, <2>4 DEF Rpc
    <3> QED BY <3>1, <3>2, <3>3
  <2> HIDE DEF v
  <2>6. c \in Clients => StopOK(c)'
    BY <2>1, <2>3, <2>5, <1>5
  <2> QED BY <2>1, <2>3, <2>6, <1>1, RpcStep
<1>7. CASE TerminateCancel(c)
  <2> DEFINE v == [k EXCEPT !.pc = "wait"]
  <2>1. rpc' = [rpc EXCEPT ![c] = v] /\ k.pc = "cancel" /\ UNCHANGED <<phase, programs, obj, disk, todo, bootWrite>>
    BY <1>2, <1>7 DEF TerminateCancel
  <2>2. v \in Rpc /\ v.op # "remove" /\ v.pc = "wait" /\ v.obj = k.obj /\ v.name = k.name /\ v.run = k.run
        /\ v.raced = k.raced
    BY <1>1, <1>2 DEF Rpc
  <2>3. \A q \in Runs : run'[q].pc = run[q].pc /\ run'[q].obj = run[q].obj
    BY <1>7 DEF TerminateCancel, IInv, TypeOK, Run
  <2> HIDE DEF v
  <2>4. c \in Clients => StopOK(c)'
    BY <2>1, <2>2, <1>3, <1>5
  <2> QED BY <2>1, <2>2, <2>3, <2>4, RpcStep
<1>8. CASE TerminateDone(c)
  <2> DEFINE v == [k EXCEPT !.pc = "ok"]
  <2>1. /\ rpc' = [rpc EXCEPT ![c] = v] /\ k.pc = "wait" /\ run[k.run].pc = "done"
        /\ UNCHANGED <<phase, programs, obj, run, disk, todo, bootWrite>>
    BY <1>2, <1>8 DEF TerminateDone
  <2>2. v \in Rpc /\ v.op # "remove" /\ v.pc = "ok" /\ v.obj = k.obj /\ v.name = k.name /\ v.raced = k.raced
    BY <1>1, <1>2 DEF Rpc
  <2>3. c \in Clients /\ ~k.raced => \A b \in Objs : ~Up(b, k.name)
    BY <2>1, <1>1, <1>2, <1>3, UpInMap DEF JInv, Active, Waiting
  <2> HIDE DEF v
  <2>4. c \in Clients => StopOK(c)'
    BY <2>1, <2>2, <2>3, <1>5
  <2> QED BY <2>1, <2>2, <2>4, RpcStep
<1>9. CASE TerminateTimeout(c) \/ TerminateReturn(c)
  <2>1. rpc' = [rpc EXCEPT ![c] = NoRpc] /\ UNCHANGED <<phase, programs, obj, run, disk, bootWrite>>
    BY <1>1, <1>9 DEF TerminateTimeout, TerminateReturn
  <2>2. c \in Clients => StopOK(c)'
    BY <2>1, <1>4, <1>5
  <2> QED BY <2>1, <2>2, <1>1, <1>4, RpcStep
<1> QED BY <1>6, <1>7, <1>8, <1>9

\* Shutdown turns to the next program.
LEMMA ShutdownKeeps ==
  ASSUME IInv, JInv, IInv', NEW n \in Names, ShutdownTerminate(n)
  PROVE  JInv'
<1> DEFINE v == [NoRpc EXCEPT !.pc = "lookup", !.op = "shutdown", !.name = n, !.obj = programs[n]]
<1>1. programs[n] \in Objs \cup {None}
  BY DEF IInv, TypeOK
<1>2. v \in Rpc /\ v.op # "remove"
  BY <1>1 DEF NoRpc, Rpc
<1>3. rpc' = [rpc EXCEPT ![Main] = v] /\ UNCHANGED <<phase, programs, obj, run, disk, todo, bootWrite>>
  BY DEF ShutdownTerminate
<1> HIDE DEF v
<1> QED BY <1>2, <1>3, RpcStep, SupervisorAssumptions DEF Procs

----------------------------------------------------------------------------
(* Steps that start, stop, install or load a program *)

\* The file of a program that is not touched.
LEMMA OthersRecorded ==
  ASSUME IInv, JInv, NEW m \in Names, programs[m] # None, programs'[m] = programs[m],
         obj'[programs[m]] = obj[programs[m]], disk'[m] = disk[m],
         phase = "boot" /\ m \in todo => phase' = "boot" /\ m \in todo'
  PROVE  Recorded(m)'
<1>1. Recorded(m) /\ disk'[m] \in Meta
  BY DEF JInv, Recording, Recorded
<1>2. Tame(programs[m])
  BY DEF Tame
<1> QED BY <1>1, <1>2, RecordKept

\* The program of a name is started, or fails to start: whoever was stopping it
\* has been told.
LEMMA StartLike ==
  ASSUME IInv, JInv, IInv', NEW n \in Names, programs[n] # None, NEW y \in Obj,
         obj' = [obj EXCEPT ![programs[n]] = y],
         y.name = n, y.spec = obj[programs[n]].spec,
         \A q \in Runs : run'[q].pc \in Active =>
           (run[q].pc \in Active /\ run'[q].obj = run[q].obj) \/ run'[q].obj = programs[n],
         UNCHANGED <<phase, programs, todo, bootWrite>>, phase # "down",
         phase = "boot" => bootWrite = None,
         \/ disk' = disk /\ ((phase = "boot" /\ n \in todo) \/ ~Steady(y))
         \/ disk' = Persist(y),
         NoRemove',
         \A c \in Clients : rpc'[c].pc = "idle" \/ rpc'[c].raced \/ (rpc'[c] = rpc[c] /\ rpc[c].name # n)
  PROVE  JInv'
<1> DEFINE o == programs[n]
<1>1. o \in Objs /\ obj[o] \in Obj /\ obj[o].name = n
  BY DEF IInv, TypeOK, References, MapRefs
<1>2. obj'[o] = y /\ \A b \in Objs \ {o} : obj'[b] = obj[b]
  BY <1>1 DEF IInv, TypeOK
<1>3. NoOrphanRun'
  <2> SUFFICES ASSUME NEW q \in Runs, run'[q].pc \in Active
               PROVE  programs[obj'[run'[q].obj].name] = run'[q].obj
    BY DEF NoOrphanRun
  <2>1. CASE run'[q].obj = o
    BY <2>1, <1>2
  <2>2. CASE run'[q].obj # o
    <3>1. run[q].pc \in Active /\ run'[q].obj = run[q].obj
      BY <2>2
    <3>2. run[q].obj \in Objs /\ programs[obj[run[q].obj].name] = run[q].obj
      BY <3>1 DEF IInv, SupervisionInv, RunServesItsProgram, JInv, NoOrphanRun
    <3> QED BY <3>1, <3>2, <2>2, <1>2
  <2> QED BY <2>1, <2>2
<1>4. Stops'
  <2> SUFFICES ASSUME NEW c \in Clients, rpc'[c].pc # "idle", ~rpc'[c].raced PROVE StopOK(c)'
    BY DEF Stops, StopOK
  <2>1. rpc'[c] = rpc[c] /\ rpc[c].name # n
    OBVIOUS
  <2>2. StopOK(c) /\ rpc[c].obj \in Objs /\ obj[rpc[c].obj].name = rpc[c].name
    BY <2>1 DEF JInv, Stops, StopOK
  <2>3. Tame(rpc[c].obj)
    BY <2>1, <2>2, <1>1, <1>2 DEF Tame
  <2>4. \A b \in Objs : obj'[b] # None /\ obj'[b].name = rpc[c].name /\ obj'[b].state = "Running"
                          => Up(b, rpc[c].name) /\ obj'[b].run = obj[b].run
    BY <2>1, <1>2 DEF Up
  <2> QED BY <2>1, <2>2, <2>3, <2>4, StopKept
<1>5. Recording'
  <2> SUFFICES ASSUME NEW m \in Names, programs[m] # None PROVE Recorded(m)'
    BY DEF Recording
  <2>1. Recorded(n)
    BY DEF JInv, Recording
  <2>2. CASE m # n
    <3>1. programs[m] \in Objs /\ obj[programs[m]].name = m
      BY DEF IInv, TypeOK, References, MapRefs
    <3>2. obj'[programs[m]] = obj[programs[m]]
      BY <2>2, <3>1, <1>1, <1>2
    <3>3. disk'[m] = disk[m]
      BY <2>2 DEF Persist, IInv, TypeOK
    <3> QED BY <3>2, <3>3, OthersRecorded
  <2>3. CASE m = n
    <3>1. CASE disk' = disk /\ ((phase = "boot" /\ n \in todo) \/ ~Steady(y))
      BY <2>1, <2>3, <3>1, <1>2 DEF Recorded, Matches, Steady
    <3>2. CASE disk' = Persist(y)
      <4>1. disk'[n] = MetaOf(y)
        BY <2>1, <3>2, NoFileIsNoMeta DEF Persist, Recorded, IInv, TypeOK
      <4>2. MetaOf(y) \in Meta
        BY DEF MetaOf, Meta, Obj
      <4> QED BY <2>3, <4>1, <4>2, <1>2 DEF Recorded, Matches, MetaOf
    <3> QED BY <3>1, <3>2
  <2> QED BY <2>2, <2>3
<1>6. Marshalled'
  BY DEF Marshalled
<1> QED BY <1>3, <1>4, <1>5, <1>6 DEF JInv

\* Start and its failure.
LEMMA StartKeeps ==
  ASSUME IInv, JInv, IInv', NEW n \in Names, Start(n) \/ StartFails(n)
  PROVE  JInv'
<1> DEFINE o == programs[n]
<1>1. /\ phase = "up" /\ o # None /\ UNCHANGED <<phase, programs, todo, bootWrite>> /\ MarkRaced(n)
  BY DEF Start, StartFails, Startable
<1>2. o \in Objs /\ obj[o] \in Obj /\ obj[o].name = n
  BY <1>1 DEF IInv, TypeOK, References, MapRefs
<1>3. rpc \in [Procs -> Rpc]
  BY DEF IInv, TypeOK, Procs
<1>4. rpc' = [c \in Procs |-> IF rpc[c].name = n THEN [rpc[c] EXCEPT !.raced = TRUE] ELSE rpc[c]]
  BY <1>1 DEF MarkRaced, Procs
<1>5. NoRemove'
  <2>1. \A c \in Procs : rpc'[c].op = rpc[c].op
    BY <1>3, <1>4 DEF Rpc
  <2> QED BY <2>1 DEF JInv, NoRemove
<1>6. \A c \in Clients : rpc'[c].raced \/ (rpc'[c] = rpc[c] /\ rpc[c].name # n)
  BY <1>3, <1>4 DEF Rpc, Procs
<1>7. CASE Start(n)
  <2>1. PICK r \in Runs, p \in Pids :
          /\ obj' = [obj EXCEPT ![o] = Started(@, r, p)] /\ LaunchRun(o, r, p)
          /\ disk' = Persist(Started(obj[o], r, p))
    BY <1>7 DEF Start
  <2>2. PICK y : y = Started(obj[o], r, p)
    OBVIOUS
  <2>3. y \in Obj /\ y.name = n
    BY <2>2, <1>2, StartedFields
  <2>4. y.spec = obj[o].spec
    BY <2>2, <1>2 DEF Started, Obj
  <2>5. obj' = [obj EXCEPT ![o] = y] /\ disk' = Persist(y)
    BY <2>1, <2>2
  <2>6. \A q \in Runs : run'[q].pc \in Active =>
          (run[q].pc \in Active /\ run'[q].obj = run[q].obj) \/ run'[q].obj = o
    BY <2>1 DEF LaunchRun, IInv, TypeOK
  <2> QED BY <2>3, <2>4, <2>5, <2>6, <1>1, <1>5, <1>6, StartLike
<1>8. CASE StartFails(n)
  <2>1. obj' = [obj EXCEPT ![o].state = "Failed", ![o].desired = "Running"] /\ UNCHANGED <<run, disk>>
    BY <1>8 DEF StartFails
  <2>2. PICK y : y = [obj[o] EXCEPT !.state = "Failed", !.desired = "Running"]
    OBVIOUS
  <2>3. y \in Obj /\ y.name = n /\ y.spec = obj[o].spec /\ ~Steady(y)
    BY <2>2, <1>2 DEF Obj, States, Desired, Steady
  <2>4. obj' = [obj EXCEPT ![o] = y]
    BY <2>1, <2>2, <1>2 DEF IInv, TypeOK
  <2> QED BY <2>1, <2>3, <2>4, <1>1, <1>5, <1>6, StartLike
<1> QED BY <1>7, <1>8

\* NewManager starts a program, or fails to.
LEMMA BootStartKeeps ==
  ASSUME IInv, JInv, IInv', NEW n \in Names, BootStart(n) \/ BootStartFails(n)
  PROVE  JInv'
<1> DEFINE o == programs[n]
<1>1. /\ phase = "boot" /\ n \in todo /\ o # None /\ bootWrite = None
      /\ UNCHANGED <<phase, programs, rpc, disk, todo, bootWrite>>
  BY DEF BootStart, BootStartFails, IInv, References, BootRefs
<1>2. o \in Objs /\ obj[o] \in Obj /\ obj[o].name = n
  BY <1>1 DEF IInv, TypeOK, References, MapRefs
<1>3. NoRemove' /\ \A c \in Clients : rpc'[c].pc = "idle"
  BY <1>1 DEF JInv, NoRemove, IInv, References, DownRefs, Procs
<1>4. CASE BootStart(n)
  <2>1. PICK r \in Runs, p \in Pids :
          obj' = [obj EXCEPT ![o] = Started(@, r, p)] /\ LaunchRun(o, r, p)
    BY <1>4 DEF BootStart
  <2>2. PICK y : y = Started(obj[o], r, p)
    OBVIOUS
  <2>3. y \in Obj /\ y.name = n
    BY <2>2, <1>2, StartedFields
  <2>4. y.spec = obj[o].spec
    BY <2>2, <1>2 DEF Started, Obj
  <2>5. obj' = [obj EXCEPT ![o] = y]
    BY <2>1, <2>2
  <2>6. \A q \in Runs : run'[q].pc \in Active =>
          (run[q].pc \in Active /\ run'[q].obj = run[q].obj) \/ run'[q].obj = o
    BY <2>1 DEF LaunchRun, IInv, TypeOK
  <2> QED BY <2>3, <2>4, <2>5, <2>6, <1>1, <1>3, StartLike
<1>5. CASE BootStartFails(n)
  <2>1. obj' = [obj EXCEPT ![o].state = "Failed", ![o].desired = "Running"] /\ UNCHANGED run
    BY <1>5 DEF BootStartFails
  <2>2. PICK y : y = [obj[o] EXCEPT !.state = "Failed", !.desired = "Running"]
    OBVIOUS
  <2>3. y \in Obj /\ y.name = n /\ y.spec = obj[o].spec
    BY <2>2, <1>2 DEF Obj, States, Desired
  <2>4. obj' = [obj EXCEPT ![o] = y]
    BY <2>1, <2>2, <1>2 DEF IInv, TypeOK
  <2> QED BY <2>1, <2>3, <2>4, <1>1, <1>3, StartLike
<1> QED BY <1>4, <1>5

\* Install: the slot it takes is referred to by nobody, and the object it
\* replaces is not Running.
LEMMA InstallKeeps ==
  ASSUME IInv, JInv, IInv', NEW n \in Names, NEW s \in Specs, Install(n, s)
  PROVE  JInv'
<1>1. PICK x : x = [name |-> n, spec |-> s, state |-> "Configured", pid |-> 0,
                    health |-> "", ready |-> FALSE, desired |-> "Stopped", run |-> None]
  OBVIOUS
<1>2. PICK o \in Objs : /\ FreeObj(o)
                        /\ obj' = [obj EXCEPT ![o] = x]
                        /\ programs' = [programs EXCEPT ![n] = o]
                        /\ disk' = [disk EXCEPT ![n] = MetaOf(x)]
  BY <1>1 DEF Install
<1>3. /\ phase = "up" /\ Replaceable(n)
      /\ UNCHANGED <<phase, run, lmon, rmon, rpc, owner, todo, bootWrite>>
  BY DEF Install
<1>4. x.name = n /\ x.state = "Configured" /\ MetaOf(x) \in Meta /\ Matches(MetaOf(x), x)
  BY <1>1 DEF MetaOf, Meta, Desired, Matches
<1>5. obj'[o] = x /\ \A b \in Objs \ {o} : obj'[b] = obj[b]
  BY <1>2 DEF IInv, TypeOK
<1>6. programs'[n] = o /\ \A m \in Names \ {n} : programs'[m] = programs[m]
  BY <1>2 DEF IInv, TypeOK
<1>7. disk'[n] = MetaOf(x) /\ \A m \in Names \ {n} : disk'[m] = disk[m]
  BY <1>2 DEF IInv, TypeOK
<1>8. NoRemove'
  BY <1>3 DEF JInv, NoRemove
<1>9. NoOrphanRun'
  <2> SUFFICES ASSUME NEW r \in Runs, run[r].pc \in Active
               PROVE  programs'[obj'[run[r].obj].name] = run[r].obj
    BY <1>3 DEF NoOrphanRun
  <2>1. /\ run[r].obj \in Objs /\ obj[run[r].obj] \in Obj /\ obj[run[r].obj].state = "Running"
        /\ programs[obj[run[r].obj].name] = run[r].obj
    BY DEF IInv, SupervisionInv, RunServesItsProgram, JInv, NoOrphanRun
  <2>2. obj[run[r].obj].name \in Names
    BY <2>1 DEF Obj
  <2>3. run[r].obj # o
    BY <2>1, <2>2, <1>2 DEF FreeObj
  <2>4. obj[run[r].obj].name # n
    BY <2>1, <1>3, SupervisorAssumptions DEF Replaceable
  <2> QED BY <2>1, <2>2, <2>3, <2>4, <1>5, <1>6
<1>10. Stops'
  <2> SUFFICES ASSUME NEW c \in Clients, rpc[c].pc # "idle", ~rpc[c].raced PROVE StopOK(c)'
    BY <1>3 DEF Stops, StopOK
  <2>1. StopOK(c) /\ rpc[c].obj \in Objs /\ rpc[c].obj # o
    BY <1>2 DEF JInv, Stops, StopOK, FreeObj
  <2>2. Tame(rpc[c].obj)
    BY <2>1, <1>5 DEF Tame
  <2>3. \A b \in Objs : obj'[b] # None /\ obj'[b].name = rpc[c].name /\ obj'[b].state = "Running"
                          => Up(b, rpc[c].name) /\ obj'[b].run = obj[b].run
    BY <1>4, <1>5 DEF Up
  <2> QED BY <2>1, <2>2, <2>3, <1>3, StopKept
<1>11. Recording'
  <2> SUFFICES ASSUME NEW m \in Names, programs'[m] # None PROVE Recorded(m)'
    BY DEF Recording
  <2>1. CASE m = n
    BY <2>1, <1>3, <1>4, <1>5, <1>6, <1>7 DEF Recorded, Matches, Steady
  <2>2. CASE m # n
    <3>1. programs'[m] = programs[m] /\ programs[m] \in Objs /\ programs[m] # o /\ disk'[m] = disk[m]
      BY <2>2, <1>2, <1>6, <1>7 DEF IInv, TypeOK, FreeObj
    <3>2. obj'[programs[m]] = obj[programs[m]]
      BY <3>1, <1>5
    <3> QED BY <3>1, <3>2, <1>3, OthersRecorded
  <2> QED BY <2>1, <2>2
<1>12. Marshalled'
  BY <1>3 DEF Marshalled
<1> QED BY <1>8, <1>9, <1>10, <1>11, <1>12 DEF JInv

\* Stop records that the program is unwanted, in memory and on disk.
LEMMA StopBeginKeeps ==
  ASSUME IInv, JInv, IInv', NEW c \in Clients, NEW n \in Names, NEW op \in Ops, op # "remove",
         StopBegin(c, n, op)
  PROVE  JInv'
<1> DEFINE o == programs[n]
<1>1. PICK y : y = [obj[o] EXCEPT !.desired = "Stopped"]
  OBVIOUS
<1>2. PICK v : v = [NoRpc EXCEPT !.pc = "lookup", !.op = op, !.name = n, !.obj = o]
  OBVIOUS
<1>3. /\ phase = "up" /\ o # None
      /\ obj' = [obj EXCEPT ![o] = y] /\ disk' = Persist(y) /\ rpc' = [rpc EXCEPT ![c] = v]
      /\ UNCHANGED <<phase, programs, run, lmon, rmon, owner, todo, bootWrite>>
  BY <1>1, <1>2 DEF StopBegin
<1>4. o \in Objs /\ obj[o] \in Obj /\ obj[o].name = n
  BY <1>3 DEF IInv, TypeOK, References, MapRefs
<1>5. /\ y \in Obj /\ y.name = n /\ y.spec = obj[o].spec /\ y.run = obj[o].run
      /\ y.state = obj[o].state /\ y.desired = "Stopped" /\ MetaOf(y) \in Meta
  BY <1>1, <1>4 DEF Obj, Desired, MetaOf, Meta
<1>6. v.pc = "lookup" /\ v.op = op /\ v.name = n /\ v.obj = o
  BY <1>2 DEF NoRpc
<1>7. obj'[o] = y /\ \A b \in Objs \ {o} : obj'[b] = obj[b]
  BY <1>3, <1>4 DEF IInv, TypeOK
<1>8. rpc'[c] = v /\ \A d \in Procs \ {c} : rpc'[d] = rpc[d]
  BY <1>3 DEF IInv, TypeOK, Procs
<1>9. NoRemove'
  BY <1>6, <1>8 DEF JInv, NoRemove
<1>10. NoOrphanRun'
  <2> SUFFICES ASSUME NEW r \in Runs, run[r].pc \in Active
               PROVE  programs[obj'[run[r].obj].name] = run[r].obj
    BY <1>3 DEF NoOrphanRun
  <2>1. run[r].obj \in Objs /\ programs[obj[run[r].obj].name] = run[r].obj
    BY DEF IInv, SupervisionInv, RunServesItsProgram, JInv, NoOrphanRun
  <2> QED BY <2>1, <1>4, <1>5, <1>7
<1>11. Stops'
  <2> SUFFICES ASSUME NEW d \in Clients, rpc'[d].pc # "idle", ~rpc'[d].raced PROVE StopOK(d)'
    BY DEF Stops, StopOK
  <2>1. CASE d = c
    BY <2>1, <1>4, <1>5, <1>6, <1>7, <1>8 DEF StopOK
  <2>2. CASE d # c
    <3>1. rpc'[d] = rpc[d]
      BY <2>2, <1>8 DEF Procs
    <3>2. StopOK(d) /\ rpc[d].obj \in Objs /\ obj[rpc[d].obj].desired = "Stopped"
      BY <3>1 DEF JInv, Stops, StopOK
    <3>3. Tame(rpc[d].obj)
      BY <3>2, <1>4, <1>5, <1>7 DEF Tame, Steady
    <3>4. \A b \in Objs : obj'[b] # None /\ obj'[b].name = rpc[d].name /\ obj'[b].state = "Running"
                            => Up(b, rpc[d].name) /\ obj'[b].run = obj[b].run
      BY <1>4, <1>5, <1>7, NilIsNoObject DEF Up
    <3> QED BY <3>1, <3>2, <3>3, <3>4, StopKept
  <2> QED BY <2>1, <2>2
<1>12. Recording'
  <2> SUFFICES ASSUME NEW m \in Names, programs[m] # None PROVE Recorded(m)'
    BY <1>3 DEF Recording
  <2>1. CASE m = n
    <3>1. disk[n] \in Meta
      BY <1>3 DEF JInv, Recording, Recorded
    <3>2. disk'[n] = MetaOf(y)
      BY <3>1, <1>3, <1>5, NoFileIsNoMeta DEF Persist, IInv, TypeOK
    <3> QED BY <2>1, <3>2, <1>3, <1>5, <1>7 DEF Recorded, Matches, MetaOf
  <2>2. CASE m # n
    <3>1. programs[m] \in Objs /\ obj[programs[m]].name = m
      BY DEF IInv, TypeOK, References, MapRefs
    <3>2. obj'[programs[m]] = obj[programs[m]] /\ disk'[m] = disk[m]
      BY <2>2, <3>1, <1>3, <1>4, <1>5, <1>7 DEF Persist, IInv, TypeOK
    <3> QED BY <3>2, <1>3, OthersRecorded
  <2> QED BY <2>1, <2>2
<1>13. Marshalled'
  BY <1>3 DEF Marshalled
<1> QED BY <1>9, <1>10, <1>11, <1>12, <1>13 DEF JInv

\* An agent that has ended holds no program and no handler.
LEMMA CrashKeeps ==
  ASSUME Crash \/ ShutdownExit \/ \E n \in Names : CrashAfterSpawn(n) \/ CrashInPersist(n)
  PROVE  JInv'
<1>1. Vanish
  BY DEF Crash, ShutdownExit, CrashAfterSpawn, CrashInPersist
<1>2. \A c \in Procs : rpc'[c].pc = "idle" /\ rpc'[c].op = "stop"
  BY <1>1 DEF Vanish, NoRpc, Procs
<1>3. \A r \in Runs : run'[r].pc \notin Active
  BY <1>1 DEF Vanish, NoRun, Active, Waiting
<1>4. \A n \in Names : programs'[n] = None
  BY <1>1 DEF Vanish
<1>5. phase' = "down" /\ bootWrite' = None
  BY <1>1 DEF Vanish
<1>6. NoRemove' /\ NoOrphanRun' /\ Recording' /\ Marshalled'
  BY <1>2, <1>3, <1>4, <1>5 DEF NoRemove, NoOrphanRun, Recording, Marshalled
<1>7. Stops'
  BY <1>2 DEF Stops, StopOK, Procs
<1> QED BY <1>6, <1>7 DEF JInv

\* NewManager loads what the files say.
LEMMA BootLoadKeeps ==
  ASSUME IInv, JInv, BootLoad
  PROVE  JInv'
<1> DEFINE readable == {n \in Names : disk[n] \notin {None, Broken}}
           Fresh(n) == [name |-> n, spec |-> disk[n].spec, state |-> "Configured",
                        pid |-> 0, health |-> "", ready |-> FALSE,
                        desired |-> disk[n].desired, run |-> None]
<1>1. PICK f \in [readable -> Objs] :
        /\ \A m, n \in readable : f[m] = f[n] => m = n
        /\ programs' = [n \in Names |-> IF n \in readable THEN f[n] ELSE None]
        /\ obj' = [o \in Objs |-> IF \E n \in readable : f[n] = o
                                   THEN Fresh(CHOOSE m \in readable : f[m] = o)
                                   ELSE None]
  BY DEF BootLoad
<1>2. phase = "down" /\ phase' = "boot" /\ UNCHANGED <<run, lmon, rmon, rpc, disk, bootWrite>>
  BY DEF BootLoad
<1>3. \A n \in readable : disk[n] \in Meta
  BY DEF IInv, TypeOK
<1>4. \A n \in readable : Fresh(n).spec = disk[n].spec /\ Fresh(n).desired = disk[n].desired
  OBVIOUS
<1> HIDE DEF Fresh
<1>5. \A n \in readable : (CHOOSE m \in readable : f[m] = f[n]) = n
  BY <1>1
<1>6. \A n \in readable : obj'[f[n]] = Fresh(n)
  BY <1>1, <1>5
<1>7. NoRemove'
  BY <1>2 DEF JInv, NoRemove
<1>8. NoOrphanRun'
  BY <1>2 DEF IInv, References, DownRefs, InUse, NoOrphanRun, Active, Waiting
<1>9. Stops'
  BY <1>2 DEF IInv, References, DownRefs, Procs, Stops, StopOK
<1>10. Recording'
  <2> SUFFICES ASSUME NEW n \in Names, programs'[n] # None PROVE Recorded(n)'
    BY DEF Recording
  <2>1. n \in readable /\ programs'[n] = f[n]
    BY <1>1
  <2>2. obj'[programs'[n]].spec = disk[n].spec /\ obj'[programs'[n]].desired = disk[n].desired
    BY <2>1, <1>4, <1>6
  <2> QED BY <2>1, <2>2, <1>2, <1>3 DEF Recorded, Matches
<1>11. Marshalled'
  BY <1>2 DEF JInv, Marshalled
<1> QED BY <1>7, <1>8, <1>9, <1>10, <1>11 DEF JInv

\* There is one program to start next.
LEMMA OneFirst ==
  ASSUME IInv, phase = "boot", NEW m \in Names, NEW n \in Names, First(m), First(n)
  PROVE  m = n
<1>1. /\ obj[programs[m]].spec.order \in Nat /\ obj[programs[n]].spec.order \in Nat
      /\ m \in Nat /\ n \in Nat
  BY SupervisorAssumptions DEF First, IInv, References, BootRefs, MapRefs, Obj, SpecType
<1> QED BY <1>1 DEF First, StartsBefore

\* NewManager persists a program it has started, in two steps.
LEMMA BootWriteKeeps ==
  ASSUME IInv, JInv, IInv', NEW n \in Names, BootMarshal(n) \/ BootPersist(n)
  PROVE  JInv'
<1>1. /\ phase = "boot" /\ UNCHANGED <<phase, programs, obj, run, lmon, rmon, rpc, owner>>
      /\ First(n)
  BY DEF BootMarshal, BootPersist, First
<1>2. programs[n] # None
  BY <1>1 DEF IInv, References, BootRefs, First
<1>3. NoRemove' /\ NoOrphanRun'
  BY <1>1 DEF JInv, NoRemove, NoOrphanRun
<1>4. Stops'
  BY <1>1 DEF IInv, References, DownRefs, Procs, Stops, StopOK
<1>5. CASE BootMarshal(n)
  <2>1. UNCHANGED <<disk, todo>> /\ bootWrite' = MetaOf(obj[programs[n]])
    BY <1>5 DEF BootMarshal
  <2>2. Recording'
    BY <2>1, <1>1 DEF JInv, Recording, Recorded, Matches, Steady
  <2>3. Marshalled'
    <3> SUFFICES ASSUME NEW m \in Names, First(m)' PROVE Matches(bootWrite', obj[programs[m]])
      BY <1>1 DEF Marshalled, Matches, Steady
    <3>1. First(m)
      BY <2>1, <1>1 DEF First, StartsBefore
    <3>2. m = n
      BY <3>1, <1>1, OneFirst
    <3> QED BY <3>2, <2>1 DEF Matches, MetaOf
  <2> QED BY <1>3, <1>4, <2>2, <2>3 DEF JInv
<1>6. CASE BootPersist(n)
  <2>1. /\ bootWrite # None /\ disk' = [disk EXCEPT ![n] = bootWrite] /\ bootWrite' = None
        /\ todo' = todo \ {n}
    BY <1>6 DEF BootPersist
  <2>2. disk'[n] = bootWrite /\ bootWrite \in Meta /\ \A m \in Names \ {n} : disk'[m] = disk[m]
    BY <2>1 DEF IInv, TypeOK
  <2>3. Matches(bootWrite, obj[programs[n]])
    BY <2>1, <1>1 DEF JInv, Marshalled
  <2>4. Recording'
    <3> SUFFICES ASSUME NEW m \in Names, programs[m] # None PROVE Recorded(m)'
      BY <1>1 DEF Recording
    <3>1. CASE m = n
      BY <3>1, <2>2, <2>3, <1>1 DEF Recorded, Matches, Steady
    <3>2. CASE m # n
      BY <3>2, <2>1, <2>2, <1>1, OthersRecorded
    <3> QED BY <3>1, <3>2
  <2>5. Marshalled'
    BY <2>1, <1>1 DEF Marshalled
  <2> QED BY <1>3, <1>4, <2>4, <2>5 DEF JInv
<1> QED BY <1>5, <1>6

----------------------------------------------------------------------------
(* The theorems that hold as long as nobody calls Remove *)

\* The agent starts with nothing installed.
LEMMA InitJInv == Init => JInv
<1> SUFFICES ASSUME Init PROVE JInv
  OBVIOUS
<1>1. \A c \in Procs : rpc[c].pc = "idle" /\ rpc[c].op = "stop"
  BY DEF Init, NoRpc, Procs
<1>2. \A r \in Runs : run[r].pc \notin Active
  BY DEF Init, NoRun, Active, Waiting
<1>3. NoRemove /\ NoOrphanRun /\ Recording /\ Marshalled
  BY <1>1, <1>2 DEF Init, NoRemove, NoOrphanRun, Recording, Marshalled
<1>4. Stops
  BY <1>1 DEF Stops, StopOK, Procs
<1> QED BY <1>3, <1>4 DEF JInv

\* Every step but a Remove preserves the second invariant.
LEMMA NextJInv ==
  ASSUME "remove" \notin Ops
  PROVE  IInv /\ JInv /\ [Next]_vars => JInv'
<1> SUFFICES ASSUME IInv, JInv, [Next]_vars PROVE JInv'
  OBVIOUS
<1>1. IInv'
  BY NextIInv
<1>2. CASE Handlers
  <2>1. ASSUME NEW n \in Names, NEW s \in Specs, Install(n, s) PROVE JInv'
    BY <1>1, <2>1, InstallKeeps
  <2>2. ASSUME NEW n \in Names, Start(n) \/ StartFails(n) PROVE JInv'
    BY <1>1, <2>2, StartKeeps
  <2>3. ASSUME NEW c \in Clients, NEW n \in Names, NEW op \in Ops, StopBegin(c, n, op)
        PROVE  JInv'
    BY <1>1, <2>3, StopBeginKeeps
  <2>4. ASSUME NEW c \in Procs,
               \/ TerminateLookup(c) \/ TerminateCancel(c) \/ TerminateDone(c)
               \/ TerminateTimeout(c) \/ TerminateReturn(c)
        PROVE  JInv'
    BY <1>1, <2>4, TerminateKeeps
  <2> QED BY <1>2, <2>1, <2>2, <2>3, <2>4 DEF Handlers, Procs
<1>3. ASSUME NEW r \in Runs, Supervise(r) \/ Monitor(r) PROVE JInv'
  BY <1>1, <1>3, SuperviseKeeps, MonitorKeeps
<1>4. CASE Lifecycle
  <2>1. CASE Drain \/ ShutdownBegin \/ BootDone
    BY <1>1, <2>1, PhaseKeeps
  <2>2. CASE Crash \/ ShutdownExit
    BY <2>2, CrashKeeps
  <2>3. CASE BootLoad
    BY <2>3, BootLoadKeeps
  <2>4. ASSUME NEW n \in Names, CrashAfterSpawn(n) \/ CrashInPersist(n) PROVE JInv'
    BY <2>4, CrashKeeps
  <2>5. ASSUME NEW n \in Names, ShutdownTerminate(n) PROVE JInv'
    BY <1>1, <2>5, ShutdownKeeps
  <2>6. ASSUME NEW n \in Names, BootStart(n) \/ BootStartFails(n) PROVE JInv'
    BY <1>1, <2>6, BootStartKeeps
  <2>7. ASSUME NEW n \in Names, BootMarshal(n) \/ BootPersist(n) PROVE JInv'
    BY <1>1, <2>7, BootWriteKeeps
  <2> QED BY <1>4, <2>1, <2>2, <2>3, <2>4, <2>5, <2>6, <2>7 DEF Lifecycle
<1>5. CASE (\E p \in Pids : ProcessExits(p)) \/ UNCHANGED vars
  BY <1>1, <1>5, PhaseKeeps
<1> QED BY <1>2, <1>3, <1>4, <1>5 DEF Next

\* Both inductive invariants hold throughout.
LEMMA BothHold ==
  ASSUME "remove" \notin Ops
  PROVE  Spec => [](IInv /\ JInv)
<1>1. IInv /\ JInv /\ [Next]_vars => JInv'
  BY NextJInv
<1> QED BY <1>1, InitIInv, NextIInv, InitJInv, PTL DEF Spec

\* A Stop that succeeds, and that no Start overlaps, leaves its program stopped
\* for good (Stop, terminate): what it found under the name and what the name
\* maps to when it returns.
THEOREM StoppedStaysStopped ==
  ASSUME "remove" \notin Ops
  PROVE  Spec => []StopHolds
<1>1. IInv /\ JInv => StopHolds
  <2> SUFFICES ASSUME IInv, JInv, NEW c \in Clients, rpc[c].pc = "ok", ~rpc[c].raced
               PROVE  /\ obj[rpc[c].obj].state # "Running"
                      /\ obj[rpc[c].obj].desired = "Stopped"
                      /\ programs[rpc[c].name] # None
                           => obj[programs[rpc[c].name]].state # "Running"
    BY DEF StopHolds
  <2>1. /\ rpc[c].obj \in Objs /\ obj[rpc[c].obj] \in Obj /\ obj[rpc[c].obj].name = rpc[c].name
        /\ obj[rpc[c].obj].desired = "Stopped" /\ \A b \in Objs : ~Up(b, rpc[c].name)
    BY DEF JInv, Stops, StopOK
  <2>2. obj[rpc[c].obj].state # "Running"
    BY <2>1, NilIsNoObject DEF Up
  <2>3. ASSUME programs[rpc[c].name] # None PROVE obj[programs[rpc[c].name]].state # "Running"
    <3>1. rpc[c].name \in Names
      BY DEF IInv, References, RpcRefs, Procs
    <3>2. /\ programs[rpc[c].name] \in Objs /\ obj[programs[rpc[c].name]] \in Obj
          /\ obj[programs[rpc[c].name]].name = rpc[c].name
      BY <2>3, <3>1 DEF IInv, TypeOK, References, MapRefs
    <3> QED BY <2>1, <3>2, NilIsNoObject DEF Up
  <2> QED BY <2>1, <2>2, <2>3
<1> QED BY <1>1, BothHold, PTL

\* Every process the agent supervises belongs to a program List, Stop and
\* Shutdown can reach (Install replaces no running program).
THEOREM NoProcessIsLost ==
  ASSUME "remove" \notin Ops
  PROVE  Spec => []NoOrphanRun
<1>1. IInv /\ JInv => NoOrphanRun
  BY DEF JInv
<1> QED BY <1>1, BothHold, PTL

\* Whenever the agent serves, a crash loses no acknowledged Install, Start or
\* Stop: meta.json says what memory says (persistLocked, NewManager).
THEOREM AcknowledgedIsDurable ==
  ASSUME "remove" \notin Ops
  PROVE  Spec => []DesiredIsDurable
<1>1. IInv /\ JInv => DesiredIsDurable
  BY NoFileIsNoMeta DEF JInv, Recording, Recorded, Matches, Steady, DesiredIsDurable
<1> QED BY <1>1, BothHold, PTL

\* Nothing a shutdown does turns a desired state on disk into Stopped, except
\* the completion of a oneshot (Shutdown, supervise).
THEOREM ShutdownIsNoStop ==
  ASSUME "remove" \notin Ops
  PROVE  Spec => ShutdownKeepsDesired
<1> DEFINE Keeps(n) == disk[n] \notin {None, Broken} /\ disk'[n] \notin {None, Broken} =>
                         \/ disk'[n].desired = disk[n].desired
                         \/ disk[n].spec.type = "oneshot" /\ disk'[n].desired = "Stopped"
           Kept == phase = "shutdown" => \A n \in Names : Keeps(n)
<1>1. ASSUME IInv, JInv, phase = "shutdown", NEW r \in Runs, run[r].pc \in Active, NEW y \in Obj,
             y.name = obj[run[r].obj].name, disk' = Persist(y),
             \/ y.desired = obj[run[r].obj].desired
             \/ y.desired = "Stopped" /\ obj[run[r].obj].spec.type = "oneshot",
             NEW n \in Names
      PROVE  Keeps(n)
  <2> DEFINE o == run[r].obj
  <2>1. o \in Objs /\ obj[o] \in Obj /\ obj[o].state = "Running" /\ programs[obj[o].name] = o
    BY <1>1 DEF IInv, SupervisionInv, RunServesItsProgram, JInv, NoOrphanRun
  <2>2. obj[o].name \in Names
    BY <2>1 DEF Obj
  <2>3. disk[obj[o].name].spec = obj[o].spec /\ disk[obj[o].name].desired = obj[o].desired
    BY <1>1, <2>1, <2>2, SupervisorAssumptions DEF JInv, Recording, Recorded, Matches, Steady
  <2>4. disk'[n] = disk[n] \/ (n = obj[o].name /\ disk'[n].desired = y.desired)
    BY <1>1 DEF Persist, MetaOf, IInv, TypeOK
  <2> QED BY <1>1, <2>3, <2>4
<1>2. ASSUME IInv, JInv, [Next]_vars, phase = "shutdown", NEW n \in Names
      PROVE  Keeps(n)
  <2>1. ASSUME NEW r \in Runs, SuperviseExited(r) PROVE Keeps(n)
    <3> DEFINE o == run[r].obj
    <3>1. run[r].pc \in Active /\ run[r].cancelled \in BOOLEAN
      BY <1>2, <2>1 DEF SuperviseExited, Active, IInv, TypeOK, Run
    <3>2. o \in Objs /\ obj[o] \in Obj /\ obj[o].state = "Running"
      BY <1>2, <3>1 DEF IInv, SupervisionInv, RunServesItsProgram
    <3>3. PICK failed \in BOOLEAN : disk' = Persist(AfterExit(obj[o], run[r].cancelled, failed))
      BY <2>1 DEF SuperviseExited
    <3>4. PICK y : y = AfterExit(obj[o], run[r].cancelled, failed)
      OBVIOUS
    <3>5. y \in Obj /\ y.name = obj[o].name
      BY <3>1, <3>2, <3>4, AfterExitFields
    <3>6. y.desired = obj[o].desired \/ (y.desired = "Stopped" /\ obj[o].spec.type = "oneshot")
      BY <3>1, <3>2, <3>4 DEF AfterExit, StateAfter, DesiredAfter, Restarts, Halted, Obj
    <3> QED BY <1>1, <1>2, <3>1, <3>3, <3>4, <3>5, <3>6
  <2>2. ASSUME NEW r \in Runs, SuperviseRespawned(r) PROVE Keeps(n)
    <3> DEFINE o == run[r].obj
    <3>1. run[r].pc \in Active /\ run[r] \in Run
      BY <1>2, <2>2 DEF SuperviseRespawned, Active, IInv, TypeOK
    <3>2. o \in Objs /\ obj[o] \in Obj
      BY <1>2, <3>1 DEF IInv, SupervisionInv, RunServesItsProgram
    <3>3. PICK y : y = Respawned(obj[o], run[r].pid)
      OBVIOUS
    <3>4. disk' = Persist(y)
      BY <2>2, <3>3 DEF SuperviseRespawned
    <3>5. y \in Obj /\ y.name = obj[o].name /\ y.desired = obj[o].desired
      BY <3>1, <3>2, <3>3, SupervisorAssumptions DEF Respawned, Obj, States, Run, SpecType
    <3> QED BY <1>1, <1>2, <3>1, <3>4, <3>5
  <2>3. ASSUME NEW c \in Procs, TerminateReturn(c) PROVE disk' = disk
    BY <1>2, <2>3 DEF TerminateReturn, JInv, NoRemove
  <2>4. ASSUME NEW m \in Names, CrashInPersist(m) PROVE Keeps(n)
    BY <1>2, <2>4 DEF CrashInPersist, IInv, TypeOK
  <2>5. CASE UNCHANGED disk
    BY <2>5
  <2>6. CASE Handlers
    BY <1>2, <2>3, <2>5, <2>6
       DEF Handlers, Procs, Install, Start, StartFails, StopBegin, TerminateLookup, TerminateCancel,
           TerminateDone, TerminateTimeout
  <2>7. ASSUME NEW r \in Runs, Supervise(r) \/ Monitor(r) PROVE Keeps(n)
    BY <2>1, <2>2, <2>5, <2>7
       DEF Supervise, SuperviseTerm, SuperviseKill, SuperviseCancelled, SuperviseSpawn,
           SuperviseSpawnFails, Monitor, MonitorEnds, LivenessTick, LivenessProbe, LivenessPasses,
           LivenessFails, ReadinessTick, ReadinessProbe, ReadinessVerdict
  <2>8. CASE Lifecycle
    BY <1>2, <2>4, <2>5, <2>8
       DEF Lifecycle, Drain, ShutdownBegin, ShutdownExit, Crash, BootLoad, BootDone,
           ShutdownTerminate, CrashAfterSpawn, BootStart, BootStartFails, BootMarshal, BootPersist
  <2>9. CASE (\E p \in Pids : ProcessExits(p)) \/ UNCHANGED vars
    BY <2>5, <2>9 DEF ProcessExits, vars
  <2> QED BY <1>2, <2>6, <2>7, <2>8, <2>9 DEF Next
<1>3. IInv /\ JInv /\ [Next]_vars => [Kept]_vars
  BY <1>2
<1> QED BY <1>3, BothHold, PTL DEF Spec, ShutdownKeepsDesired

=============================================================================
