---------------------------- MODULE SandboxPool ----------------------------
(***************************************************************************)
(* ContainerPool and DockerSandboxAdapter: execute() borrows a container   *)
(* from the pool of idle ones or creates one, runs a tool in it and gives  *)
(* it back.  Every await is a request to the Docker daemon; concurrent     *)
(* calls, a drain, container crashes and removals from outside interleave  *)
(* there, and the daemon may fail a request.                               *)
(*                                                                         *)
(* A daemon request is one action: its effect and the code that its answer *)
(* lets run up to the next request.                                        *)
(***************************************************************************)
EXTENDS Integers, Sequences, FiniteSets

CONSTANTS
  Calls,         \* execute() calls that can be in flight at once
  Configs,       \* container configurations that permission scopes ask for
  MaxContainers, \* bound on the containers in existence
  MaxSize,       \* poolSize: how many idle containers the pool keeps
  MaxFaults,     \* bound on the requests the daemon fails
  None           \* null: no container

Containers == 1 .. MaxContainers

ASSUME ConstantsAssumption ==
  /\ MaxContainers \in Nat
  /\ MaxSize \in Nat
  /\ MaxFaults \in Nat
  /\ None \notin Nat
  /\ Configs # {}

VARIABLES
  available,     \* ContainerPool.available, the idle containers
  docker,        \* the daemon: container -> its state
  made,          \* the daemon: container -> the configuration it was created with
  pc,            \* call -> where its execute() is
  held,          \* call -> the container it has in hand
  want,          \* call -> the configuration its scopes ask for
  tool,          \* call -> whether the tool it started is running
  stray,         \* containers in which a tool runs that its call has given up on
  drained,       \* the container drain() is removing, None when none runs
  faults         \* requests the daemon has failed

callVars == <<pc, held, want, tool>>
vars == <<available, docker, made, pc, held, want, tool, stray, drained, faults>>

Places == {"idle", "inspect", "restart", "create", "start", "exec", "run", "exitCode", "remove"}

\* Idle containers are known ones, and every part of the state is well formed.
TypeOK ==
  /\ available \in Seq(Containers)
  /\ docker \in [Containers -> {"absent", "created", "running", "stopped"}]
  /\ made \in [Containers -> Configs]
  /\ pc \in [Calls -> Places]
  /\ held \in [Calls -> Containers \cup {None}]
  /\ want \in [Calls -> Configs]
  /\ tool \in [Calls -> BOOLEAN]
  /\ stray \subseteq Containers
  /\ drained \in Containers \cup {None}
  /\ faults \in 0 .. MaxFaults

AnyConfig == CHOOSE g \in Configs : TRUE

Init ==
  /\ available = <<>>
  /\ docker = [k \in Containers |-> "absent"]
  /\ made = [k \in Containers |-> AnyConfig]
  /\ pc = [c \in Calls |-> "idle"]
  /\ held = [c \in Calls |-> None]
  /\ want = [c \in Calls |-> AnyConfig]
  /\ tool = [c \in Calls |-> FALSE]
  /\ stray = {}
  /\ drained = None
  /\ faults = 0

-----------------------------------------------------------------------------
Pooled == {available[n] : n \in 1 .. Len(available)}

\* Referred to by the pool, by a call or by drain().
Known(k) == k \in Pooled \/ k = drained \/ \E c \in Calls : held[c] = k

\* Docker never uses an id twice.  The model reuses those nothing refers to.
Fresh(k) ==
  LET free == {j \in Containers : docker[j] = "absent" /\ ~ Known(j)}
  IN k \in free /\ \A j \in free : k <= j

Last == available[Len(available)]

\* available.pop()
Pop == available' = SubSeq(available, 1, Len(available) - 1)

Goto(c, place) == pc' = [pc EXCEPT ![c] = place]

\* The daemon fails a request.
Fault == faults < MaxFaults /\ faults' = faults + 1

\* The container's processes are gone with it.
Kill(k) ==
  /\ tool' = [c \in Calls |-> tool[c] /\ held[c] # k]
  /\ stray' = stray \ {k}

\* Mutant: the pool keeps one container too many.
ReleaseOver(c) ==
  IF Len(available) <= MaxSize
  THEN /\ available' = Append(available, held[c])
       /\ held' = [held EXCEPT ![c] = None]
       /\ Goto(c, "idle")
  ELSE Goto(c, "remove") /\ UNCHANGED <<available, held>>

\* The finally block, in the turn that ends the call: release() puts the container
\* into the pool, or, if the pool is full, asks the daemon to remove it.
Release(c) ==
  IF Len(available) < MaxSize
  THEN /\ available' = Append(available, held[c])
       /\ held' = [held EXCEPT ![c] = None]
       /\ Goto(c, "idle")
  ELSE Goto(c, "remove") /\ UNCHANGED <<available, held>>

-----------------------------------------------------------------------------
(* execute() *)

\* A tool id that does not match the pattern is rejected here, with no effect.
StartPooled(c, config) ==
  /\ pc[c] = "idle"
  /\ available # <<>>
  /\ held' = [held EXCEPT ![c] = Last]
  /\ Pop
  /\ want' = [want EXCEPT ![c] = config]
  /\ Goto(c, "inspect")
  /\ UNCHANGED <<docker, made, tool, stray, drained, faults>>

StartEmpty(c, config) ==
  /\ pc[c] = "idle"
  /\ available = <<>>
  /\ want' = [want EXCEPT ![c] = config]
  /\ Goto(c, "create")
  /\ UNCHANGED <<available, docker, made, held, tool, stray, drained, faults>>

\* inspect() of the popped container: running, stopped or unknown to Docker.
\* An unknown one is let go of and another is created.
Inspect(c) ==
  /\ pc[c] = "inspect"
  /\ IF docker[held[c]] = "absent"
     THEN Goto(c, "create") /\ held' = [held EXCEPT ![c] = None]
     ELSE /\ Goto(c, IF docker[held[c]] = "running" THEN "exec" ELSE "restart")
          /\ UNCHANGED held
  /\ UNCHANGED <<available, docker, made, want, tool, stray, drained, faults>>

Restart(c) ==
  /\ pc[c] = "restart"
  /\ IF docker[held[c]] = "absent"
     THEN /\ Goto(c, "create")
          /\ held' = [held EXCEPT ![c] = None]
          /\ UNCHANGED docker
     ELSE /\ Goto(c, "exec")
          /\ docker' = [docker EXCEPT ![held[c]] = "running"]
          /\ UNCHANGED held
  /\ UNCHANGED <<available, made, want, tool, stray, drained, faults>>

\* inspect() or start() fails although the container exists: acquire takes it
\* for gone, and nothing refers to it any more.
PooledFault(c) ==
  /\ pc[c] \in {"inspect", "restart"}
  /\ Fault
  /\ held' = [held EXCEPT ![c] = None]
  /\ Goto(c, "create")
  /\ UNCHANGED <<available, docker, made, want, tool, stray, drained>>

Create(c) ==
  /\ pc[c] = "create"
  /\ \E k \in Containers :
       /\ Fresh(k)
       /\ docker' = [docker EXCEPT ![k] = "created"]
       /\ made' = [made EXCEPT ![k] = want[c]]
       /\ held' = [held EXCEPT ![c] = k]
  /\ Goto(c, "start")
  /\ UNCHANGED <<available, want, tool, stray, drained, faults>>

\* createContainer() fails, or its answer is lost after Docker made one.
CreateFault(c) ==
  /\ pc[c] = "create"
  /\ Fault
  /\ \/ UNCHANGED <<docker, made>>
     \/ \E k \in Containers :
          /\ Fresh(k)
          /\ docker' = [docker EXCEPT ![k] = "created"]
          /\ made' = [made EXCEPT ![k] = want[c]]
  /\ Goto(c, "idle")
  /\ UNCHANGED <<available, held, want, tool, stray, drained>>

\* start() of the new container.  One removed meanwhile cannot start: acquire
\* throws, and execute() has no container to release.
StartNew(c) ==
  /\ pc[c] = "start"
  /\ IF docker[held[c]] = "absent"
     THEN /\ Goto(c, "idle")
          /\ held' = [held EXCEPT ![c] = None]
          /\ UNCHANGED docker
     ELSE /\ Goto(c, "exec")
          /\ docker' = [docker EXCEPT ![held[c]] = "running"]
          /\ UNCHANGED held
  /\ UNCHANGED <<available, made, want, tool, stray, drained, faults>>

\* Mutant: the finally block releases whatever it has, a container or null.
StartFaultReleasing(c) ==
  /\ pc[c] = "start"
  /\ Fault
  /\ available' = Append(available, None)
  /\ held' = [held EXCEPT ![c] = None]
  /\ Goto(c, "idle")
  /\ UNCHANGED <<docker, made, want, tool, stray, drained>>

\* The same for a start() that the daemon fails, but the container exists.
StartFault(c) ==
  /\ pc[c] = "start"
  /\ Fault
  /\ Goto(c, "idle")
  /\ held' = [held EXCEPT ![c] = None]
  /\ UNCHANGED <<available, docker, made, want, tool, stray, drained>>

\* Mutant: a container that has stopped is started again, and the tool tried again.
ExecAgain(c) ==
  /\ pc[c] = "exec"
  /\ IF docker[held[c]] = "running"
     THEN Goto(c, "run") /\ tool' = [tool EXCEPT ![c] = TRUE]
     ELSE Goto(c, "restart") /\ UNCHANGED tool
  /\ UNCHANGED <<available, docker, made, held, want, stray, drained, faults>>

\* exec() and exec.start(): the tool runs, unless the container stopped since.
Exec(c) ==
  /\ pc[c] = "exec"
  /\ IF docker[held[c]] = "running"
     THEN Goto(c, "run") /\ tool' = [tool EXCEPT ![c] = TRUE] /\ UNCHANGED <<available, held>>
     ELSE Release(c) /\ UNCHANGED tool
  /\ UNCHANGED <<docker, made, want, stray, drained, faults>>

\* They fail, perhaps after the tool was started.
ExecFault(c) ==
  /\ pc[c] = "exec"
  /\ Fault
  /\ \/ UNCHANGED stray
     \/ docker[held[c]] = "running" /\ stray' = stray \cup {held[c]}
  /\ Release(c)
  /\ UNCHANGED <<docker, made, want, tool, drained>>

\* Mutant: a time limit ends the reading of the stream, but not the tool.
StreamEndTimed(c) ==
  /\ pc[c] = "run"
  /\ stray' = IF tool[c] THEN stray \cup {held[c]} ELSE stray
  /\ tool' = [tool EXCEPT ![c] = FALSE]
  /\ Goto(c, "exitCode")
  /\ UNCHANGED <<available, docker, made, held, want, drained, faults>>

\* The output stream ends with the tool.  There is no time limit on it.
StreamEnd(c) ==
  /\ pc[c] = "run"
  /\ ~ tool[c]
  /\ Goto(c, "exitCode")
  /\ UNCHANGED <<available, docker, made, held, want, tool, stray, drained, faults>>

\* The stream breaks and the call gives up, whether or not the tool still runs.
StreamFault(c) ==
  /\ pc[c] = "run"
  /\ Fault
  /\ stray' = IF tool[c] THEN stray \cup {held[c]} ELSE stray
  /\ tool' = [tool EXCEPT ![c] = FALSE]
  /\ Release(c)
  /\ UNCHANGED <<docker, made, want, drained>>

\* Mutant: a failed tool ends the call at once, without the finally block.
ExitCodeThrowing(c) ==
  /\ pc[c] = "exitCode"
  /\ \/ Release(c)
     \/ Goto(c, "idle") /\ held' = [held EXCEPT ![c] = None] /\ UNCHANGED available
  /\ UNCHANGED <<docker, made, want, tool, stray, drained, faults>>

\* exec.inspect() answers with an exit code or fails: the result or an error
\* for the caller, and the finally block in either case.
ExitCode(c) ==
  /\ pc[c] = "exitCode"
  /\ Release(c)
  /\ UNCHANGED <<docker, made, want, tool, stray, drained, faults>>

\* The answer to the removal of a container that the pool had no room for.
Remove(c) ==
  /\ pc[c] = "remove"
  /\ docker' = [docker EXCEPT ![held[c]] = "absent"]
  /\ Kill(held[c])
  /\ held' = [held EXCEPT ![c] = None]
  /\ Goto(c, "idle")
  /\ UNCHANGED <<available, made, want, drained, faults>>

\* A removal that fails is ignored.
RemoveFault(c) ==
  /\ pc[c] = "remove"
  /\ Fault
  /\ held' = [held EXCEPT ![c] = None]
  /\ Goto(c, "idle")
  /\ UNCHANGED <<available, docker, made, want, tool, stray, drained>>

-----------------------------------------------------------------------------
(* drainPool(), the tools and what happens to containers from outside *)

\* Mutant: drain() takes a container out of the pool when it has been removed.
DrainNextPeek ==
  IF available = <<>>
  THEN drained' = None /\ UNCHANGED available
  ELSE drained' = Last /\ UNCHANGED available

\* The loop of drain(), from one removal to the next.
DrainNext ==
  IF available = <<>>
  THEN drained' = None /\ UNCHANGED available
  ELSE drained' = Last /\ Pop

DrainStart ==
  /\ drained = None
  /\ available # <<>>
  /\ DrainNext
  /\ UNCHANGED <<docker, made, callVars, stray, faults>>

DrainRemove ==
  /\ drained # None
  /\ docker' = [docker EXCEPT ![drained] = "absent"]
  /\ Kill(drained)
  /\ DrainNext
  /\ UNCHANGED <<made, pc, held, want, faults>>

\* A removal that fails is ignored.
DrainFault ==
  /\ drained # None
  /\ Fault
  /\ DrainNext
  /\ UNCHANGED <<docker, made, callVars, stray>>

\* A tool ends by itself, if it ends.
ToolEnds(c) ==
  /\ tool[c]
  /\ tool' = [tool EXCEPT ![c] = FALSE]
  /\ UNCHANGED <<available, docker, made, pc, held, want, stray, drained, faults>>

StrayEnds(k) ==
  /\ k \in stray
  /\ stray' = stray \ {k}
  /\ UNCHANGED <<available, docker, made, callVars, drained, faults>>

\* A running container stops: out of memory, killed, the daemon restarted.
ContainerStops(k) ==
  /\ docker[k] = "running"
  /\ docker' = [docker EXCEPT ![k] = "stopped"]
  /\ Kill(k)
  /\ UNCHANGED <<available, made, pc, held, want, drained, faults>>

\* teardown(), or a removal by hand: the pool is not told.
Teardown(k) ==
  /\ docker[k] # "absent"
  /\ docker' = [docker EXCEPT ![k] = "absent"]
  /\ Kill(k)
  /\ UNCHANGED <<available, made, pc, held, want, drained, faults>>

-----------------------------------------------------------------------------
\* What a call does when the daemon serves its requests.
Step(c) ==
  \/ Inspect(c) \/ Restart(c) \/ Create(c) \/ StartNew(c) \/ Exec(c)
  \/ StreamEnd(c) \/ ExitCode(c) \/ Remove(c)

StepFault(c) ==
  \/ PooledFault(c) \/ CreateFault(c) \/ StartFault(c) \/ ExecFault(c)
  \/ StreamFault(c) \/ RemoveFault(c)

Drain == DrainStart \/ DrainRemove \/ DrainFault

Next ==
  \/ \E c \in Calls :
       \/ \E config \in Configs : StartPooled(c, config) \/ StartEmpty(c, config)
       \/ Step(c)
       \/ StepFault(c)
       \/ ToolEnds(c)
  \/ Drain
  \/ \E k \in Containers : StrayEnds(k) \/ ContainerStops(k) \/ Teardown(k)

Spec == Init /\ [][Next]_vars

\* The daemon answers and the event loop runs what its answers allow.  Nothing
\* is assumed of the tools: they may run for ever.
FairSpec == Spec /\ \A c \in Calls : WF_vars(Step(c))

-----------------------------------------------------------------------------
(* Properties *)

\* A call has a container in hand exactly between acquiring and releasing it, a
\* tool of its own only while it reads the output stream.
InHand ==
  /\ \A c \in Calls : held[c] = None <=> pc[c] \in {"idle", "create"}
  /\ \A c \in Calls : tool[c] => pc[c] = "run" /\ docker[held[c]] = "running"

\* A container serves one purpose at a time: it is in the hands of one call, or
\* idle in the pool (once), or being removed by drain().
Exclusive ==
  /\ \A c, d \in Calls : held[c] # None /\ held[c] = held[d] => c = d
  /\ \A m, n \in 1 .. Len(available) : available[m] = available[n] => m = n
  /\ \A c \in Calls : held[c] \notin Pooled
  /\ drained # None => drained \notin Pooled /\ \A c \in Calls : held[c] # drained

\* The pool never keeps more than poolSize idle containers, however many calls
\* give theirs back at once.
PoolBounded == Len(available) <= MaxSize

\* Containers that exist and that nothing will ever use or remove.
Orphans == {k \in Containers : docker[k] # "absent" /\ ~ Known(k)}

\* Containers are lost only where the daemon failed a request, one for each.
OrphansFromFaults == Cardinality(Orphans) <= faults

\* Containers in which the tool of one call runs beside one that another has given up on.
Crowded == {k \in stray : \E c \in Calls : tool[c] /\ held[c] = k}

\* A tool has its container to itself, although containers are used again: at most one
\* container for each request that the daemon failed ever has two tools running in it.
CrowdedFromFaults == Cardinality(Crowded) <= faults

\* A call whose tool has ended, or has not started, comes to start it or to its
\* end: it never waits for another call, for the drain or for a container.
CallProgress ==
  \A c \in Calls : (pc[c] # "idle" /\ ~ tool[c]) ~> (pc[c] = "idle" \/ tool[c])

\* docker-sandbox.test.ts, "should apply NetworkDisabled: false when
\* network:egress scope is present": a tool runs in a container configured for
\* the scopes of its own call.  Not so in a container taken from the pool.
ConfiguredForCall == \A c \in Calls : tool[c] => made[held[c]] = want[c]
=============================================================================
