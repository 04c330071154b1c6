----------------------------- MODULE Deployment ------------------------------
(***************************************************************************)
(* What the wizard does for one run (context.py, services.py,              *)
(* configuration.py and deployment/): it assigns ports that are free, for  *)
(* telemetry and for the containers of both ways to deploy, writes where   *)
(* the services are, and on SLURM launches a job step per container, again *)
(* for those that do not answer in time, then the runtime, and cancels the *)
(* others when that ends: it signals them, if scancel works, and does not  *)
(* wait.                                                                   *)
(*                                                                         *)
(* A container is <<service, number>>; its copies listen on one port each. *)
(* Anybody else on the machine may take a free port at any time.           *)
(***************************************************************************)
EXTENDS Integers, Sequences, FiniteSets, FiniteSetsExt, SequencesExt

CONSTANTS
  Plans,          \* configurations of the wizard, see DeployAssumption
  TelemetryPorts, \* workers and the telemetry services, that of prometheus first
  BasePort,       \* wizard.baseport
  LastPort,       \* the last one that exists
  Timeout,        \* wizard.timeout, in polls
  SceneIds,       \* the scenes of the run
  MaxForeign,     \* bound: ports taken by others
  MaxCrashes      \* bound: steps that die by themselves

ASSUME DeployAssumption ==
  /\ BasePort \in Nat /\ LastPort \in Nat /\ Timeout \in Nat /\ TelemetryPorts > 0
  /\ IsFiniteSet(SceneIds)
  /\ \A plan \in Plans :
       /\ plan.method \in {"slurm", "docker", "none"} /\ plan.retries > 0
       /\ plan.mode \in {"oneshot", "server"} /\ plan.runtime \in BOOLEAN
       /\ plan.pinned \in Nat          \* wizard.runtime_server_port, or 0
       /\ plan.external \subseteq [service : STRING, at : Nat]
       /\ \A k \in DOMAIN plan.services :
            LET s == plan.services[k] IN s.boxes > 0 /\ s.copies > 0 /\ s.skip \in BOOLEAN

Nobody  == 0
Foreign == -1
Box(name, n) == <<name, n>>
Prometheus == Box("prometheus", 0)
Runtime    == Box("runtime", 0)
WizardPorts == BasePort .. LastPort
RuntimeStep == -2
MachinePorts == WizardPorts \cup {p.pinned : p \in Plans}
CoreServices == {"driver", "renderer", "physics", "trafficsim", "controller"}

VARIABLES
  plan,       \* the configuration
  deploy,     \* what the wizard is about to do
  ports,      \* those assigned, in the order of Slots
  listening,  \* port -> job step, RuntimeStep, Foreign or Nobody
  endpoints,  \* the generated network configuration
  answersAt,  \* container -> the ports its addresses name
  steps,      \* the job steps: container, whether it lives, whether told to end
  uncancelled, \* containers for which scancel failed
  todo,       \* containers to launch, addresses to wait for or steps to cancel
  attempt,    \* retries begun
  waited,     \* polls of this wait
  foreigners, \* ports others have taken
  crashes

deployVars == <<plan, deploy, ports, listening, endpoints, answersAt, steps, uncancelled, todo, attempt,
                waited, foreigners, crashes>>

\* validate_config refuses a driver that is to be run and external as well.
TwoDrivers ==
  /\ \E k \in DOMAIN plan.services : plan.services[k].name = "driver"
  /\ \E x \in plan.external : x.service = "driver"

DeployInit ==
  /\ plan \in Plans /\ deploy = (IF TwoDrivers THEN "raised" ELSE "assign") /\ ports = <<>>
  /\ listening = [p \in MachinePorts |-> Nobody] /\ endpoints = {} /\ answersAt = <<>>
  /\ steps = <<>> /\ uncancelled = {} /\ todo = <<>> /\ attempt = 0 /\ waited = 0 /\ foreigners = {} /\ crashes = 0
----------------------------------------------------------------------------
(* Ports and containers                                                     *)

Slot(set, box) == [set |-> set, box |-> box]

\* The copies of the containers that are built for a service of a set.
SlotsOfService(set, s) ==
  IF s.skip THEN <<>>
  ELSE [i \in 1 .. s.boxes * s.copies |-> Slot(set, Box(s.name, (i - 1) \div s.copies))]

\* A runtime that is a server is given a port, unless one is pinned for it:
\* that one is neither asked for nor looked at.
SlotsOfSet(set) ==
  FlattenSeq([k \in DOMAIN plan.services |-> SlotsOfService(set, plan.services[k])])
    \o (IF plan.runtime /\ plan.mode = "server" /\ plan.pinned = 0 THEN <<Slot(set, Runtime)>> ELSE <<>>)

\* Everything that is given a port, in the order of asking: both deployments
\* build their containers, whichever is used.
PortSlots ==
  [i \in 1 .. TelemetryPorts |-> Slot("telemetry", Prometheus)] \o SlotsOfSet("compose") \o SlotsOfSet("slurm")

\* The next of create_port_assigner, from where it stopped.
FreePorts == {p \in WizardPorts : listening[p] = Nobody /\ (ports = <<>> \/ Last(ports) < p)}

\* Mutant: the search starts from the last port, which nobody listens on yet.
AssignSamePort ==
  /\ deploy = "assign" /\ Len(ports) < Len(PortSlots)
  /\ LET free == {p \in WizardPorts : listening[p] = Nobody /\ (ports = <<>> \/ Last(ports) <= p)} IN
     IF free = {} THEN deploy' = "raised" /\ UNCHANGED ports
     ELSE ports' = Append(ports, Min(free)) /\ UNCHANGED deploy
  /\ UNCHANGED <<plan, listening, endpoints, answersAt, steps, uncancelled, todo, attempt, waited, foreigners, crashes>>

AssignPort ==
  /\ deploy = "assign" /\ Len(ports) < Len(PortSlots)
  /\ IF FreePorts = {} THEN deploy' = "raised" /\ UNCHANGED ports
     ELSE ports' = Append(ports, Min(FreePorts)) /\ UNCHANGED deploy
  /\ UNCHANGED <<plan, listening, endpoints, answersAt, steps, uncancelled, todo, attempt, waited, foreigners, crashes>>

\* The set that is deployed; its containers, and the ports of one.
UsedSet == IF plan.method = "slurm" THEN "slurm" ELSE "compose"

Boxes == {PortSlots[i].box : i \in {j \in DOMAIN PortSlots : PortSlots[j].set = UsedSet}} \ {Runtime}

PortsOf(box) ==
  LET set == IF box = Prometheus THEN "telemetry" ELSE UsedSet
      own == SetToSortSeq({ports[i] : i \in {j \in DOMAIN ports : PortSlots[j] = Slot(set, box)}}, <)
  IN  IF box = Prometheus THEN <<ports[1]>> ELSE own

\* Where the runtime listens.
RuntimePort == IF plan.pinned # 0 THEN plan.pinned ELSE PortsOf(Runtime)[1]

\* The physics container that is served by the renderer's process.
InRenderer == {b \in Boxes : \E k \in DOMAIN plan.services :
                 plan.services[k].name = b[1] /\ plan.services[k].inRenderer}
RendererBoxes == {b \in Boxes : b[1] = "renderer"}

\* One renderer at one port for physics to be in, external services of a known
\* kind, a runtime to be a server.
Generable ==
  /\ InRenderer # {} => \E b \in RendererBoxes : RendererBoxes = {b} /\ Len(PortsOf(b)) = 1
  /\ \A x \in plan.external : x.service \in CoreServices
  /\ plan.mode = "server" => plan.runtime

Endpoint(service, at, managed) == [service |-> service, at |-> at, managed |-> managed]

\* ConfigurationManager.generate_all: physics answers where the renderer does;
\* what runs outside the deployment is added as configured, unmanaged.
GenerateConfigs ==
  /\ deploy = "assign" /\ Len(ports) = Len(PortSlots)
  /\ IF ~Generable
     THEN deploy' = "raised" /\ UNCHANGED <<endpoints, answersAt>>
     ELSE /\ answersAt' = [b \in Boxes \cup {Prometheus} |->
                             IF b \in InRenderer
                             THEN [i \in DOMAIN PortsOf(b) |-> PortsOf(CHOOSE r \in RendererBoxes : TRUE)[1]]
                             ELSE PortsOf(b)]
          /\ endpoints' =
               UNION {{Endpoint(b[1], at, TRUE) : at \in Range(answersAt'[b])} :
                        b \in {c \in Boxes : c[1] \in CoreServices}}
                 \cup {Endpoint(x.service, x.at, FALSE) : x \in plan.external}
          /\ deploy' = IF plan.method = "slurm" THEN "check" ELSE IF plan.method = "docker" THEN "up" ELSE "over"
  /\ UNCHANGED <<plan, ports, listening, steps, uncancelled, todo, attempt, waited, foreigners, crashes>>

\* The scenes of one task of a SLURM array: every so many of the sorted ones.
ScenesOfTask(sorted, count, task) == {sorted[i] : i \in {j \in DOMAIN sorted : (j - 1) % count = task}}
----------------------------------------------------------------------------
(* Job steps                                                                *)

Open(p) == listening[p] # Nobody

\* The containers that sim services and prometheus are deployed as, in order.
DeployedBoxes ==
  LET slots == SelectSeq(SlotsOfSet(UsedSet), LAMBDA s : s.box # Runtime)
  IN  Append(FoldLeft(LAMBDA seen, s : IF s.box \in Range(seen) THEN seen ELSE Append(seen, s.box), <<>>, slots),
             Prometheus)

Unreachable(box) == \E i \in DOMAIN answersAt[box] : ~Open(answersAt[box][i])

\* One round of the retries of SlurmDeployment.deploy.
CheckMissing ==
  /\ deploy = "check"
  /\ LET missing == SelectSeq(DeployedBoxes, Unreachable) IN
     IF attempt = plan.retries \/ missing = <<>>
     THEN deploy' = "last" /\ UNCHANGED <<todo, attempt>>
     ELSE deploy' = "launch" /\ todo' = missing /\ attempt' = attempt + 1
  /\ UNCHANGED <<plan, ports, listening, endpoints, answersAt, steps, uncancelled, waited, foreigners, crashes>>

Step(box) == [of |-> box, alive |-> TRUE, told |-> FALSE]

\* All the addresses to wait for, in order.
AddressesOf(boxes) == FlattenSeq([i \in DOMAIN boxes |-> answersAt[boxes[i]]])

LaunchBox ==
  /\ deploy = "launch" /\ todo # <<>>
  /\ steps' = Append(steps, Step(Head(todo)))
  /\ IF Len(todo) > 1 THEN todo' = Tail(todo) /\ UNCHANGED <<deploy, waited>>
     ELSE todo' = AddressesOf(DeployedBoxes) /\ deploy' = "wait" /\ waited' = 0
  /\ UNCHANGED <<plan, ports, listening, endpoints, answersAt, uncancelled, attempt, foreigners, crashes>>

\* wait_for_containers: an address that is open is done with.
FoundOpen ==
  /\ deploy = "wait" /\ Open(Head(todo))
  /\ todo' = Tail(todo) /\ deploy' = IF Len(todo) = 1 THEN "check" ELSE "wait"
  /\ UNCHANGED <<plan, ports, listening, endpoints, answersAt, steps, uncancelled, attempt, waited, foreigners, crashes>>

\* All addresses share the timeout; only the last retry raises.
PollAgain ==
  /\ deploy = "wait" /\ ~Open(Head(todo))
  /\ waited' = waited + 1
  /\ deploy' = IF waited' <= Timeout THEN "wait"
               ELSE IF attempt = plan.retries THEN "timed out" ELSE "check"
  /\ todo' = IF deploy' = "wait" THEN todo ELSE <<>>
  /\ UNCHANGED <<plan, ports, listening, endpoints, answersAt, steps, uncancelled, attempt, foreigners, crashes>>

\* The runtime starts last, and blocks; as a server, at a port that is free.
StartRuntime ==
  /\ deploy = "last" /\ deploy' = IF plan.runtime THEN "runtime" ELSE "over"
  /\ listening' = IF plan.runtime /\ plan.mode = "server" /\ ~Open(RuntimePort)
                  THEN [listening EXCEPT ![RuntimePort] = RuntimeStep] ELSE listening
  /\ UNCHANGED <<plan, ports, endpoints, answersAt, steps, uncancelled, todo, attempt, waited, foreigners, crashes>>

\* It returns or fails; then each container that was launched, once.
RuntimeEnds ==
  /\ deploy = "runtime"
  /\ LET names == ToSet([i \in DOMAIN steps |-> steps[i].of]) IN
     /\ deploy' = IF names = {} THEN "over" ELSE "cleanup"
     /\ todo' = SetToSeq(names)
  /\ listening' = [p \in MachinePorts |-> IF listening[p] = RuntimeStep THEN Nobody ELSE listening[p]]
  /\ UNCHANGED <<plan, ports, endpoints, answersAt, steps, uncancelled, attempt, waited, foreigners, crashes>>

\* Steps that are no more, and the ports they leave.
EndSteps(ended) ==
  /\ steps' = [n \in DOMAIN steps |-> [steps[n] EXCEPT !.alive = @ /\ n \notin ended]]
  /\ listening' = [p \in MachinePorts |-> IF listening[p] \in ended THEN Nobody ELSE listening[p]]

\* scancel signals steps; they end when they do.
TellSteps(told) == steps' = [n \in DOMAIN steps |-> [steps[n] EXCEPT !.told = @ \/ n \in told]]

\* Mutant: only the step launched last is cancelled.
CleanupLastStep ==
  /\ deploy = "cleanup"
  /\ TellSteps({Max({n \in DOMAIN steps : steps[n].of = Head(todo)})}) /\ UNCHANGED uncancelled
  /\ todo' = Tail(todo) /\ deploy' = IF Len(todo) = 1 THEN "over" ELSE "cleanup"
  /\ UNCHANGED <<plan, ports, listening, endpoints, answersAt, attempt, waited, foreigners, crashes>>

\* scancel by name reaches all the steps of a container, or fails: then there is
\* a warning, and the steps live on.
CleanupSteps ==
  /\ deploy = "cleanup"
  /\ \/ TellSteps({n \in DOMAIN steps : steps[n].of = Head(todo)}) /\ UNCHANGED uncancelled
     \/ uncancelled' = uncancelled \cup {Head(todo)} /\ UNCHANGED steps
  /\ todo' = Tail(todo) /\ deploy' = IF Len(todo) = 1 THEN "over" ELSE "cleanup"
  /\ UNCHANGED <<plan, ports, listening, endpoints, answersAt, attempt, waited, foreigners, crashes>>

\* docker compose up, until the runtime exits: it starts and stops them all.
ComposeUp ==
  /\ deploy = "up" /\ deploy' \in {"over", "raised"}
  /\ UNCHANGED <<plan, ports, listening, endpoints, answersAt, steps, uncancelled, todo, attempt, waited, foreigners, crashes>>
----------------------------------------------------------------------------
(* The machine                                                              *)

\* A copy in a live step opens its port, unless somebody listens there.
CopyListens(n) ==
  /\ steps[n].alive /\ steps[n].of \notin InRenderer
  /\ \E i \in DOMAIN PortsOf(steps[n].of) :
       LET p == PortsOf(steps[n].of)[i] IN ~Open(p) /\ listening' = [listening EXCEPT ![p] = n]
  /\ UNCHANGED <<plan, deploy, ports, endpoints, answersAt, steps, uncancelled, todo, attempt, waited, foreigners, crashes>>

StepDies(n) ==
  /\ steps[n].alive /\ crashes < MaxCrashes /\ crashes' = crashes + 1 /\ EndSteps({n})
  /\ UNCHANGED <<plan, deploy, ports, endpoints, answersAt, uncancelled, todo, attempt, waited, foreigners>>

\* A step that was told to end does, sooner or later if at all.
StepObeys(n) ==
  /\ steps[n].alive /\ steps[n].told /\ EndSteps({n})
  /\ UNCHANGED <<plan, deploy, ports, endpoints, answersAt, uncancelled, todo, attempt, waited, foreigners, crashes>>

ForeignTakes(p) ==
  /\ ~Open(p) /\ p \notin foreigners /\ Cardinality(foreigners) < MaxForeign
  /\ listening' = [listening EXCEPT ![p] = Foreign] /\ foreigners' = foreigners \cup {p}
  /\ UNCHANGED <<plan, deploy, ports, endpoints, answersAt, steps, uncancelled, todo, attempt, waited, crashes>>

ForeignLeaves(p) ==
  /\ listening[p] = Foreign /\ listening' = [listening EXCEPT ![p] = Nobody]
  /\ UNCHANGED <<plan, deploy, ports, endpoints, answersAt, steps, uncancelled, todo, attempt, waited, foreigners, crashes>>

Machine ==
  /\ deploy \notin {"over", "raised", "timed out"}
  /\ \/ \E n \in DOMAIN steps : CopyListens(n) \/ StepDies(n)
     \/ \E p \in MachinePorts \ {0} : ForeignTakes(p) \/ ForeignLeaves(p)

DeployNext ==
  \/ AssignPort \/ GenerateConfigs \/ CheckMissing \/ LaunchBox \/ FoundOpen \/ PollAgain
  \/ StartRuntime \/ RuntimeEnds \/ CleanupSteps \/ ComposeUp \/ Machine
  \/ \E n \in DOMAIN steps : StepObeys(n)

DeploySpec == DeployInit /\ [][DeployNext]_deployVars
----------------------------------------------------------------------------
(* Properties                                                               *)

\* All the addresses of a container are or were in the hands of others.
TakenOver(box) == \A i \in DOMAIN answersAt[box] : answersAt[box][i] \in foreigners

(* The wizard gives out no port twice, whatever others take and leave while   *)
(* ports are assigned.  A port that is pinned for the runtime is not among    *)
(* those it looks at: it may be one that a service was given.                 *)
PortsApart == \A i, j \in DOMAIN ports : i # j => ports[i] # ports[j]

(* After the deployment of a runtime a job step lives on only when it was     *)
(* told to end, or scancel failed for its container: none is forgotten,       *)
(* whichever were launched again while an earlier one still ran.              *)
StepsCancelled ==
  deploy = "over" /\ plan.runtime =>
    \A n \in DOMAIN steps : steps[n].alive => steps[n].told \/ steps[n].of \in uncancelled

\* Ports the wizard gave to containers that run, a pinned one aside.
GivenPorts == {ports[i] : i \in {j \in DOMAIN ports : PortSlots[j].set \in {UsedSet, "telemetry"}}}

(* While the runtime serves, nobody of the run sits at its port, unless it    *)
(* was pinned to one a service was given.                                     *)
RuntimeServes ==
  deploy = "runtime" /\ plan.mode = "server" /\ foreigners = {} /\ plan.pinned \notin GivenPorts =>
    listening[RuntimePort] = RuntimeStep

\* However many tasks an array has, each scene is simulated by one of them.
ScenesShared ==
  \A count \in 1 .. Cardinality(SceneIds) + 1, scene \in SceneIds :
    Cardinality({task \in 0 .. count - 1 : scene \in ScenesOfTask(SetToSeq(SceneIds), count, task)}) = 1

(* The network configuration names all copies of the services the deployment *)
(* runs, those in the renderer at the renderer's port, no port of another     *)
(* container, and as unmanaged exactly what was configured as external.       *)
NetworkNamesServices ==
  /\ \A b \in Boxes : b[1] \in CoreServices => \A i \in DOMAIN PortsOf(b) :
       \E e \in endpoints : e.managed /\ e.service = b[1] /\ (b \notin InRenderer => e.at = PortsOf(b)[i])
  /\ \A e \in endpoints :
       IF e.managed THEN \E b \in Boxes : e.at \in Range(PortsOf(b)) /\ (b[1] = e.service \/ b[1] = "renderer")
       ELSE \E x \in plan.external : x.service = e.service /\ x.at = e.at
  /\ \A x \in plan.external : Endpoint(x.service, x.at, FALSE) \in endpoints
  /\ \A e, f \in endpoints : e.service = "driver" /\ f.service = "driver" => e.managed = f.managed

(* A run is deployed as its configuration says (PortsApart, StepsCancelled,   *)
(* RuntimeServes, ScenesShared, NetworkNamesServices); the runtime starts     *)
(* only after each container was launched, unless others took its ports, and  *)
(* while nobody dies or interferes with all of them open; and a container has *)
(* one job step per retry at most.  deployment/slurm.py SlurmDeployment.deploy. *)
DeployedWhole ==
  /\ PortsApart /\ StepsCancelled /\ RuntimeServes
  /\ deploy \in {"check", "up"} => ScenesShared /\ NetworkNamesServices
  /\ deploy = "runtime" =>
       \A b \in Range(DeployedBoxes) :
         /\ TakenOver(b) \/ b \in InRenderer \/ \E n \in DOMAIN steps : steps[n].of = b
         /\ crashes = 0 /\ foreigners = {} => ~Unreachable(b)
  /\ steps # <<>> => \A b \in Range(DeployedBoxes) : Cardinality({n \in DOMAIN steps : steps[n].of = b}) <= attempt
=============================================================================
