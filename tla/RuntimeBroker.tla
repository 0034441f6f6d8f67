--------------------------- MODULE RuntimeBroker ---------------------------
(***************************************************************************)
(* The sandbox frame that runs a semantic component                        *)
(* (component-runtime/src/runtime-broker.ts): the broker, its Worker and   *)
(* the guest program in it.  The broker reads the host's message port and  *)
(* the Worker's messages in order, and its timers may expire whenever they *)
(* are armed.  An error in a handler terminates the whole runtime.         *)
(*                                                                         *)
(* Modelled: binding, loading, verification, launch, readiness, first      *)
(* render, activation, state snapshots, staleness, interactions, effects   *)
(* (event.publish and call.start), pings, both Worker timers and the       *)
(* watchdog.  The production host sends neither state patches, call        *)
(* answers, events nor suspensions, which are left out.                    *)
(*                                                                         *)
(* A definition whose name begins with Wrong is a deliberately faulty      *)
(* variant of the one after it, for checking that a property can fail.     *)
(***************************************************************************)
EXTENDS Naturals, Sequences

CONSTANTS
    Nodes,        \* node identifiers a component may use for controls
    Handlers,     \* handler identifiers
    MissLimit,    \* workerMissedHeartbeats and missedHeartbeats
    Challenges,   \* bound: challenges are counted modulo this number
    Mishaps,      \* bound: which of "hang", "throw" and "loss" may befall the frame
    MaxRevision,  \* bound: greatest state revision
    MaxRender     \* bound: renders of one guest

ASSUME BrokerAssumption ==
    /\ Mishaps \subseteq {"hang", "throw", "loss"}
    /\ MissLimit \in Nat \ {0} /\ Challenges \in Nat \ {0}
    /\ MaxRevision \in Nat \ {0} /\ MaxRender \in Nat

VARIABLES
    toBroker, toHost,     \* the message port, one queue per direction
    toGuest, fromGuest,   \* the Worker's messages, one queue per direction
    phase,                \* how far the broker got
    active,
    brokerRender,         \* renderRevision
    targets,              \* interactionTargets: the enabled controls
    stateRevision,
    workerProbe,          \* pendingProbe, 0 when undefined
    nextWorkerProbe,      \* nextProbe
    missedWorker,         \* missedWorkerHeartbeats
    guest,                \* the Worker
    guestState,           \* the home state the guest has been told
    trees                 \* history: enabled controls of every tree it rendered

channels == <<toBroker, toHost, toGuest, fromGuest>>
rendered == <<brokerRender, targets>>
watchdog == <<workerProbe, nextWorkerProbe, missedWorker>>
guestVars == <<guest, guestState, trees>>
frameVars == <<channels, phase, active, rendered, stateRevision, watchdog, guestVars>>

Phases == {"unbound", "bound", "loading", "launched", "ready", "closed", "lost", "removed"}
Probes == 1..Challenges
NextChallenge(c) == (c % Challenges) + 1

(* guest.boot and lifecycle.resume carry nothing the guest here depends on.  *)
(* Error codes, a message of the code standing for its code where two share one. *)
None == "none"
Faults == {"worker_boot_failed", "runtime_unresponsive", "capability_denied",
           "bridge_protocol_violation", "artifact_hash_mismatch",
           "render_gap", "stale_render", "inactive_target"}

HostMessages ==
    [kind: {"bind", "load", "activate"}] \cup [kind: {"ping"}, challenge: Probes]
    \cup [kind: {"snapshot", "stale"}, revision: 1..MaxRevision]
    \cup [kind: {"interaction"}, render: 0..MaxRender, node: Nodes \cup Handlers]
BrokerMessages ==
    [kind: {"bound", "worker_ready", "active", "effect", "terminated"}]
    \cup [kind: {"pong"}, challenge: Probes] \cup [kind: {"error"}, code: Faults]
    \cup [kind: {"render"}, revision: 1..MaxRender, tree: SUBSET Nodes]
ToGuestMessages ==
    [kind: {"probe"}, challenge: Probes]
    \cup [kind: {"snapshot", "stale"}, revision: 1..MaxRevision]
    \cup [kind: {"interaction"}, render: 1..MaxRender, node: Nodes]
GuestMessages ==
    [kind: {"ready", "effect"}] \cup [kind: {"pong"}, challenge: Probes]
    \cup [kind: {"render"}, revision: 1..MaxRender, tree: SUBSET Nodes]

FrameTypeOK ==
    /\ toBroker \in Seq(HostMessages) /\ toHost \in Seq(BrokerMessages)
    /\ toGuest \in Seq(ToGuestMessages) /\ fromGuest \in Seq(GuestMessages)
    /\ phase \in Phases /\ active \in BOOLEAN
    /\ brokerRender \in 0..MaxRender /\ targets \in SUBSET Nodes
    /\ stateRevision \in 1..MaxRevision
    /\ workerProbe \in 0..Challenges /\ nextWorkerProbe \in Probes
    /\ missedWorker \in 0..(MissLimit - 1)
    /\ guest \in {"absent", "starting", "running", "hung"}
    /\ guestState \in [revision: 0..MaxRevision, stale: BOOLEAN]
    /\ trees \in Seq(SUBSET Nodes)

Untold == [revision |-> 0, stale |-> FALSE]

FrameInit ==
    /\ toBroker = <<>> /\ toHost = <<>> /\ toGuest = <<>> /\ fromGuest = <<>>
    /\ phase = "unbound" /\ active = FALSE
    /\ brokerRender = 0 /\ targets = {} /\ stateRevision = 1
    /\ workerProbe = 0 /\ nextWorkerProbe = 1 /\ missedWorker = 0
    /\ guest = "absent" /\ guestState = Untold /\ trees = <<>>

-----------------------------------------------------------------------------
(* The Worker, the port and the timers are gone, and no handler reads the
   frame's state again, which goes back to its initial value. *)
FrameEnds(next) ==
    /\ phase' = next /\ active' = FALSE
    /\ brokerRender' = 0 /\ targets' = {} /\ stateRevision' = 1
    /\ workerProbe' = 0 /\ nextWorkerProbe' = 1 /\ missedWorker' = 0
    /\ guest' = "absent" /\ guestState' = Untold
    /\ toBroker' = <<>> /\ toGuest' = <<>> /\ fromGuest' = <<>>
    /\ UNCHANGED trees

Terminate(code) ==
    /\ FrameEnds("closed")
    /\ toHost' = toHost \o <<[kind |-> "error", code |-> code], [kind |-> "terminated"]>>

(* What sendWorkerProbe does to the watchdog; the probe itself is sent by the caller. *)
ProbeSent ==
    /\ workerProbe' = nextWorkerProbe
    /\ nextWorkerProbe' = NextChallenge(nextWorkerProbe)
Probe == [kind |-> "probe", challenge |-> nextWorkerProbe]

-----------------------------------------------------------------------------
(* Messages of the host. *)

(* What the handler of a host message throws, if anything. *)
HostFault(m) ==
    CASE phase # "ready" -> "bridge_protocol_violation"
      [] m.kind = "activate" /\ brokerRender = 0 -> "bridge_protocol_violation"
      [] m.kind = "snapshot" /\ m.revision < stateRevision -> "bridge_protocol_violation"
      [] m.kind = "interaction" /\ ~active -> "capability_denied"
      [] m.kind = "interaction" /\ m.render # brokerRender -> "stale_render"
      [] m.kind = "interaction" /\ m.node \notin targets -> "inactive_target"
      [] OTHER -> None

Takes(kind) ==
    /\ toBroker # <<>> /\ Head(toBroker).kind = kind
    /\ toBroker' = Tail(toBroker)

(* A message handled by a runtime whose Worker is ready. *)
Accepts(kind) == Takes(kind) /\ HostFault(Head(toBroker)) = None

BrokerBinds ==
    /\ phase = "unbound" /\ Takes("bind")
    /\ phase' = "bound"
    /\ toHost' = Append(toHost, [kind |-> "bound"])
    /\ UNCHANGED <<toGuest, fromGuest, active, rendered, stateRevision, watchdog, guestVars>>

BrokerLoads ==
    /\ phase = "bound" /\ Takes("load")
    /\ phase' = "loading"
    /\ UNCHANGED <<toHost, toGuest, fromGuest, active, rendered, stateRevision, watchdog, guestVars>>

(* The digest is verified asynchronously; then the Worker is started. *)
BrokerLaunches ==
    /\ phase = "loading"
    /\ phase' = "launched" /\ guest' = "starting"
    /\ UNCHANGED <<channels, active, rendered, stateRevision, watchdog, guestState, trees>>

BrokerRejectsArtifact == phase = "loading" /\ Terminate("artifact_hash_mismatch")

BrokerRefusesHost ==
    /\ toBroker # <<>> /\ Head(toBroker).kind \notin {"bind", "load"}
    /\ HostFault(Head(toBroker)) # None
    /\ Terminate(HostFault(Head(toBroker)))

BrokerActivates ==
    /\ Accepts("activate")
    /\ active' = TRUE
    /\ toHost' = Append(toHost, [kind |-> "active"])
    /\ UNCHANGED <<toGuest, fromGuest, phase, rendered, stateRevision, watchdog, guestVars>>

BrokerAnswersPing ==
    /\ Accepts("ping")
    /\ toHost' = Append(toHost, [kind |-> "pong", challenge |-> Head(toBroker).challenge])
    /\ UNCHANGED <<toGuest, fromGuest, phase, active, rendered, stateRevision, watchdog, guestVars>>

BrokerInteraction ==
    /\ Accepts("interaction")
    /\ toGuest' = Append(toGuest, [kind |-> "interaction", render |-> brokerRender,
                                   node |-> Head(toBroker).node])
    /\ UNCHANGED <<toHost, fromGuest, phase, active, rendered, stateRevision, watchdog, guestVars>>

BrokerSnapshot ==
    /\ Accepts("snapshot")
    /\ stateRevision' = Head(toBroker).revision
    /\ toGuest' = Append(toGuest, Head(toBroker))
    /\ UNCHANGED <<toHost, fromGuest, phase, active, rendered, watchdog, guestVars>>

BrokerStale ==
    /\ Accepts("stale")
    /\ toGuest' = Append(toGuest, Head(toBroker))
    /\ UNCHANGED <<toHost, fromGuest, phase, active, rendered, stateRevision, watchdog, guestVars>>

-----------------------------------------------------------------------------
(* Messages of the guest. *)

WrongGuestFault(m) ==
    CASE phase = "launched" /\ m.kind # "ready" -> "worker_boot_failed"
      [] m.kind = "pong" /\ m.challenge # workerProbe -> "bridge_protocol_violation"
      [] m.kind = "render" /\ m.revision # brokerRender + 1 -> "render_gap"
      [] OTHER -> None

GuestFault(m) ==
    CASE phase = "launched" /\ m.kind # "ready" -> "worker_boot_failed"
      [] m.kind = "pong" /\ m.challenge # workerProbe -> "bridge_protocol_violation"
      [] m.kind = "render" /\ m.revision # brokerRender + 1 -> "render_gap"
      [] m.kind = "effect" /\ ~active -> "capability_denied"
      [] OTHER -> None

Hears(kind) ==
    /\ fromGuest # <<>> /\ Head(fromGuest).kind = kind
    /\ GuestFault(Head(fromGuest)) = None
    /\ fromGuest' = Tail(fromGuest)

BrokerRefusesGuest ==
    /\ fromGuest # <<>> /\ GuestFault(Head(fromGuest)) # None
    /\ Terminate(GuestFault(Head(fromGuest)))

BrokerWorkerReady ==
    /\ phase = "launched" /\ Hears("ready")
    /\ phase' = "ready"
    /\ toGuest' = toGuest \o <<[kind |-> "snapshot", revision |-> stateRevision], Probe>>
    /\ ProbeSent
    /\ toHost' = Append(toHost, [kind |-> "worker_ready"])
    /\ UNCHANGED <<toBroker, active, rendered, stateRevision, missedWorker, guestVars>>

WrongBrokerRender ==
    /\ Hears("render")
    /\ brokerRender' = Head(fromGuest).revision
    /\ targets' = targets \cup Head(fromGuest).tree
    /\ toHost' = Append(toHost, Head(fromGuest))
    /\ UNCHANGED <<toBroker, toGuest, phase, active, stateRevision, watchdog, guestVars>>

BrokerRender ==
    /\ Hears("render")
    /\ brokerRender' = Head(fromGuest).revision
    /\ targets' = Head(fromGuest).tree
    /\ toHost' = Append(toHost, Head(fromGuest))
    /\ UNCHANGED <<toBroker, toGuest, phase, active, stateRevision, watchdog, guestVars>>

BrokerPong ==
    /\ Hears("pong")
    /\ workerProbe' = 0 /\ missedWorker' = 0
    /\ UNCHANGED <<toBroker, toHost, toGuest, phase, active, rendered, stateRevision,
                   nextWorkerProbe, guestVars>>

BrokerEffect ==
    /\ Hears("effect")
    /\ toHost' = Append(toHost, [kind |-> "effect"])
    /\ UNCHANGED <<toBroker, toGuest, phase, active, rendered, stateRevision, watchdog, guestVars>>

-----------------------------------------------------------------------------
(* Timers of the broker. *)

WrongBootTimeout   == phase = "loading" /\ Terminate("worker_boot_failed")
BootTimeout        == phase = "launched" /\ Terminate("worker_boot_failed")
FirstRenderTimeout == phase = "ready" /\ brokerRender = 0 /\ Terminate("worker_boot_failed")

WatchdogProbes ==
    /\ phase = "ready" /\ workerProbe = 0
    /\ ProbeSent
    /\ toGuest' = Append(toGuest, Probe)
    /\ UNCHANGED <<toBroker, toHost, fromGuest, phase, active, rendered, stateRevision,
                   missedWorker, guestVars>>

WrongWatchdogMisses ==
    /\ phase = "ready" /\ workerProbe # 0
    /\ IF missedWorker >= MissLimit
       THEN Terminate("runtime_unresponsive")
       ELSE /\ missedWorker' = missedWorker + 1
            /\ UNCHANGED <<channels, phase, active, rendered, stateRevision,
                           workerProbe, nextWorkerProbe, guestVars>>

WatchdogMisses ==
    /\ phase = "ready" /\ workerProbe # 0
    /\ IF missedWorker + 1 >= MissLimit
       THEN Terminate("runtime_unresponsive")
       ELSE /\ missedWorker' = missedWorker + 1
            /\ UNCHANGED <<channels, phase, active, rendered, stateRevision,
                           workerProbe, nextWorkerProbe, guestVars>>

-----------------------------------------------------------------------------
(* The guest: a well-formed program under the prelude, which may render,   *)
(* attempt an effect, spin for ever or throw at any moment.                *)

GuestReady ==
    /\ guest = "starting" /\ guest' = "running"
    /\ fromGuest' = Append(fromGuest, [kind |-> "ready"])
    /\ UNCHANGED <<toBroker, toHost, toGuest, phase, active, rendered, stateRevision, watchdog,
                   guestState, trees>>

GuestReceives ==
    /\ guest = "running" /\ toGuest # <<>>
    /\ toGuest' = Tail(toGuest)
    /\ LET m == Head(toGuest) IN
         /\ guestState' = CASE m.kind = "snapshot" -> [revision |-> m.revision, stale |-> FALSE]
                            [] m.kind = "stale" -> [guestState EXCEPT !.stale = TRUE]
                            [] OTHER -> guestState
         /\ fromGuest' = IF m.kind = "probe"
                         THEN Append(fromGuest, [kind |-> "pong", challenge |-> m.challenge])
                         ELSE fromGuest
    /\ UNCHANGED <<toBroker, toHost, phase, active, rendered, stateRevision, watchdog, guest, trees>>

GuestRenders(tree) ==
    /\ guest = "running" /\ guestState.revision > 0 /\ Len(trees) < MaxRender
    /\ trees' = Append(trees, tree)
    /\ fromGuest' = Append(fromGuest,
          [kind |-> "render", revision |-> Len(trees) + 1, tree |-> tree])
    /\ UNCHANGED <<toBroker, toHost, toGuest, phase, active, rendered, stateRevision, watchdog,
                   guest, guestState>>

GuestActs ==
    /\ guest = "running" /\ guestState.revision > 0
    /\ ~ \E i \in DOMAIN fromGuest : fromGuest[i].kind = "effect"
    /\ ~ \E i \in DOMAIN toHost : toHost[i].kind = "effect"
    /\ fromGuest' = Append(fromGuest, [kind |-> "effect"])
    /\ UNCHANGED <<toBroker, toHost, toGuest, phase, active, rendered, stateRevision, watchdog,
                   guestVars>>

GuestHangs ==
    /\ "hang" \in Mishaps /\ guest \in {"starting", "running"} /\ guest' = "hung"
    /\ UNCHANGED <<channels, phase, active, rendered, stateRevision, watchdog, guestState, trees>>

GuestThrows ==
    "throw" \in Mishaps /\ guest \in {"starting", "running"} /\ Terminate("worker_boot_failed")

BrokerStep ==
    \/ BrokerBinds \/ BrokerLoads \/ BrokerLaunches \/ BrokerRejectsArtifact
    \/ BrokerRefusesHost \/ BrokerActivates \/ BrokerAnswersPing \/ BrokerInteraction
    \/ BrokerSnapshot \/ BrokerStale
    \/ BrokerRefusesGuest \/ BrokerWorkerReady \/ BrokerRender \/ BrokerPong \/ BrokerEffect
GuestStep == GuestReady \/ GuestReceives
=============================================================================
