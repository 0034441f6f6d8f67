--------------------------- MODULE ComponentMount ---------------------------
(***************************************************************************)
(* A semantic component as the web application runs it: the session of     *)
(* src/app/component-runtime-host.ts (mountComponentRuntime), the part of  *)
(* src/app/app.tsx that publishes home state to it and routes the          *)
(* resident's interactions, and the sandbox frame of RuntimeBroker at the  *)
(* other end of a message port.                                            *)
(*                                                                         *)
(* React paints a tree some time after the session received it, so what    *)
(* the resident sees (shown) may lag behind hostTree.  The frame may vanish*)
(* at any time (a crash or a navigation), of which nothing informs the     *)
(* host: a message port has no close event.                                *)
(*                                                                         *)
(* A definition whose name begins with Wrong is a deliberately faulty      *)
(* variant of the one after it, for checking that a property can fail.     *)
(***************************************************************************)
EXTENDS RuntimeBroker

CONSTANTS
    HandlerOf,   \* [Nodes -> Handlers]: the handler a control declares
    MaxQueue     \* bound: messages on the way to the guest when the shell adds one

ASSUME MountAssumption == HandlerOf \in [Nodes -> Handlers] /\ MaxQueue \in Nat

VARIABLES
    lifecycle,
    port,                    \* whether the port is open
    hostRender, hostTree,    \* renderRevision and the tree of the last onTree
    workerReady,
    pendingState,            \* revision of pendingState, 0 when undefined
    pendingStale,            \* whether pendingStale is defined
    publishedStateRevision,
    hostProbe,               \* pendingProbe, 0 when undefined
    nextHostProbe,           \* nextProbe
    missedHost,              \* missedHeartbeats
    failure,                 \* code of the failure reported to the shell
    shown,                   \* the render painted on the screen
    toldStale                \* history: the shell's last word was markStateStale

buffered  == <<workerReady, pendingState, pendingStale, publishedStateRevision>>
heartbeat == <<hostProbe, nextHostProbe, missedHost>>
hostVars  == <<lifecycle, port, hostRender, hostTree, buffered, heartbeat, failure>>
shellVars == <<shown, toldStale>>
vars      == <<frameVars, hostVars, shellVars>>

HostFailures == Faults \cup {None, "ready_timeout", "render_invalid"}
Settled == lifecycle \in {"failed", "terminated"}

TypeOK ==
    /\ FrameTypeOK
    /\ lifecycle \in {"starting", "bound", "staging", "active", "failed", "terminated"}
    /\ port \in BOOLEAN /\ workerReady \in BOOLEAN
    /\ hostRender \in 0..MaxRender /\ hostTree \in SUBSET Nodes
    /\ pendingState \in 0..MaxRevision /\ pendingStale \in BOOLEAN
    /\ publishedStateRevision \in 1..MaxRevision
    /\ hostProbe \in 0..Challenges /\ nextHostProbe \in Probes /\ missedHost \in 0..(MissLimit - 1)
    /\ failure \in HostFailures
    /\ shown \in [render: 0..MaxRender, tree: SUBSET Nodes] /\ toldStale \in BOOLEAN

Init ==
    /\ FrameInit
    /\ lifecycle = "starting" /\ port = FALSE
    /\ hostRender = 0 /\ hostTree = {}
    /\ workerReady = FALSE /\ pendingState = 0 /\ pendingStale = FALSE
    /\ publishedStateRevision = 1
    /\ hostProbe = 0 /\ nextHostProbe = 1 /\ missedHost = 0 /\ failure = None
    /\ shown = [render |-> 0, tree |-> {}] /\ toldStale = FALSE

-----------------------------------------------------------------------------
(* settle: the port closes and the frame is removed from the document. *)
Settle(next, code) ==
    /\ ~Settled
    /\ lifecycle' = next /\ failure' = code
    /\ port' = FALSE /\ pendingState' = 0 /\ pendingStale' = FALSE
    /\ FrameEnds("removed") /\ toHost' = <<>>
    /\ UNCHANGED <<hostRender, hostTree, workerReady, publishedStateRevision, heartbeat, shellVars>>

(* Messages posted on a port whose other end is gone are lost. *)
Posted(messages) ==
    IF phase \in {"closed", "lost"} THEN toBroker ELSE toBroker \o messages

Post(messages) ==
    /\ toBroker' = Posted(messages)
    /\ UNCHANGED <<toHost, toGuest, fromGuest, phase, active, rendered, stateRevision, watchdog,
                   guestVars>>

-----------------------------------------------------------------------------
(* The frame announces itself; the host answers with one end of a channel. *)
HostBinds ==
    /\ lifecycle = "starting" /\ ~port /\ phase = "unbound"
    /\ port' = TRUE
    /\ Post(<<[kind |-> "bind"]>>)
    /\ UNCHANGED <<lifecycle, hostRender, hostTree, buffered, heartbeat, failure, shellVars>>

ReadyTimeout == lifecycle = "starting" /\ ~port /\ Settle("failed", "ready_timeout")

(* What the handler of a broker message throws, or an error it is told of. *)
HostThrows(m) ==
    CASE m.kind = "effect" -> "capability_denied"
      [] m.kind = "error" -> m.code
      [] m.kind = "render" /\ m.revision # hostRender + 1 -> "render_invalid"
      [] m.kind = "pong" /\ m.challenge # hostProbe -> "bridge_protocol_violation"
      [] OTHER -> None

(* A broker message of this kind reaches the session; answers is what the handler posts. *)
Receives(kind, answers) ==
    /\ ~Settled /\ toHost # <<>> /\ Head(toHost).kind = kind
    /\ HostThrows(Head(toHost)) = None
    /\ toHost' = Tail(toHost)
    /\ toBroker' = Posted(answers)
    /\ UNCHANGED <<toGuest, fromGuest, phase, active, rendered, stateRevision, watchdog, guestVars,
                   port, nextHostProbe, failure, shellVars>>

HostBound ==
    /\ Receives("bound", <<[kind |-> "load"]>>)
    /\ lifecycle' = "bound"
    /\ UNCHANGED <<hostRender, hostTree, buffered, hostProbe, missedHost>>

WrongBuffered ==
    (IF pendingStale THEN <<[kind |-> "stale", revision |-> publishedStateRevision]>> ELSE <<>>)
    \o (IF pendingState = 0 THEN <<>> ELSE <<[kind |-> "snapshot", revision |-> pendingState]>>)

(* The state withheld until the Worker was ready. *)
Buffered ==
    (IF pendingState = 0 THEN <<>> ELSE <<[kind |-> "snapshot", revision |-> pendingState]>>)
    \o (IF pendingStale THEN <<[kind |-> "stale", revision |-> publishedStateRevision]>> ELSE <<>>)

HostWorkerReady ==
    /\ Receives("worker_ready", Buffered)
    /\ lifecycle' = "staging" /\ workerReady' = TRUE
    /\ pendingState' = 0 /\ pendingStale' = FALSE
    /\ UNCHANGED <<hostRender, hostTree, publishedStateRevision, hostProbe, missedHost>>

WrongHostRender ==
    /\ Receives("render", IF lifecycle = "bound" THEN <<[kind |-> "activate"]>> ELSE <<>>)
    /\ hostRender' = hostRender + 1 /\ hostTree' = Head(toHost).tree
    /\ UNCHANGED <<lifecycle, buffered, hostProbe, missedHost>>

HostRender ==
    /\ Receives("render", IF lifecycle = "staging" THEN <<[kind |-> "activate"]>> ELSE <<>>)
    /\ hostRender' = hostRender + 1 /\ hostTree' = Head(toHost).tree
    /\ UNCHANGED <<lifecycle, buffered, hostProbe, missedHost>>

HostActive ==
    /\ Receives("active", <<>>)
    /\ lifecycle' = "active"
    /\ UNCHANGED <<hostRender, hostTree, buffered, hostProbe, missedHost>>

HostPong ==
    /\ Receives("pong", <<>>)
    /\ hostProbe' = 0 /\ missedHost' = 0
    /\ UNCHANGED <<lifecycle, hostRender, hostTree, buffered>>

HostFails ==
    /\ toHost # <<>> /\ HostThrows(Head(toHost)) # None
    /\ Settle("failed", HostThrows(Head(toHost)))

(* The interval load() starts: a probe, or a probe found unanswered. *)
WrongHeartbeatRuns == port /\ lifecycle = "active"
HeartbeatRuns == port /\ lifecycle \in {"staging", "active"}

HeartbeatPings ==
    /\ HeartbeatRuns /\ hostProbe = 0
    /\ hostProbe' = nextHostProbe /\ nextHostProbe' = NextChallenge(nextHostProbe)
    /\ Post(<<[kind |-> "ping", challenge |-> nextHostProbe]>>)
    /\ UNCHANGED <<lifecycle, port, hostRender, hostTree, buffered, missedHost, failure, shellVars>>

HeartbeatMisses ==
    /\ HeartbeatRuns /\ hostProbe # 0
    /\ IF missedHost + 1 >= MissLimit
       THEN Settle("failed", "runtime_unresponsive")
       ELSE /\ missedHost' = missedHost + 1
            /\ UNCHANGED <<frameVars, lifecycle, port, hostRender, hostTree, buffered, hostProbe,
                           nextHostProbe, failure, shellVars>>

-----------------------------------------------------------------------------
(* The shell.  It holds the session from the moment the port is bound. *)
ShellMayPost == port /\ ~Settled /\ Len(toBroker) + Len(toGuest) < MaxQueue

WrongPublishState(revision) ==
    /\ ShellMayPost
    /\ publishedStateRevision' = revision /\ toldStale' = FALSE
    /\ IF workerReady
       THEN /\ Post(<<[kind |-> "snapshot", revision |-> revision]>>)
            /\ UNCHANGED <<pendingState, pendingStale>>
       ELSE /\ pendingState' = revision /\ pendingStale' = FALSE
            /\ UNCHANGED frameVars
    /\ UNCHANGED <<lifecycle, port, hostRender, hostTree, workerReady, heartbeat, failure, shown>>

publishState(revision) ==
    /\ ShellMayPost /\ revision >= publishedStateRevision
    /\ publishedStateRevision' = revision /\ toldStale' = FALSE
    /\ IF workerReady
       THEN /\ Post(<<[kind |-> "snapshot", revision |-> revision]>>)
            /\ UNCHANGED <<pendingState, pendingStale>>
       ELSE /\ pendingState' = revision /\ pendingStale' = FALSE
            /\ UNCHANGED frameVars
    /\ UNCHANGED <<lifecycle, port, hostRender, hostTree, workerReady, heartbeat, failure, shown>>

markStateStale ==
    /\ ShellMayPost
    /\ toldStale' = TRUE
    /\ IF workerReady
       THEN /\ Post(<<[kind |-> "stale", revision |-> publishedStateRevision]>>)
            /\ UNCHANGED pendingStale
       ELSE pendingStale' = TRUE /\ UNCHANGED frameVars
    /\ UNCHANGED <<lifecycle, port, hostRender, hostTree, workerReady, pendingState,
                   publishedStateRevision, heartbeat, failure, shown>>

Paints ==
    /\ ~Settled /\ shown.render # hostRender
    /\ shown' = [render |-> hostRender, tree |-> hostTree]
    /\ UNCHANGED <<frameVars, hostVars, toldStale>>

(* A click on a painted control: the application passes its handler as the
   node, and the session its own latest render. *)
interact(node) ==
    /\ ShellMayPost /\ lifecycle \in {"staging", "active"} /\ node \in shown.tree
    /\ Post(<<[kind |-> "interaction", render |-> hostRender, node |-> HandlerOf[node]]>>)
    /\ UNCHANGED <<hostVars, shellVars>>

Unmount == Settle("terminated", None)

(* The frame crashes or navigates away; what it had posted may still be read. *)
FrameLost ==
    /\ "loss" \in Mishaps /\ phase \notin {"closed", "lost", "removed"}
    /\ FrameEnds("lost")
    /\ UNCHANGED <<toHost, hostVars, shellVars>>

-----------------------------------------------------------------------------
HostStep ==
    \/ HostBinds \/ HostBound \/ HostWorkerReady \/ HostRender \/ HostActive \/ HostPong
    \/ HostFails
HostTimer == ReadyTimeout \/ HeartbeatPings \/ HeartbeatMisses
ShellChoice ==
    \/ \E revision \in 1..MaxRevision : publishState(revision)
    \/ markStateStale
    \/ \E node \in Nodes : interact(node)
    \/ Unmount
FrameStep(step) == step /\ UNCHANGED <<hostVars, shellVars>>

Next ==
    \/ FrameStep(BrokerBinds) \/ FrameStep(BrokerLoads) \/ FrameStep(BrokerLaunches)
    \/ FrameStep(BrokerRejectsArtifact) \/ FrameStep(BrokerRefusesHost)
    \/ FrameStep(BrokerActivates) \/ FrameStep(BrokerAnswersPing)
    \/ FrameStep(BrokerInteraction) \/ FrameStep(BrokerSnapshot) \/ FrameStep(BrokerStale)
    \/ FrameStep(BrokerRefusesGuest) \/ FrameStep(BrokerWorkerReady)
    \/ FrameStep(BrokerRender) \/ FrameStep(BrokerPong) \/ FrameStep(BrokerEffect)
    \/ FrameStep(BootTimeout) \/ FrameStep(FirstRenderTimeout)
    \/ FrameStep(WatchdogProbes) \/ FrameStep(WatchdogMisses)
    \/ FrameStep(GuestReady) \/ FrameStep(GuestReceives)
    \/ \E tree \in SUBSET Nodes : FrameStep(GuestRenders(tree))
    \/ FrameStep(GuestActs) \/ FrameStep(GuestHangs) \/ FrameStep(GuestThrows)
    \/ HostStep \/ HostTimer \/ Paints \/ ShellChoice \/ FrameLost

Spec == Init /\ [][Next]_vars

(* Browsers deliver messages and fire timers; the Worker's event loop runs   *)
(* unless the guest spins.  Nothing obliges a guest or a resident to act.    *)
(* A heartbeat fires every few seconds: it is fair apart from the messages.  *)
Fairness ==
    /\ WF_vars(FrameStep(BrokerStep)) /\ WF_vars(FrameStep(GuestStep))
    /\ WF_vars(FrameStep(BootTimeout)) /\ WF_vars(FrameStep(FirstRenderTimeout))
    /\ WF_vars(FrameStep(WatchdogProbes)) /\ WF_vars(FrameStep(WatchdogMisses))
    /\ WF_vars(HostStep) /\ WF_vars(ReadyTimeout)
    /\ WF_vars(HeartbeatPings) /\ WF_vars(HeartbeatMisses) /\ WF_vars(Paints)

FairSpec == Spec /\ Fairness

-----------------------------------------------------------------------------
(* Safety. *)

(* Broker and host, each in its own order of handlers, timers and buffered   *)
(* state, never bring the other to a bridge_protocol_violation: no snapshot  *)
(* before the Worker is ready or with a revision that moved backward, no     *)
(* activation before a render, no acknowledgement nobody expected; and no    *)
(* render of a well-formed guest is out of sequence at either of them.       *)
PeersKeepProtocol ==
    failure \notin {"bridge_protocol_violation", "render_gap", "render_invalid"}

(* Once everything on the way to a running guest has arrived, what it holds  *)
(* is the last state the shell published, stale exactly if the shell said so *)
(* afterwards, whenever the shell spoke: before the frame was bound, while   *)
(* the artifact was verified, or after the Worker was ready.                 *)
GuestFollowsShell ==
    (guest = "running" /\ workerReady /\ toBroker = <<>> /\ toGuest = <<>>)
        => guestState = [revision |-> publishedStateRevision, stale |-> toldStale]

(* An interaction handed to the guest names a control that the guest itself  *)
(* left enabled in the render the interaction refers to, and that the shell  *)
(* has received.                                                             *)
ClicksReachLiveControls ==
    \A i \in DOMAIN toGuest :
        toGuest[i].kind = "interaction" =>
            /\ toGuest[i].render \in 1..hostRender
            /\ toGuest[i].node \in trees[toGuest[i].render]

(* An effect the broker lets out of the frame comes from a component whose   *)
(* interface the host had received and activated.                            *)
EffectsFollowActivation ==
    (\E i \in DOMAIN toHost : toHost[i].kind = "effect") => hostRender > 0

(* A click on an enabled control of the only tree a component has rendered   *)
(* does not terminate it: the broker refuses interactions for an old render  *)
(* or a disabled control only.                                               *)
LoneTreeTakesClicks == failure \in {"stale_render", "inactive_target"} => Len(trees) > 1

-----------------------------------------------------------------------------
(* Liveness. *)

(* A guest that stops answering is terminated, whatever phase it hung in:    *)
(* the boot timer, the first-render timer and the watchdog cover each other. *)
HungGuestIsStopped == guest = "hung" ~> guest = "absent"

(* While the frame stands, a mount becomes active or ends: no wait of the    *)
(* handshake is without a message or a timer that ends it.                   *)
MountDecides ==
    lifecycle \in {"starting", "bound", "staging"}
        ~> (lifecycle = "active" \/ Settled \/ phase = "lost")

(* Of a frame lost after the component was ready, the heartbeat tells.       *)
LostFrameIsNoticed == (phase = "lost" /\ lifecycle \in {"staging", "active"}) ~> Settled
=============================================================================
