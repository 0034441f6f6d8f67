------------------------- MODULE ComponentMountProofs -------------------------
(* Proofs of the safety properties of ComponentMount, for any components,  *)
(* limits and lengths of the queues.                                       *)
EXTENDS ComponentMount, TLAPS

-----------------------------------------------------------------------------
(* The inductive invariant. *)

(* What is in a queue, whatever the order. *)
Within(q) == {q[i] : i \in DOMAIN q}

(* The frame has not ended. *)
Standing == phase \notin {"closed", "lost", "removed"}

(* The broker and what the guest is told are as a new frame has them. *)
Fresh ==
    /\ active = FALSE /\ brokerRender = 0 /\ targets = {} /\ stateRevision = 1
    /\ workerProbe = 0 /\ toGuest = <<>> /\ guestState = Untold

FrameInv ==
    /\ phase # "ready" => Fresh /\ \A m \in Within(fromGuest) : m.kind = "ready"
    /\ phase \in {"unbound", "bound", "loading"} => guest = "absent"
    /\ phase \in {"unbound", "bound", "loading", "launched"} => trees = <<>>
    /\ ~Standing => guest = "absent" /\ toBroker = <<>> /\ fromGuest = <<>>
    /\ Settled <=> phase = "removed"
    /\ Settled => toHost = <<>>

(* What the host knows of the Worker is true, and it sends a runtime what   *)
(* needs a ready Worker only then.                                          *)
WorkerInv ==
    /\ lifecycle \in {"staging", "active"} => workerReady
    /\ workerReady => phase = "ready" \/ ~Standing
    /\ \A m \in Within(toHost) :
         /\ m.kind = "worker_ready" => phase = "ready" \/ ~Standing
         /\ m.kind = "active" => workerReady
    /\ \A m \in Within(toBroker) : m.kind \notin {"bind", "load"} => workerReady

(* The renders in a queue are those from base + 1 to top, in order. *)
Renders(q, base, top) ==
    /\ \A i \in DOMAIN q : q[i].kind = "render" => q[i].revision \in (base + 1)..top
    /\ \A r \in (base + 1)..top : \E i \in DOMAIN q : q[i].kind = "render" /\ q[i].revision = r
    /\ \A i, j \in DOMAIN q : i < j /\ q[i].kind = "render" /\ q[j].kind = "render"
          => q[i].revision < q[j].revision

RenderInv ==
    /\ Standing => /\ Renders(fromGuest, brokerRender, Len(trees))
                   /\ brokerRender <= Len(trees)
    /\ \E top \in Nat : /\ hostRender <= top /\ Renders(toHost, hostRender, top)
                        /\ Standing => top = brokerRender

TreesInv ==
    /\ \A m \in Within(fromGuest) :
          m.kind = "render" => m.revision \in DOMAIN trees /\ m.tree = trees[m.revision]
    /\ IF brokerRender = 0 THEN targets = {}
       ELSE brokerRender \in DOMAIN trees /\ targets = trees[brokerRender]
    /\ \A m \in Within(toBroker) : m.kind = "interaction" => m.render <= hostRender
    /\ ClicksReachLiveControls

ActivationInv ==
    /\ \A m \in Within(toBroker) : m.kind = "activate" => hostRender > 0 /\ brokerRender > 0
    /\ active => hostRender > 0
    /\ EffectsFollowActivation

(* The snapshots in a queue run from low to high, in order. *)
Ordered(q, low, high) ==
    /\ \A i \in DOMAIN q : q[i].kind = "snapshot" => low <= q[i].revision /\ q[i].revision <= high
    /\ \A i, j \in DOMAIN q : i < j /\ q[i].kind = "snapshot" /\ q[j].kind = "snapshot"
          => q[i].revision <= q[j].revision

(* Revisions of the home's state reach the broker in order. *)
RevisionInv ==
    /\ stateRevision <= publishedStateRevision
    /\ IF workerReady THEN pendingState = 0 /\ pendingStale = FALSE
       ELSE pendingState \in {0, publishedStateRevision} /\ stateRevision = 1
    /\ Ordered(toBroker, stateRevision, publishedStateRevision)

(* A probe on its way, in either direction, is the one that is pending. *)
OneProbe(ask, answer, kind, pending) ==
    /\ \A m \in Within(ask) : m.kind = kind => m.challenge = pending
    /\ \A m \in Within(answer) : m.kind = "pong" => m.challenge = pending
    /\ \A i, j \in DOMAIN ask : ask[i].kind = kind /\ ask[j].kind = kind => i = j
    /\ \A i, j \in DOMAIN answer : answer[i].kind = "pong" /\ answer[j].kind = "pong" => i = j
    /\ \A i \in DOMAIN ask, j \in DOMAIN answer : ~(ask[i].kind = kind /\ answer[j].kind = "pong")

ProbeInv ==
    /\ OneProbe(toGuest, fromGuest, "probe", workerProbe)
    /\ OneProbe(toBroker, toHost, "ping", hostProbe)

Violations == {"bridge_protocol_violation", "render_gap", "render_invalid"}

FailureInv ==
    /\ PeersKeepProtocol
    /\ \A m \in Within(toHost) : m.kind = "error" => m.code \notin Violations

(* The last message of the kinds in K, if there is one, is in S. *)
Void(q, K) == \A i \in DOMAIN q : q[i].kind \notin K
Ends(q, K, S) ==
    \A i \in DOMAIN q :
        q[i].kind \in K /\ (\A j \in DOMAIN q : i < j => q[j].kind \notin K) => q[i] \in S

(* On the way to the guest by way of the broker: first, then second.  The  *)
(* last word of the kinds in K that the guest awaits is in S.              *)
Awaited(first, second, K) == ~Void(first, K) \/ ~Void(second, K)
Word(first, second, K, S) ==
    Ends(first, K, S) /\ (Void(first, K) => Ends(second, K, S))

States == {"snapshot"}
Words  == {"snapshot", "stale"}
Of(revision)  == [kind: {"snapshot"}, revision: {revision}]
Saying(stale) == [kind: {IF stale THEN "stale" ELSE "snapshot"}, revision: 1..MaxRevision]

(* A guest in this state will have been told the revision and the mark. *)
WillKnow(first, second, state, revision, stale) ==
    /\ Word(first, second, States, Of(revision))
    /\ Awaited(first, second, States) \/ state.revision = revision
    /\ Word(first, second, Words, Saying(stale))
    /\ Awaited(first, second, Words) \/ state.stale = stale

WordInv ==
    /\ ~workerReady /\ ~Settled =>
         /\ pendingStale = toldStale
         /\ pendingState = 0 => publishedStateRevision = 1
    /\ phase = "ready" =>
         IF workerReady
         THEN WillKnow(toBroker, toGuest, guestState, publishedStateRevision, toldStale)
         ELSE WillKnow(toBroker, toGuest, guestState, 1, FALSE)

-----------------------------------------------------------------------------
(* Constants, messages and queues. *)

LEMMA Bounds ==
    /\ MissLimit \in Nat \ {0} /\ Challenges \in Nat \ {0}
    /\ MaxRevision \in Nat \ {0} /\ MaxRender \in Nat /\ MaxQueue \in Nat
    /\ HandlerOf \in [Nodes -> Handlers]
    /\ 1 \in Probes /\ 0 \in 0..(MissLimit - 1) /\ 1 \in 1..MaxRevision
BY BrokerAssumption, MountAssumption DEF BrokerAssumption, MountAssumption, Probes

LEMMA NextProbe ==
    ASSUME NEW c \in Probes
    PROVE  NextChallenge(c) \in Probes /\ c \in 0..Challenges /\ c # 0
BY Bounds DEF Probes, NextChallenge

(* What the two ends post. *)
LEMMA Posts ==
    /\ [kind |-> "bind"] \in HostMessages /\ [kind |-> "load"] \in HostMessages
    /\ [kind |-> "activate"] \in HostMessages
    /\ \A c \in Probes : [kind |-> "ping", challenge |-> c] \in HostMessages
    /\ \A r \in 1..MaxRevision : /\ [kind |-> "snapshot", revision |-> r] \in HostMessages
                                 /\ [kind |-> "stale", revision |-> r] \in HostMessages
    /\ \A r \in 0..MaxRender, n \in Handlers :
          [kind |-> "interaction", render |-> r, node |-> n] \in HostMessages
    /\ [kind |-> "bound"] \in BrokerMessages /\ [kind |-> "worker_ready"] \in BrokerMessages
    /\ [kind |-> "active"] \in BrokerMessages /\ [kind |-> "effect"] \in BrokerMessages
    /\ [kind |-> "terminated"] \in BrokerMessages
    /\ \A c \in Probes : [kind |-> "pong", challenge |-> c] \in BrokerMessages
    /\ \A f \in Faults : [kind |-> "error", code |-> f] \in BrokerMessages
BY DEF HostMessages, BrokerMessages

LEMMA WorkerPosts ==
    /\ \A c \in Probes : [kind |-> "probe", challenge |-> c] \in ToGuestMessages
    /\ \A r \in 1..MaxRevision : [kind |-> "snapshot", revision |-> r] \in ToGuestMessages
    /\ \A r \in 1..MaxRender, n \in Nodes :
          [kind |-> "interaction", render |-> r, node |-> n] \in ToGuestMessages
    /\ [kind |-> "ready"] \in GuestMessages /\ [kind |-> "effect"] \in GuestMessages
    /\ \A c \in Probes : [kind |-> "pong", challenge |-> c] \in GuestMessages
    /\ \A r \in 1..MaxRender, t \in SUBSET Nodes :
          [kind |-> "render", revision |-> r, tree |-> t] \in GuestMessages
BY DEF ToGuestMessages, GuestMessages

LEMMA HostFields ==
    ASSUME NEW m \in HostMessages
    PROVE  /\ m.kind \in {"bind", "load", "activate", "ping", "snapshot", "stale", "interaction"}
           /\ m.kind = "ping" => m.challenge \in Probes
           /\ m.kind \in {"snapshot", "stale"} =>
                 m.revision \in 1..MaxRevision /\ m \in ToGuestMessages
           /\ m.kind = "interaction" => m.render \in 0..MaxRender
BY DEF HostMessages, ToGuestMessages

LEMMA BrokerFields ==
    ASSUME NEW m \in BrokerMessages
    PROVE  /\ m.kind \in {"bound", "worker_ready", "active", "effect", "terminated", "pong",
                          "error", "render"}
           /\ m.kind = "pong" => m.challenge \in Probes
           /\ m.kind = "error" => m.code \in Faults
           /\ m.kind = "render" => m.revision \in 1..MaxRender /\ m.tree \in SUBSET Nodes
BY DEF BrokerMessages

LEMMA ToGuestFields ==
    ASSUME NEW m \in ToGuestMessages
    PROVE  /\ m.kind \in {"probe", "snapshot", "stale", "interaction"}
           /\ m.kind = "probe" => m.challenge \in Probes
           /\ m.kind \in {"snapshot", "stale"} => m.revision \in 1..MaxRevision
           /\ m.kind = "interaction" => m.render \in 1..MaxRender
BY DEF ToGuestMessages

LEMMA GuestFields ==
    ASSUME NEW m \in GuestMessages
    PROVE  /\ m.kind \in {"ready", "effect", "pong", "render"}
           /\ m.kind = "pong" => m.challenge \in Probes
           /\ m.kind = "render" => /\ m.revision \in 1..MaxRender /\ m.tree \in SUBSET Nodes
                                   /\ m \in BrokerMessages
BY DEF GuestMessages, BrokerMessages

(* A queue that gets a message, and one that loses its first. *)
LEMMA Appended ==
    ASSUME NEW M, NEW q \in Seq(M), NEW m \in M
    PROVE  /\ Append(q, m) \in Seq(M)
           /\ DOMAIN Append(q, m) = DOMAIN q \cup {Len(q) + 1}
           /\ \A i \in DOMAIN q : Append(q, m)[i] = q[i] /\ i < Len(q) + 1
           /\ Append(q, m)[Len(q) + 1] = m
           /\ DOMAIN q \subseteq Nat \ {0} /\ Len(q) + 1 \in Nat \ {0}
OBVIOUS

LEMMA Popped ==
    ASSUME NEW M, NEW q \in Seq(M), q # <<>>
    PROVE  /\ Tail(q) \in Seq(M) /\ Head(q) \in M
           /\ Head(q) = q[1] /\ 1 \in DOMAIN q
           /\ DOMAIN q \subseteq Nat \ {0} /\ DOMAIN Tail(q) \subseteq Nat \ {0}
           /\ \A i \in DOMAIN Tail(q) : i + 1 \in DOMAIN q /\ Tail(q)[i] = q[i + 1]
           /\ \A i \in DOMAIN q \ {1} : i - 1 \in DOMAIN Tail(q) /\ Tail(q)[i - 1] = q[i]
OBVIOUS

LEMMA WithinAppended ==
    ASSUME NEW M, NEW q \in Seq(M), NEW m \in M
    PROVE  Within(Append(q, m)) = Within(q) \cup {m}
BY Appended DEF Within

LEMMA WithinPopped ==
    ASSUME NEW M, NEW q \in Seq(M), q # <<>>
    PROVE  Within(Tail(q)) \subseteq Within(q) /\ Head(q) \in Within(q)
BY Popped DEF Within

LEMMA Empty ==
    /\ Within(<<>>) = {} /\ DOMAIN <<>> = {}
    /\ \A M : <<>> \in Seq(M)
BY DEF Within

LEMMA TwoAppended ==
    ASSUME NEW M, NEW q \in Seq(M), NEW a \in M, NEW b \in M
    PROVE  /\ q \o <<a, b>> = Append(Append(q, a), b)
           /\ q \o <<a>> = Append(q, a)
           /\ q \o <<>> = q
OBVIOUS

LEMMA ConcatAppended ==
    ASSUME NEW M, NEW q \in Seq(M)
    PROVE  /\ \A a, b \in M : q \o (<<a>> \o <<b>>) = Append(Append(q, a), b)
           /\ \A a \in M : q \o (<<a>> \o <<>>) = Append(q, a)
           /\ \A a \in M : q \o (<<>> \o <<a>>) = Append(q, a)
           /\ q \o (<<>> \o <<>>) = q
<1>1. ASSUME NEW a \in M, NEW b \in M
      PROVE  q \o (<<a>> \o <<b>>) = Append(Append(q, a), b)
  OBVIOUS
<1>2. ASSUME NEW a \in M
      PROVE  q \o (<<a>> \o <<>>) = Append(q, a) /\ q \o (<<>> \o <<a>>) = Append(q, a)
  OBVIOUS
<1>3. q \o (<<>> \o <<>>) = q
  OBVIOUS
<1> QED BY <1>1, <1>2, <1>3, Zenon

-----------------------------------------------------------------------------
(* Type correctness. *)

LEMMA Faulty ==
    ASSUME NEW m
    PROVE  HostFault(m) \in Faults \cup {None} /\ GuestFault(m) \in Faults \cup {None}
BY DEF HostFault, GuestFault, Faults

LEMMA FrameOnlyType ==
    ASSUME TypeOK, FrameTypeOK', UNCHANGED <<hostVars, shellVars>>
    PROVE  TypeOK'
BY DEF TypeOK, hostVars, shellVars, buffered, heartbeat, Settled

LEMMA FrameEndsType ==
    ASSUME TypeOK, NEW next \in Phases, FrameEnds(next), toHost' \in Seq(BrokerMessages)
    PROVE  FrameTypeOK'
<1>1. /\ toBroker' \in Seq(HostMessages) /\ toGuest' \in Seq(ToGuestMessages)
      /\ fromGuest' \in Seq(GuestMessages)
  BY Empty DEF FrameEnds
<1>2. phase' \in Phases /\ active' \in BOOLEAN /\ targets' \in SUBSET Nodes
  BY DEF FrameEnds
<1>3. /\ brokerRender' \in 0..MaxRender /\ stateRevision' \in 1..MaxRevision
      /\ workerProbe' \in 0..Challenges /\ nextWorkerProbe' \in Probes
      /\ missedWorker' \in 0..(MissLimit - 1)
  BY Bounds DEF FrameEnds, Probes
<1>4. /\ guest' \in {"absent", "starting", "running", "hung"}
      /\ guestState' \in [revision: 0..MaxRevision, stale: BOOLEAN]
      /\ trees' \in Seq(SUBSET Nodes)
  BY Bounds DEF FrameEnds, Untold, TypeOK, FrameTypeOK
<1> QED BY <1>1, <1>2, <1>3, <1>4 DEF FrameTypeOK

LEMMA TerminateType ==
    ASSUME TypeOK, NEW code \in Faults, Terminate(code)
    PROVE  FrameTypeOK'
<1> DEFINE error == [kind |-> "error", code |-> code]
           terminated == [kind |-> "terminated"]
<1>1. error \in BrokerMessages /\ terminated \in BrokerMessages /\ toHost \in Seq(BrokerMessages)
  BY Posts DEF TypeOK, FrameTypeOK
<1>2. toHost' = toHost \o <<error, terminated>>
  BY DEF Terminate
<1> HIDE DEF error, terminated
<1>3. toHost' \in Seq(BrokerMessages)
  BY <1>1, <1>2
<1> QED BY <1>3, FrameEndsType DEF Terminate, Phases

(* Every end of the frame that the broker decides. *)
BrokerEnds ==
    \/ BrokerRejectsArtifact \/ BrokerRefusesHost \/ BrokerRefusesGuest
    \/ BootTimeout \/ FirstRenderTimeout
    \/ WatchdogMisses /\ missedWorker + 1 >= MissLimit
    \/ GuestThrows

LEMMA BrokerEndsTerminates ==
    ASSUME BrokerEnds
    PROVE  \E code \in Faults :
              /\ Terminate(code)
              /\ \/ code \notin Violations
                 \/ toBroker # <<>> /\ code = HostFault(Head(toBroker))
                    /\ Head(toBroker).kind \notin {"bind", "load"}
                 \/ fromGuest # <<>> /\ code = GuestFault(Head(fromGuest))
<1>1. CASE BrokerRefusesHost
  BY <1>1, Faulty DEF BrokerRefusesHost
<1>2. CASE BrokerRefusesGuest
  BY <1>2, Faulty DEF BrokerRefusesGuest
<1>3. CASE BrokerRejectsArtifact
  BY <1>3 DEF BrokerRejectsArtifact, Faults, Violations
<1>4. CASE BootTimeout \/ FirstRenderTimeout \/ GuestThrows
  BY <1>4 DEF BootTimeout, FirstRenderTimeout, GuestThrows, Faults, Violations
<1>5. CASE WatchdogMisses /\ missedWorker + 1 >= MissLimit
  BY <1>5 DEF WatchdogMisses, Faults, Violations
<1> QED BY <1>1, <1>2, <1>3, <1>4, <1>5 DEF BrokerEnds

LEMMA FrameQueues ==
    ASSUME TypeOK
    PROVE  /\ toBroker \in Seq(HostMessages) /\ toHost \in Seq(BrokerMessages)
           /\ toGuest \in Seq(ToGuestMessages) /\ fromGuest \in Seq(GuestMessages)
           /\ trees \in Seq(SUBSET Nodes)
BY DEF TypeOK, FrameTypeOK

(* Messages of the host that the broker takes. *)
LEMMA TakesType ==
    ASSUME TypeOK, NEW kind, Takes(kind)
    PROVE  /\ toBroker' \in Seq(HostMessages) /\ Head(toBroker) \in HostMessages
           /\ Head(toBroker).kind = kind /\ toBroker # <<>> /\ toBroker' = Tail(toBroker)
BY FrameQueues, Popped DEF Takes

LEMMA HearsType ==
    ASSUME TypeOK, NEW kind, Hears(kind)
    PROVE  /\ fromGuest' \in Seq(GuestMessages) /\ Head(fromGuest) \in GuestMessages
           /\ Head(fromGuest).kind = kind /\ fromGuest # <<>> /\ fromGuest' = Tail(fromGuest)
           /\ GuestFault(Head(fromGuest)) = None
BY FrameQueues, Popped DEF Hears

LEMMA BrokerHostType ==
    ASSUME TypeOK,
           \/ BrokerBinds \/ BrokerLoads \/ BrokerActivates \/ BrokerAnswersPing
           \/ BrokerSnapshot \/ BrokerStale
    PROVE  FrameTypeOK'
<1>0. TypeOK /\ FrameTypeOK
  BY DEF TypeOK
<1>a. \A m \in BrokerMessages : Append(toHost, m) \in Seq(BrokerMessages)
  BY FrameQueues, Appended
<1>b. \A m \in ToGuestMessages : Append(toGuest, m) \in Seq(ToGuestMessages)
  BY FrameQueues, Appended
<1>1. CASE BrokerBinds
  <2>1. toBroker' \in Seq(HostMessages) /\ toHost' \in Seq(BrokerMessages)
    BY <1>1, <1>a, TakesType, Posts DEF BrokerBinds
  <2> QED BY <1>0, <1>1, <2>1
          DEF BrokerBinds, FrameTypeOK, Phases, rendered, watchdog, guestVars
<1>2. CASE BrokerLoads
  <2>1. toBroker' \in Seq(HostMessages)
    BY <1>2, TakesType DEF BrokerLoads
  <2> QED BY <1>0, <1>2, <2>1
          DEF BrokerLoads, FrameTypeOK, Phases, rendered, watchdog, guestVars
<1>3. CASE BrokerActivates
  <2>1. toBroker' \in Seq(HostMessages) /\ toHost' \in Seq(BrokerMessages)
    BY <1>3, <1>a, TakesType, Posts DEF BrokerActivates, Accepts
  <2> QED BY <1>0, <1>3, <2>1
          DEF BrokerActivates, FrameTypeOK, rendered, watchdog, guestVars
<1>4. CASE BrokerAnswersPing
  <2>1. toBroker' \in Seq(HostMessages) /\ Head(toBroker).challenge \in Probes
    BY <1>4, TakesType, HostFields DEF BrokerAnswersPing, Accepts
  <2>2. [kind |-> "pong", challenge |-> Head(toBroker).challenge] \in BrokerMessages
    BY <2>1, Posts
  <2>3. toHost' \in Seq(BrokerMessages)
    BY <1>4, <1>a, <2>2 DEF BrokerAnswersPing
  <2> QED BY <1>0, <1>4, <2>1, <2>3
          DEF BrokerAnswersPing, FrameTypeOK, rendered, watchdog, guestVars
<1>5. CASE BrokerSnapshot
  <2>1. /\ toBroker' \in Seq(HostMessages) /\ Head(toBroker) \in ToGuestMessages
        /\ Head(toBroker).revision \in 1..MaxRevision
    BY <1>5, TakesType, HostFields DEF BrokerSnapshot, Accepts
  <2>2. toGuest' \in Seq(ToGuestMessages)
    BY <1>5, <1>b, <2>1 DEF BrokerSnapshot
  <2> QED BY <1>0, <1>5, <2>1, <2>2
          DEF BrokerSnapshot, FrameTypeOK, rendered, watchdog, guestVars
<1>6. CASE BrokerStale
  <2>1. /\ toBroker' \in Seq(HostMessages) /\ Head(toBroker) \in ToGuestMessages
    BY <1>6, TakesType, HostFields DEF BrokerStale, Accepts
  <2>2. toGuest' \in Seq(ToGuestMessages)
    BY <1>6, <1>b, <2>1 DEF BrokerStale
  <2> QED BY <1>0, <1>6, <2>1, <2>2
          DEF BrokerStale, FrameTypeOK, rendered, watchdog, guestVars
<1> QED BY <1>1, <1>2, <1>3, <1>4, <1>5, <1>6

(* An interaction the broker accepts names an enabled control of its last  *)
(* render, the one the host meant.                                         *)
LEMMA AcceptedInteraction ==
    ASSUME TypeOK, TreesInv, BrokerInteraction
    PROVE  /\ Head(toBroker) \in Within(toBroker) /\ Head(toBroker).kind = "interaction"
           /\ Head(toBroker).render = brokerRender /\ Head(toBroker).node \in targets
           /\ brokerRender # 0 /\ brokerRender \in 1..MaxRender
           /\ targets = trees[brokerRender] /\ targets \subseteq Nodes
<1>1. /\ Head(toBroker).kind = "interaction" /\ HostFault(Head(toBroker)) = None
      /\ Head(toBroker) \in Within(toBroker)
  BY FrameQueues, WithinPopped DEF BrokerInteraction, Accepts, Takes
<1>2. Head(toBroker).render = brokerRender /\ Head(toBroker).node \in targets
  BY <1>1 DEF HostFault, None
<1>3. brokerRender # 0 /\ targets = trees[brokerRender]
  BY <1>2 DEF TreesInv
<1>4. brokerRender \in 0..MaxRender /\ targets \subseteq Nodes
  BY DEF TypeOK, FrameTypeOK
<1>5. brokerRender \in 1..MaxRender
  BY <1>3, <1>4, Bounds
<1> QED BY <1>1, <1>2, <1>3, <1>4, <1>5

LEMMA BrokerGuestType ==
    ASSUME TypeOK, TreesInv,
           \/ BrokerInteraction \/ BrokerLaunches \/ BrokerWorkerReady \/ BrokerRender
           \/ BrokerPong \/ BrokerEffect \/ WatchdogProbes
           \/ WatchdogMisses /\ missedWorker + 1 < MissLimit
    PROVE  FrameTypeOK'
<1>0. TypeOK /\ FrameTypeOK
  BY DEF TypeOK
<1>a. \A m \in BrokerMessages : Append(toHost, m) \in Seq(BrokerMessages)
  BY FrameQueues, Appended
<1>b. \A m \in ToGuestMessages : Append(toGuest, m) \in Seq(ToGuestMessages)
  BY FrameQueues, Appended
<1>c. /\ nextWorkerProbe \in Probes /\ NextChallenge(nextWorkerProbe) \in Probes
      /\ nextWorkerProbe \in 0..Challenges /\ 0 \in 0..Challenges
      /\ Probe \in ToGuestMessages
  BY <1>0, NextProbe, WorkerPosts, Bounds DEF FrameTypeOK, Probe
<1>1. CASE BrokerInteraction
  <2>1. /\ toBroker' \in Seq(HostMessages)
    BY <1>1, TakesType DEF BrokerInteraction, Accepts
  <2>2. [kind |-> "interaction", render |-> brokerRender, node |-> Head(toBroker).node]
           \in ToGuestMessages
    BY <1>1, AcceptedInteraction, WorkerPosts
  <2>3. toGuest' \in Seq(ToGuestMessages)
    BY <1>1, <1>b, <2>2 DEF BrokerInteraction
  <2> QED BY <1>0, <1>1, <2>1, <2>3
          DEF BrokerInteraction, FrameTypeOK, rendered, watchdog, guestVars
<1>2. CASE BrokerLaunches
  BY <1>0, <1>2 DEF BrokerLaunches, FrameTypeOK, Phases, channels, rendered, watchdog
<1>3. CASE BrokerWorkerReady
  <2>1. fromGuest' \in Seq(GuestMessages) /\ toHost' \in Seq(BrokerMessages)
    BY <1>3, <1>a, HearsType, Posts DEF BrokerWorkerReady
  <2> DEFINE first == [kind |-> "snapshot", revision |-> stateRevision]
  <2>2. first \in ToGuestMessages
    BY <1>0, WorkerPosts DEF FrameTypeOK
  <2>3. toGuest' = toGuest \o <<first, Probe>>
    BY <1>3 DEF BrokerWorkerReady
  <2> HIDE DEF first
  <2>4. toGuest' = Append(Append(toGuest, first), Probe)
    BY <1>c, <2>2, <2>3, FrameQueues, TwoAppended
  <2>5. toGuest' \in Seq(ToGuestMessages)
    BY <1>c, <2>2, <2>4, FrameQueues, Appended
  <2>6. workerProbe' \in 0..Challenges /\ nextWorkerProbe' \in Probes
    BY <1>3, <1>c DEF BrokerWorkerReady, ProbeSent
  <2> QED BY <1>0, <1>3, <2>1, <2>5, <2>6
          DEF BrokerWorkerReady, FrameTypeOK, Phases, rendered, guestVars
<1>4. CASE BrokerRender
  <2>1. /\ fromGuest' \in Seq(GuestMessages) /\ Head(fromGuest) \in BrokerMessages
        /\ Head(fromGuest).revision \in 1..MaxRender /\ Head(fromGuest).tree \in SUBSET Nodes
    BY <1>4, HearsType, GuestFields DEF BrokerRender
  <2>2. toHost' \in Seq(BrokerMessages)
    BY <1>4, <1>a, <2>1 DEF BrokerRender
  <2>3. brokerRender' \in 0..MaxRender /\ targets' \in SUBSET Nodes
    BY <1>4, <2>1, Bounds DEF BrokerRender
  <2> QED BY <1>0, <1>4, <2>1, <2>2, <2>3
          DEF BrokerRender, FrameTypeOK, watchdog, guestVars
<1>5. CASE BrokerPong
  <2>1. fromGuest' \in Seq(GuestMessages)
    BY <1>5, HearsType DEF BrokerPong
  <2> QED BY <1>0, <1>5, <1>c, <2>1, Bounds DEF BrokerPong, FrameTypeOK, rendered, guestVars
<1>6. CASE BrokerEffect
  <2>1. fromGuest' \in Seq(GuestMessages) /\ toHost' \in Seq(BrokerMessages)
    BY <1>6, <1>a, HearsType, Posts DEF BrokerEffect
  <2> QED BY <1>0, <1>6, <2>1 DEF BrokerEffect, FrameTypeOK, rendered, watchdog, guestVars
<1>7. CASE WatchdogProbes
  <2>1. /\ toGuest' \in Seq(ToGuestMessages)
        /\ workerProbe' \in 0..Challenges /\ nextWorkerProbe' \in Probes
    BY <1>7, <1>b, <1>c DEF WatchdogProbes, ProbeSent
  <2> QED BY <1>0, <1>7, <2>1 DEF WatchdogProbes, FrameTypeOK, rendered, guestVars
<1>8. CASE WatchdogMisses /\ missedWorker + 1 < MissLimit
  <2>1. /\ missedWorker' = missedWorker + 1
        /\ UNCHANGED <<channels, phase, active, rendered, stateRevision, workerProbe,
                       nextWorkerProbe, guestVars>>
    <3>1. ~(missedWorker + 1 >= MissLimit)
      <4>1. missedWorker \in 0..(MissLimit - 1)
        BY <1>0 DEF FrameTypeOK
      <4> QED BY <1>8, <4>1, Bounds
    <3> QED BY <1>8, <3>1 DEF WatchdogMisses
  <2>2. missedWorker' \in 0..(MissLimit - 1)
    <3>1. missedWorker \in 0..(MissLimit - 1)
      BY <1>0 DEF FrameTypeOK
    <3> QED BY <1>8, <2>1, <3>1, Bounds
  <2> QED BY <1>0, <2>1, <2>2 DEF FrameTypeOK, channels, rendered, guestVars
<1> QED BY <1>1, <1>2, <1>3, <1>4, <1>5, <1>6, <1>7, <1>8

LEMMA GuestType ==
    ASSUME TypeOK,
           \/ GuestReady \/ GuestReceives \/ GuestActs \/ GuestHangs
           \/ \E tree \in SUBSET Nodes : GuestRenders(tree)
    PROVE  FrameTypeOK'
<1>0. TypeOK /\ FrameTypeOK
  BY DEF TypeOK
<1>a. \A m \in GuestMessages : Append(fromGuest, m) \in Seq(GuestMessages)
  BY FrameQueues, Appended
<1>1. CASE GuestReady
  BY <1>0, <1>1, <1>a, WorkerPosts DEF GuestReady, FrameTypeOK, rendered, watchdog
<1>2. CASE GuestReceives
  <2> DEFINE m == Head(toGuest)
  <2>1. toGuest' \in Seq(ToGuestMessages) /\ m \in ToGuestMessages
    BY <1>2, FrameQueues, Popped DEF GuestReceives
  <2>2. fromGuest' \in Seq(GuestMessages)
    <3>1. m.kind = "probe" => [kind |-> "pong", challenge |-> m.challenge] \in GuestMessages
      BY <2>1, ToGuestFields, WorkerPosts
    <3>2. fromGuest' = IF m.kind = "probe"
                       THEN Append(fromGuest, [kind |-> "pong", challenge |-> m.challenge])
                       ELSE fromGuest
      BY <1>2 DEF GuestReceives
    <3> QED BY <1>a, <3>1, <3>2, FrameQueues
  <2>3. guestState' \in [revision: 0..MaxRevision, stale: BOOLEAN]
    <3>0. guestState \in [revision: 0..MaxRevision, stale: BOOLEAN]
      BY <1>0 DEF FrameTypeOK
    <3>1. \/ guestState' = guestState
          \/ guestState' = [guestState EXCEPT !.stale = TRUE]
          \/ m.kind = "snapshot" /\ guestState' = [revision |-> m.revision, stale |-> FALSE]
      BY <1>2 DEF GuestReceives
    <3>2. m.kind = "snapshot" => m.revision \in 0..MaxRevision
      BY <2>1, ToGuestFields, Bounds
    <3>3. [guestState EXCEPT !.stale = TRUE] \in [revision: 0..MaxRevision, stale: BOOLEAN]
      BY <3>0
    <3>4. m.kind = "snapshot" =>
            [revision |-> m.revision, stale |-> FALSE] \in [revision: 0..MaxRevision, stale: BOOLEAN]
      BY <3>2
    <3> QED BY <3>0, <3>1, <3>3, <3>4, Zenon
  <2> QED BY <1>0, <1>2, <2>1, <2>2, <2>3 DEF GuestReceives, FrameTypeOK, rendered, watchdog
<1>3. ASSUME NEW tree \in SUBSET Nodes, GuestRenders(tree) PROVE FrameTypeOK'
  <2> DEFINE m == [kind |-> "render", revision |-> Len(trees) + 1, tree |-> tree]
  <2>1. Len(trees) + 1 \in 1..MaxRender
    BY <1>3, FrameQueues, Bounds DEF GuestRenders
  <2>2. m \in GuestMessages
    BY <2>1, WorkerPosts
  <2>3. fromGuest' \in Seq(GuestMessages) /\ trees' \in Seq(SUBSET Nodes)
    BY <1>3, <1>a, <2>2, FrameQueues, Appended DEF GuestRenders
  <2> QED BY <1>0, <1>3, <2>3 DEF GuestRenders, FrameTypeOK, rendered, watchdog
<1>4. CASE GuestActs
  BY <1>0, <1>4, <1>a, WorkerPosts DEF GuestActs, FrameTypeOK, rendered, watchdog, guestVars
<1>5. CASE GuestHangs
  BY <1>0, <1>5 DEF GuestHangs, FrameTypeOK, channels, rendered, watchdog
<1> QED BY <1>1, <1>2, <1>3, <1>4, <1>5

(* The steps of the frame by itself. *)
FrameMoves ==
    \/ BrokerEnds
    \/ BrokerBinds \/ BrokerLoads \/ BrokerActivates \/ BrokerAnswersPing
    \/ BrokerSnapshot \/ BrokerStale
    \/ BrokerInteraction \/ BrokerLaunches \/ BrokerWorkerReady \/ BrokerRender
    \/ BrokerPong \/ BrokerEffect \/ WatchdogProbes
    \/ WatchdogMisses /\ missedWorker + 1 < MissLimit
    \/ GuestReady \/ GuestReceives \/ GuestActs \/ GuestHangs
    \/ \E tree \in SUBSET Nodes : GuestRenders(tree)

LEMMA FrameMovesType ==
    ASSUME TypeOK, TreesInv, FrameMoves
    PROVE  FrameTypeOK'
BY BrokerEndsTerminates, TerminateType, BrokerHostType, BrokerGuestType, GuestType
   DEF FrameMoves

(* A step of the application is one of the frame, with the host at rest,   *)
(* or one of the host or the shell.                                        *)
HostMoves == HostStep \/ HostTimer \/ Paints \/ ShellChoice \/ FrameLost

LEMMA Moves ==
    ASSUME TypeOK, Next
    PROVE  (FrameMoves /\ UNCHANGED <<hostVars, shellVars>>) \/ HostMoves
<1>1. missedWorker + 1 >= MissLimit \/ missedWorker + 1 < MissLimit
  BY Bounds DEF TypeOK, FrameTypeOK
<1> QED BY <1>1, Zenon DEF Next, FrameStep, FrameMoves, BrokerEnds, HostMoves

(* The steps of the host. *)
HostEnds ==
    \/ HostFails \/ ReadyTimeout \/ Unmount
    \/ HeartbeatMisses /\ missedHost + 1 >= MissLimit

HostMisses == HeartbeatMisses /\ missedHost + 1 < MissLimit

HostHears == HostBound \/ HostWorkerReady \/ HostRender \/ HostActive \/ HostPong

Published == \E revision \in 1..MaxRevision : publishState(revision)

LEMMA HostCases ==
    ASSUME TypeOK, HostMoves
    PROVE  \/ HostEnds \/ HostMisses \/ HostHears \/ FrameLost \/ Paints
           \/ HostBinds \/ HeartbeatPings \/ Published \/ markStateStale
           \/ \E node \in Nodes : interact(node)
<1>1. missedHost + 1 >= MissLimit \/ missedHost + 1 < MissLimit
  <2>1. missedHost \in 0..(MissLimit - 1)
    BY DEF TypeOK
  <2> QED BY <2>1, Bounds
<1> QED BY <1>1, Zenon DEF HostMoves, HostStep, HostTimer, ShellChoice, HostEnds, HostMisses,
                           HostHears, Published

LEMMA Thrown ==
    ASSUME NEW m \in BrokerMessages
    PROVE  HostThrows(m) \in HostFailures
BY BrokerFields DEF HostThrows, HostFailures, Faults

LEMMA HostEndsSettles ==
    ASSUME TypeOK, HostEnds
    PROVE  \E next \in {"failed", "terminated"}, code \in HostFailures :
              /\ Settle(next, code)
              /\ \/ code \notin Violations
                 \/ toHost # <<>> /\ code = HostThrows(Head(toHost))
<1>1. CASE HostFails
  <2>1. HostThrows(Head(toHost)) \in HostFailures
    BY <1>1, FrameQueues, Popped, Thrown DEF HostFails
  <2> QED BY <1>1, <2>1 DEF HostFails
<1>2. CASE ReadyTimeout \/ Unmount
  BY <1>2 DEF ReadyTimeout, Unmount, HostFailures, Violations, None
<1>3. CASE HeartbeatMisses /\ missedHost + 1 >= MissLimit
  BY <1>3 DEF HeartbeatMisses, HostFailures, Violations, Faults
<1> QED BY <1>1, <1>2, <1>3 DEF HostEnds

LEMMA SettleType ==
    ASSUME TypeOK, NEW next \in {"failed", "terminated"}, NEW code \in HostFailures,
           Settle(next, code)
    PROVE  TypeOK'
<1>1. FrameTypeOK'
  <2>1. toHost' \in Seq(BrokerMessages)
    BY Empty DEF Settle
  <2> QED BY <2>1, FrameEndsType DEF Settle, Phases
<1>2. pendingState' \in 0..MaxRevision
  BY Bounds DEF Settle
<1> QED BY <1>1, <1>2 DEF Settle, TypeOK, heartbeat, shellVars

LEMMA FrameLostType ==
    ASSUME TypeOK, FrameLost
    PROVE  TypeOK'
<1>1. FrameTypeOK'
  <2>1. toHost' \in Seq(BrokerMessages) /\ FrameEnds("lost")
    BY FrameQueues DEF FrameLost
  <2> QED BY <2>1, FrameEndsType DEF Phases
<1> QED BY <1>1, FrameOnlyType DEF FrameLost

(* What a post makes of the queue to the broker. *)
LEMMA PostsNone == TypeOK => Posted(<<>>) = toBroker
BY FrameQueues DEF Posted

LEMMA PostsOne ==
    ASSUME TypeOK, NEW m \in HostMessages
    PROVE  /\ Posted(<<m>>) = IF phase \in {"closed", "lost"} THEN toBroker ELSE Append(toBroker, m)
           /\ Posted(<<m>>) \in Seq(HostMessages)
<1>1. toBroker \o <<m>> = Append(toBroker, m) /\ toBroker \in Seq(HostMessages)
  BY FrameQueues, TwoAppended
<1>2. Append(toBroker, m) \in Seq(HostMessages)
  BY <1>1, Appended
<1> QED BY <1>1, <1>2, Zenon DEF Posted

LEMMA PostFrameType ==
    ASSUME TypeOK, NEW m \in HostMessages, Post(<<m>>)
    PROVE  FrameTypeOK'
BY PostsOne DEF Post, TypeOK, FrameTypeOK, rendered, watchdog, guestVars

(* A message of the broker that the host takes. *)
LEMMA ReceivesType ==
    ASSUME TypeOK, NEW kind, NEW answers, Receives(kind, answers)
    PROVE  /\ toHost # <<>> /\ toHost' = Tail(toHost) /\ toHost' \in Seq(BrokerMessages)
           /\ Head(toHost) \in BrokerMessages /\ Head(toHost).kind = kind
           /\ Head(toHost) \in Within(toHost)
           /\ HostThrows(Head(toHost)) = None /\ toBroker' = Posted(answers)
BY FrameQueues, Popped, WithinPopped DEF Receives

LEMMA ReceivesFrameType ==
    ASSUME TypeOK, NEW kind, NEW answers, Receives(kind, answers),
           Posted(answers) \in Seq(HostMessages)
    PROVE  FrameTypeOK'
BY ReceivesType DEF Receives, TypeOK, FrameTypeOK, rendered, watchdog, guestVars

(* The two messages that may have been withheld, one after the other. *)
LEMMA BufferedPosts ==
    ASSUME TypeOK
    PROVE  /\ Posted(Buffered) \in Seq(HostMessages)
           /\ phase \notin {"closed", "lost"} =>
                LET one == [kind |-> "snapshot", revision |-> pendingState]
                    two == [kind |-> "stale", revision |-> publishedStateRevision]
                IN  Posted(Buffered) =
                       IF pendingState = 0
                       THEN IF pendingStale THEN Append(toBroker, two) ELSE toBroker
                       ELSE IF pendingStale THEN Append(Append(toBroker, one), two)
                            ELSE Append(toBroker, one)
           /\ phase \in {"closed", "lost"} => Posted(Buffered) = toBroker
<1> DEFINE one == [kind |-> "snapshot", revision |-> pendingState]
           two == [kind |-> "stale", revision |-> publishedStateRevision]
<1>1. /\ pendingState # 0 => one \in HostMessages
      /\ two \in HostMessages /\ toBroker \in Seq(HostMessages)
  <2>1. pendingState # 0 => pendingState \in 1..MaxRevision
    BY Bounds DEF TypeOK
  <2> QED BY <2>1, Posts, FrameQueues DEF TypeOK
<1>2. Buffered = (IF pendingState = 0 THEN <<>> ELSE <<one>>)
                 \o (IF pendingStale THEN <<two>> ELSE <<>>)
  BY Zenon DEF Buffered
<1> HIDE DEF one, two
<1>3. CASE pendingState = 0
  <2>1. toBroker \o Buffered = IF pendingStale THEN Append(toBroker, two) ELSE toBroker
    BY <1>1, <1>2, <1>3, ConcatAppended, Zenon
  <2>2. Append(toBroker, two) \in Seq(HostMessages)
    BY <1>1, Appended
  <2> QED BY <1>1, <1>3, <2>1, <2>2, Zenon DEF Posted, one, two
<1>4. CASE pendingState # 0
  <2>1. toBroker \o Buffered = IF pendingStale THEN Append(Append(toBroker, one), two)
                               ELSE Append(toBroker, one)
    <3>1. Buffered = <<one>> \o (IF pendingStale THEN <<two>> ELSE <<>>)
      BY <1>2, <1>4, Zenon
    <3>2. toBroker \o (<<one>> \o <<two>>) = Append(Append(toBroker, one), two)
      BY <1>1, <1>4, ConcatAppended
    <3>3. toBroker \o (<<one>> \o <<>>) = Append(toBroker, one)
      BY <1>1, <1>4, ConcatAppended
    <3> QED BY <3>1, <3>2, <3>3, Zenon
  <2>2. Append(toBroker, one) \in Seq(HostMessages)
    BY <1>1, <1>4, Appended
  <2>3. Append(Append(toBroker, one), two) \in Seq(HostMessages)
    BY <1>1, <2>2, Appended
  <2>4. toBroker \o Buffered \in Seq(HostMessages)
    BY <2>1, <2>2, <2>3, Zenon
  <2>5. Posted(Buffered) = IF phase \in {"closed", "lost"} THEN toBroker ELSE toBroker \o Buffered
    BY DEF Posted
  <2> QED BY <1>1, <1>4, <2>1, <2>4, <2>5, Zenon DEF one, two
<1> QED BY <1>3, <1>4

LEMMA HostHearsType ==
    ASSUME TypeOK, HostHears
    PROVE  TypeOK'
<1>0. Posted(<<>>) \in Seq(HostMessages)
  BY PostsNone, FrameQueues
<1>1. CASE HostBound
  <2>1. Receives("bound", <<[kind |-> "load"]>>)
    BY <1>1 DEF HostBound
  <2>2. FrameTypeOK'
    BY <2>1, PostsOne, ReceivesFrameType, Posts
  <2> QED BY <1>1, <2>2 DEF HostBound, Receives, TypeOK, buffered, shellVars
<1>2. CASE HostWorkerReady
  <2>1. Receives("worker_ready", Buffered)
    BY <1>2 DEF HostWorkerReady
  <2>2. FrameTypeOK'
    BY <2>1, BufferedPosts, ReceivesFrameType
  <2>3. pendingState' \in 0..MaxRevision
    BY <1>2, Bounds DEF HostWorkerReady
  <2> QED BY <1>2, <2>2, <2>3 DEF HostWorkerReady, Receives, TypeOK, shellVars
<1>3. CASE HostRender
  <2> DEFINE answers == IF lifecycle = "staging" THEN <<[kind |-> "activate"]>> ELSE <<>>
  <2>1. Receives("render", answers) /\ Posted(answers) \in Seq(HostMessages)
    BY <1>0, <1>3, PostsOne, Posts DEF HostRender
  <2> HIDE DEF answers
  <2>2. FrameTypeOK'
    BY <2>1, ReceivesFrameType
  <2>3. /\ Head(toHost).revision \in 1..MaxRender /\ Head(toHost).tree \in SUBSET Nodes
        /\ HostThrows(Head(toHost)) = None /\ Head(toHost).kind = "render"
    BY <2>1, ReceivesType, BrokerFields
  <2>4. Head(toHost).revision = hostRender + 1
    BY <2>3 DEF HostThrows, None
  <2>5. hostRender' \in 0..MaxRender /\ hostTree' \in SUBSET Nodes
    BY <1>3, <2>3, <2>4, Bounds DEF HostRender
  <2> QED BY <1>3, <2>2, <2>5 DEF HostRender, Receives, TypeOK, buffered, shellVars
<1>4. CASE HostActive
  <2>1. FrameTypeOK'
    BY <1>0, <1>4, ReceivesFrameType DEF HostActive
  <2> QED BY <1>4, <2>1 DEF HostActive, Receives, TypeOK, buffered, shellVars
<1>5. CASE HostPong
  <2>1. FrameTypeOK'
    BY <1>0, <1>5, ReceivesFrameType DEF HostPong
  <2>2. hostProbe' \in 0..Challenges /\ missedHost' \in 0..(MissLimit - 1)
    BY <1>5, Bounds DEF HostPong
  <2> QED BY <1>5, <2>1, <2>2 DEF HostPong, Receives, TypeOK, buffered, shellVars
<1> QED BY <1>1, <1>2, <1>3, <1>4, <1>5 DEF HostHears

(* A state or a mark that the shell gives the session. *)
LEMMA ShellPostsType ==
    ASSUME TypeOK, Published \/ markStateStale
    PROVE  TypeOK'
<1>1. ASSUME NEW revision \in 1..MaxRevision, publishState(revision)
      PROVE  TypeOK'
  <2>1. [kind |-> "snapshot", revision |-> revision] \in HostMessages
    BY Posts
  <2>2. FrameTypeOK'
    BY <1>1, <2>1, PostFrameType
       DEF publishState, TypeOK, FrameTypeOK, frameVars, channels, rendered, watchdog, guestVars
  <2>3. pendingState' \in 0..MaxRevision /\ publishedStateRevision' \in 1..MaxRevision
    BY <1>1, Bounds DEF publishState, TypeOK
  <2> QED BY <1>1, <2>2, <2>3 DEF publishState, TypeOK, heartbeat
<1>2. CASE markStateStale
  <2>1. [kind |-> "stale", revision |-> publishedStateRevision] \in HostMessages
    BY Posts DEF TypeOK
  <2>2. FrameTypeOK'
    BY <1>2, <2>1, PostFrameType
       DEF markStateStale, TypeOK, FrameTypeOK, frameVars, channels, rendered, watchdog, guestVars
  <2> QED BY <1>2, <2>2 DEF markStateStale, TypeOK, heartbeat
<1> QED BY <1>1, <1>2 DEF Published

LEMMA HostPostsType ==
    ASSUME TypeOK, HostBinds \/ HeartbeatPings \/ \E node \in Nodes : interact(node)
    PROVE  TypeOK'
<1>1. CASE HostBinds
  <2>1. FrameTypeOK'
    BY <1>1, Posts, PostFrameType DEF HostBinds
  <2> QED BY <1>1, <2>1 DEF HostBinds, TypeOK, buffered, heartbeat, shellVars
<1>2. CASE HeartbeatPings
  <2>1. nextHostProbe \in Probes
    BY DEF TypeOK
  <2>2. FrameTypeOK'
    BY <1>2, <2>1, Posts, PostFrameType DEF HeartbeatPings
  <2>3. hostProbe' \in 0..Challenges /\ nextHostProbe' \in Probes
    BY <1>2, <2>1, NextProbe DEF HeartbeatPings
  <2> QED BY <1>2, <2>2, <2>3 DEF HeartbeatPings, TypeOK, buffered, shellVars
<1>3. ASSUME NEW node \in Nodes, interact(node) PROVE TypeOK'
  <2>1. [kind |-> "interaction", render |-> hostRender, node |-> HandlerOf[node]] \in HostMessages
    BY Posts, Bounds DEF TypeOK
  <2>2. FrameTypeOK'
    BY <1>3, <2>1, PostFrameType DEF interact
  <2> QED BY <1>3, <2>2, FrameOnlyType DEF interact
<1> QED BY <1>1, <1>2, <1>3

LEMMA HostMovesType ==
    ASSUME TypeOK, HostMoves
    PROVE  TypeOK'
<1>1. CASE HostEnds
  BY <1>1, HostEndsSettles, SettleType
<1>2. CASE HostMisses
  <2>1. missedHost \in 0..(MissLimit - 1)
    BY DEF TypeOK
  <2>2. ~(missedHost + 1 >= MissLimit) /\ missedHost + 1 \in 0..(MissLimit - 1)
    BY <1>2, <2>1, Bounds DEF HostMisses
  <2>3. /\ missedHost' = missedHost + 1
        /\ UNCHANGED <<frameVars, lifecycle, port, hostRender, hostTree, buffered, hostProbe,
                       nextHostProbe, failure, shellVars>>
    BY <1>2, <2>2 DEF HostMisses, HeartbeatMisses
  <2> QED BY <2>2, <2>3 DEF TypeOK, FrameTypeOK, frameVars, channels, rendered, watchdog,
                            guestVars, buffered, shellVars
<1>3. CASE Paints
  <2>1. shown' \in [render: 0..MaxRender, tree: SUBSET Nodes]
    BY <1>3 DEF Paints, TypeOK
  <2> QED BY <1>3, <2>1 DEF Paints, TypeOK, FrameTypeOK, frameVars, channels, rendered, watchdog,
                            guestVars, hostVars, buffered, heartbeat
<1> QED BY <1>1, <1>2, <1>3, HostCases, HostHearsType, FrameLostType, HostPostsType, ShellPostsType

LEMMA TypeNext ==
    ASSUME TypeOK, TreesInv, Next
    PROVE  TypeOK'
BY Moves, FrameMovesType, FrameOnlyType, HostMovesType

-----------------------------------------------------------------------------
(* How steps divide. *)

(* Steps of the frame that need a ready Worker. *)
ReadySteps ==
    \/ BrokerActivates \/ BrokerAnswersPing \/ BrokerInteraction \/ BrokerSnapshot \/ BrokerStale
    \/ BrokerRender \/ BrokerPong \/ BrokerEffect \/ WatchdogProbes
    \/ WatchdogMisses /\ missedWorker + 1 < MissLimit
    \/ GuestReceives \/ GuestActs
    \/ \E tree \in SUBSET Nodes : GuestRenders(tree)

LEMMA Readied ==
    ASSUME TypeOK, FrameInv, ReadySteps
    PROVE  phase = "ready" /\ phase' = "ready"
<1>1. ASSUME NEW kind, Accepts(kind) PROVE phase = "ready"
  BY <1>1 DEF Accepts, HostFault, None
<1>2. ASSUME NEW kind, kind # "ready", Hears(kind) PROVE phase = "ready"
  BY <1>2, HearsType, FrameQueues, WithinPopped DEF FrameInv
<1>3. CASE \/ BrokerActivates \/ BrokerAnswersPing \/ BrokerInteraction
           \/ BrokerSnapshot \/ BrokerStale
  BY <1>1, <1>3 DEF BrokerActivates, BrokerAnswersPing, BrokerInteraction, BrokerSnapshot,
                    BrokerStale
<1>4. CASE BrokerRender \/ BrokerPong \/ BrokerEffect
  BY <1>2, <1>4 DEF BrokerRender, BrokerPong, BrokerEffect
<1>5. CASE WatchdogProbes
  BY <1>5 DEF WatchdogProbes
<1>6. CASE WatchdogMisses /\ missedWorker + 1 < MissLimit
  <2>1. missedWorker \in 0..(MissLimit - 1)
    BY DEF TypeOK, FrameTypeOK
  <2>2. ~(missedWorker + 1 >= MissLimit)
    BY <1>6, <2>1, Bounds
  <2> QED BY <1>6, <2>2 DEF WatchdogMisses
<1>7. CASE GuestReceives
  BY <1>7 DEF GuestReceives, FrameInv, Fresh
<1>8. CASE GuestActs \/ \E tree \in SUBSET Nodes : GuestRenders(tree)
  <2>1. guestState.revision > 0
    BY <1>8 DEF GuestActs, GuestRenders
  <2>2. guestState # Untold
    BY <2>1 DEF Untold
  <2>3. phase = "ready"
    BY <2>2 DEF FrameInv, Fresh
  <2> QED BY <1>8, <2>3 DEF GuestActs, GuestRenders
<1> QED BY <1>3, <1>4, <1>5, <1>6, <1>7, <1>8 DEF ReadySteps

(* Steps on the way to a ready Worker, and those of a guest at any time. *)
EarlySteps ==
    \/ BrokerBinds \/ BrokerLoads \/ BrokerLaunches \/ BrokerWorkerReady
    \/ GuestReady \/ GuestHangs

LEMMA FrameDivides ==
    ASSUME FrameMoves
    PROVE  BrokerEnds \/ ReadySteps \/ EarlySteps
BY Zenon DEF FrameMoves, ReadySteps, EarlySteps

LEMMA FrameStands ==
    ASSUME TypeOK, FrameInv, FrameMoves
    PROVE  Standing
<1>1. CASE BrokerEnds
  BY <1>1 DEF BrokerEnds, BrokerRejectsArtifact, BrokerRefusesHost, BrokerRefusesGuest,
     BootTimeout, FirstRenderTimeout, WatchdogMisses, GuestThrows, FrameInv, Standing
<1>2. CASE ReadySteps
  BY <1>2, Readied DEF Standing
<1>3. CASE EarlySteps
  BY <1>3 DEF EarlySteps, BrokerBinds, BrokerLoads, BrokerLaunches, BrokerWorkerReady,
     GuestReady, GuestHangs, FrameInv, Standing
<1> QED BY <1>1, <1>2, <1>3, FrameDivides

(* Every end: of the frame, and by whom. *)
LEMMA EndsFrame ==
    ASSUME NEW next \in {"closed", "lost", "removed"}, FrameEnds(next)
    PROVE  /\ toBroker' = <<>> /\ toGuest' = <<>> /\ fromGuest' = <<>>
           /\ phase' = next /\ ~Standing' /\ Fresh'
           /\ guest' = "absent" /\ trees' = trees
BY DEF FrameEnds, Standing, Fresh

LEMMA BrokerEnded ==
    ASSUME TypeOK, BrokerEnds
    PROVE  \E code \in Faults :
              /\ FrameEnds("closed")
              /\ toHost' = Append(Append(toHost, [kind |-> "error", code |-> code]),
                                  [kind |-> "terminated"])
              /\ \/ code \notin Violations
                 \/ toBroker # <<>> /\ code = HostFault(Head(toBroker))
                    /\ Head(toBroker).kind \notin {"bind", "load"}
                 \/ fromGuest # <<>> /\ code = GuestFault(Head(fromGuest))
<1>1. ASSUME NEW code \in Faults, Terminate(code)
      PROVE  /\ FrameEnds("closed")
             /\ toHost' = Append(Append(toHost, [kind |-> "error", code |-> code]),
                                 [kind |-> "terminated"])
  <2> DEFINE error == [kind |-> "error", code |-> code]
             terminated == [kind |-> "terminated"]
  <2>1. error \in BrokerMessages /\ terminated \in BrokerMessages
    BY Posts
  <2>2. toHost' = toHost \o <<error, terminated>>
    BY <1>1 DEF Terminate
  <2> HIDE DEF error, terminated
  <2>3. toHost' = Append(Append(toHost, error), terminated)
    BY <2>1, <2>2, FrameQueues, TwoAppended
  <2> QED BY <1>1, <2>3 DEF Terminate, error, terminated
<1>2. PICK code \in Faults :
         /\ Terminate(code)
         /\ \/ code \notin Violations
            \/ toBroker # <<>> /\ code = HostFault(Head(toBroker))
               /\ Head(toBroker).kind \notin {"bind", "load"}
            \/ fromGuest # <<>> /\ code = GuestFault(Head(fromGuest))
  BY BrokerEndsTerminates
<1> QED BY <1>1, <1>2

LEMMA HostEnded ==
    ASSUME TypeOK, HostEnds
    PROVE  /\ ~Settled /\ Settled' /\ FrameEnds("removed") /\ toHost' = <<>>
           /\ lifecycle' \notin {"staging", "active"}
           /\ UNCHANGED <<hostRender, workerReady, publishedStateRevision, hostProbe, toldStale>>
           /\ \/ failure' \notin Violations
              \/ toHost # <<>> /\ failure' = HostThrows(Head(toHost))
BY HostEndsSettles DEF Settle, Settled, heartbeat, shellVars

LEMMA Losing ==
    ASSUME FrameLost
    PROVE  FrameEnds("lost") /\ UNCHANGED toHost /\ Standing
BY DEF FrameLost, Standing

(* The steps of the host and the shell at a session that goes on. *)
HostWorks ==
    \/ HostMisses \/ HostHears \/ Paints \/ HostBinds \/ HeartbeatPings \/ Published
    \/ markStateStale \/ \E node \in Nodes : interact(node)

LEMMA HostDivides ==
    ASSUME TypeOK, HostMoves
    PROVE  HostEnds \/ FrameLost \/ HostWorks
BY HostCases DEF HostWorks

LEMMA NotMissedOut ==
    ASSUME TypeOK, HostMisses
    PROVE  /\ HeartbeatRuns
           /\ missedHost' = missedHost + 1
           /\ UNCHANGED <<frameVars, lifecycle, port, hostRender, hostTree, buffered, hostProbe,
                          nextHostProbe, failure, shellVars>>
<1>1. missedHost \in 0..(MissLimit - 1)
  BY DEF TypeOK
<1>2. ~(missedHost + 1 >= MissLimit)
  BY <1>1, Bounds DEF HostMisses
<1> QED BY <1>2 DEF HostMisses, HeartbeatMisses

FrameRests ==
    UNCHANGED <<toGuest, fromGuest, phase, active, rendered, stateRevision, watchdog, guestVars>>

LEMMA HostWorksFrame ==
    ASSUME TypeOK, HostWorks
    PROVE  /\ ~Settled /\ ~Settled' /\ FrameRests /\ failure' = failure
           /\ phase \in {"closed", "lost"} => toBroker' = toBroker
           /\ toHost' = toHost \/ (toHost # <<>> /\ toHost' = Tail(toHost))
<1>1. CASE HostHears
  <2>1. \E kind, answers : Receives(kind, answers)
    BY <1>1, Zenon DEF HostHears, HostBound, HostWorkerReady, HostRender, HostActive, HostPong
  <2>2. ~Settled'
    BY <1>1, <2>1 DEF HostHears, HostBound, HostWorkerReady, HostRender, HostActive, HostPong,
                      Receives, Settled
  <2> QED BY <2>1, <2>2 DEF Receives, FrameRests, Posted
<1>2. CASE HostMisses
  BY <1>2, NotMissedOut DEF HeartbeatRuns, Settled, FrameRests, frameVars, channels
<1>3. CASE Paints
  BY <1>3 DEF Paints, Settled, FrameRests, frameVars, channels, hostVars
<1>4. CASE HostBinds
  BY <1>4 DEF HostBinds, Post, Posted, Settled, FrameRests
<1>5. CASE HeartbeatPings
  BY <1>5 DEF HeartbeatPings, HeartbeatRuns, Post, Posted, Settled, FrameRests
<1>6. ASSUME NEW revision \in 1..MaxRevision, publishState(revision)
      PROVE  /\ ~Settled /\ ~Settled' /\ FrameRests /\ failure' = failure
             /\ phase \in {"closed", "lost"} => toBroker' = toBroker
             /\ toHost' = toHost
  BY <1>6 DEF publishState, ShellMayPost, Post, Posted, Settled, FrameRests, frameVars, channels
<1>7. CASE markStateStale
  BY <1>7 DEF markStateStale, ShellMayPost, Post, Posted, Settled, FrameRests, frameVars, channels
<1>8. ASSUME NEW node \in Nodes, interact(node)
      PROVE  /\ ~Settled /\ ~Settled' /\ FrameRests /\ failure' = failure
             /\ phase \in {"closed", "lost"} => toBroker' = toBroker
             /\ toHost' = toHost
  BY <1>8 DEF interact, ShellMayPost, Post, Posted, Settled, FrameRests, hostVars
<1> QED BY <1>1, <1>2, <1>3, <1>4, <1>5, <1>6, <1>7, <1>8 DEF HostWorks, Published

-----------------------------------------------------------------------------
(* How far the frame got. *)

LEMMA EarlyPhases ==
    ASSUME TypeOK, FrameInv, EarlySteps
    PROVE  /\ phase = "ready" => phase' = "ready"
           /\ Standing'
           /\ phase' = "ready" \/ (Fresh' /\ \A m \in Within(fromGuest') : m.kind = "ready")
<1>1. CASE BrokerBinds \/ BrokerLoads \/ BrokerLaunches
  BY <1>1 DEF BrokerBinds, BrokerLoads, BrokerLaunches, FrameInv, Fresh, Standing,
              rendered, watchdog, guestVars, channels
<1>2. CASE BrokerWorkerReady
  BY <1>2 DEF BrokerWorkerReady, Standing
<1>3. CASE GuestReady
  <2>1. Within(fromGuest') = Within(fromGuest) \cup {[kind |-> "ready"]}
    BY <1>3, FrameQueues, WorkerPosts, WithinAppended DEF GuestReady
  <2> QED BY <1>3, <2>1 DEF GuestReady, FrameInv, Fresh, Standing, rendered, watchdog
<1>4. CASE GuestHangs
  BY <1>4 DEF GuestHangs, FrameInv, Fresh, Standing, rendered, watchdog, channels
<1> QED BY <1>1, <1>2, <1>3, <1>4 DEF EarlySteps

LEMMA FrameNext ==
    ASSUME TypeOK, FrameInv, Next
    PROVE  FrameInv'
<1>1. CASE FrameMoves /\ UNCHANGED <<hostVars, shellVars>>
  <2>1. Standing /\ ~Settled /\ ~Settled'
    <3>1. Standing
      BY <1>1, FrameStands
    <3>2. ~Settled
      BY <3>1 DEF FrameInv, Standing
    <3> QED BY <1>1, <3>1, <3>2 DEF Settled, hostVars
  <2>2. CASE BrokerEnds
    <3>1. FrameEnds("closed")
      BY <2>2, BrokerEnded
    <3> QED BY <2>1, <3>1, EndsFrame, Empty DEF FrameInv
  <2>3. CASE ReadySteps
    <3>1. phase' = "ready"
      BY <2>3, Readied
    <3> QED BY <2>1, <3>1 DEF FrameInv, Standing
  <2>4. CASE EarlySteps
    <3>1. Standing' /\ (phase' # "ready" => Fresh' /\ \A m \in Within(fromGuest') : m.kind = "ready")
      BY <2>4, EarlyPhases
    <3>2. phase' \in {"unbound", "bound", "loading"} => guest' = "absent"
      BY <2>4 DEF EarlySteps, BrokerBinds, BrokerLoads, BrokerLaunches, BrokerWorkerReady,
                  GuestReady, GuestHangs, guestVars, FrameInv
    <3>3. phase' \in {"unbound", "bound", "loading", "launched"} => trees' = <<>>
      BY <2>4 DEF EarlySteps, BrokerBinds, BrokerLoads, BrokerLaunches, BrokerWorkerReady,
                  GuestReady, GuestHangs, guestVars, FrameInv
    <3>4. phase' # "removed"
      BY <3>1 DEF Standing
    <3> QED BY <2>1, <3>1, <3>2, <3>3, <3>4 DEF FrameInv
  <2> QED BY <1>1, <2>2, <2>3, <2>4, FrameDivides
<1>2. CASE HostEnds
  BY <1>2, HostEnded, EndsFrame, Empty DEF FrameInv
<1>3. CASE FrameLost
  <2>1. ~Settled /\ ~Settled'
    BY <1>3, Losing DEF FrameInv, Standing, FrameLost, Settled, hostVars
  <2> QED BY <1>3, <2>1, Losing, EndsFrame, Empty DEF FrameInv
<1>4. CASE HostWorks
  <2>1. /\ ~Settled /\ ~Settled' /\ FrameRests
        /\ phase \in {"closed", "lost"} => toBroker' = toBroker
    BY <1>4, HostWorksFrame
  <2>2. phase \in {"closed", "lost"} \/ Standing
    BY <2>1 DEF FrameInv, Standing
  <2> QED BY <2>1, <2>2 DEF FrameInv, FrameRests, Standing, Fresh, rendered, watchdog, guestVars
<1> QED BY <1>1, <1>2, <1>3, <1>4, Moves, HostDivides

-----------------------------------------------------------------------------
(* What the host knows of the Worker. *)

(* A Worker that was ready is ready or gone. *)
LEMMA StaysReady ==
    ASSUME TypeOK, FrameInv, Next, phase = "ready" \/ ~Standing
    PROVE  phase' = "ready" \/ ~Standing'
<1>1. CASE FrameMoves
  BY <1>1, FrameDivides, FrameStands, BrokerEnded, EndsFrame, Readied, EarlyPhases
<1>2. CASE HostEnds \/ FrameLost
  BY <1>2, HostEnded, Losing, EndsFrame
<1>3. CASE HostWorks
  BY <1>3, HostWorksFrame DEF FrameRests, Standing
<1> QED BY <1>1, <1>2, <1>3, Moves, HostDivides

(* What a step of the frame reports to the host. *)
Reports(m) ==
    /\ \/ m.kind = "bound"
       \/ m.kind = "worker_ready" /\ phase' = "ready"
       \/ m.kind = "active" /\ BrokerActivates
       \/ m.kind = "pong" /\ BrokerAnswersPing /\ m.challenge = Head(toBroker).challenge
       \/ m.kind = "effect" /\ active
       \/ m.kind = "render" /\ BrokerRender /\ m = Head(fromGuest)
             /\ m.revision = brokerRender + 1 /\ brokerRender' = brokerRender + 1
    /\ m.kind # "render" => brokerRender' = brokerRender

(* The steps that report nothing. *)
Silent ==
    \/ BrokerLoads \/ BrokerSnapshot \/ BrokerStale \/ BrokerInteraction \/ BrokerLaunches
    \/ BrokerPong \/ WatchdogProbes
    \/ WatchdogMisses /\ missedWorker + 1 < MissLimit
    \/ GuestReady \/ GuestReceives \/ GuestActs \/ GuestHangs
    \/ \E tree \in SUBSET Nodes : GuestRenders(tree)

LEMMA NotMissedYet ==
    ASSUME TypeOK, WatchdogMisses, missedWorker + 1 < MissLimit
    PROVE  /\ phase = "ready" /\ missedWorker' = missedWorker + 1
           /\ UNCHANGED <<channels, phase, active, rendered, stateRevision,
                          workerProbe, nextWorkerProbe, guestVars>>
<1>1. missedWorker \in 0..(MissLimit - 1)
  BY DEF TypeOK, FrameTypeOK
<1>2. ~(missedWorker + 1 >= MissLimit)
  BY <1>1, Bounds
<1> QED BY <1>2 DEF WatchdogMisses

LEMMA FrameReports ==
    ASSUME TypeOK, FrameMoves, ~BrokerEnds
    PROVE  \/ toHost' = toHost /\ brokerRender' = brokerRender /\ Silent
           \/ \E m \in BrokerMessages : toHost' = Append(toHost, m) /\ Reports(m)
<1>1. CASE BrokerBinds
  BY <1>1, Posts DEF BrokerBinds, Reports, rendered
<1>2. CASE BrokerActivates
  BY <1>2, Posts DEF BrokerActivates, Reports, rendered
<1>3. CASE BrokerAnswersPing
  <2> DEFINE m == [kind |-> "pong", challenge |-> Head(toBroker).challenge]
  <2>1. Head(toBroker).challenge \in Probes
    BY <1>3, TakesType, HostFields DEF BrokerAnswersPing, Accepts
  <2>2. m \in BrokerMessages /\ toHost' = Append(toHost, m)
    BY <1>3, <2>1, Posts DEF BrokerAnswersPing
  <2>3. Reports(m)
    BY <1>3 DEF Reports, BrokerAnswersPing, rendered
  <2> QED BY <2>2, <2>3
<1>4. CASE BrokerWorkerReady
  BY <1>4, Posts DEF BrokerWorkerReady, Reports, rendered
<1>5. CASE BrokerRender
  <2> DEFINE m == Head(fromGuest)
  <2>1. m \in BrokerMessages /\ m.kind = "render" /\ GuestFault(m) = None
    BY <1>5, HearsType, GuestFields DEF BrokerRender
  <2>2. m.revision = brokerRender + 1
    BY <2>1 DEF GuestFault, None
  <2>3. toHost' = Append(toHost, m) /\ brokerRender' = m.revision
    BY <1>5 DEF BrokerRender
  <2>4. Reports(m)
    BY <1>5, <2>1, <2>2, <2>3 DEF Reports
  <2> QED BY <2>1, <2>3, <2>4
<1>6. CASE BrokerEffect
  <2>1. Head(fromGuest).kind = "effect" /\ GuestFault(Head(fromGuest)) = None
    BY <1>6, HearsType DEF BrokerEffect
  <2>2. active
    BY <2>1 DEF GuestFault, None
  <2> QED BY <1>6, <2>2, Posts DEF BrokerEffect, Reports, rendered
<1>7. CASE Silent
  BY <1>7, NotMissedYet
     DEF Silent, BrokerLoads, BrokerSnapshot, BrokerStale, BrokerInteraction, BrokerLaunches,
         BrokerPong, WatchdogProbes, GuestReady, GuestReceives, GuestActs, GuestHangs, GuestRenders,
         channels, rendered
<1>8. \/ BrokerBinds \/ BrokerActivates \/ BrokerAnswersPing \/ BrokerWorkerReady
      \/ BrokerRender \/ BrokerEffect \/ Silent
  BY Zenon DEF FrameMoves, Silent
<1> QED BY <1>1, <1>2, <1>3, <1>4, <1>5, <1>6, <1>7, <1>8

(* What the frame's steps leave in the queue to the broker. *)
LEMMA FrameTakes ==
    ASSUME TypeOK, FrameMoves
    PROVE  /\ \/ toBroker' = toBroker \/ toBroker' = <<>>
              \/ toBroker # <<>> /\ toBroker' = Tail(toBroker)
           /\ Within(toBroker') \subseteq Within(toBroker)
<1>1. CASE BrokerEnds
  BY <1>1, BrokerEnded, EndsFrame, Empty
<1>2. CASE \/ BrokerBinds \/ BrokerLoads \/ BrokerActivates \/ BrokerAnswersPing \/ BrokerInteraction
           \/ BrokerSnapshot \/ BrokerStale
  <2>1. \E kind : Takes(kind)
    BY <1>2 DEF BrokerBinds, BrokerLoads, BrokerActivates, BrokerAnswersPing, BrokerInteraction,
       BrokerSnapshot, BrokerStale, Accepts
  <2> QED BY <2>1, TakesType, FrameQueues, WithinPopped
<1>3. CASE WatchdogMisses /\ missedWorker + 1 < MissLimit
  BY <1>3, NotMissedYet DEF channels
<1>4. CASE \/ BrokerLaunches \/ BrokerWorkerReady \/ BrokerRender \/ BrokerPong \/ BrokerEffect
           \/ WatchdogProbes \/ GuestReady \/ GuestReceives \/ GuestActs \/ GuestHangs
           \/ \E tree \in SUBSET Nodes : GuestRenders(tree)
  <2>1. toBroker' = toBroker
    BY <1>4 DEF BrokerLaunches, BrokerWorkerReady, BrokerRender, BrokerPong, BrokerEffect,
       WatchdogProbes, GuestReady, GuestReceives, GuestActs, GuestHangs, GuestRenders, channels
  <2> QED BY <2>1
<1> QED BY <1>1, <1>2, <1>3, <1>4, Zenon DEF FrameMoves

LEMMA WithinTwo ==
    ASSUME NEW M, NEW q \in Seq(M), NEW a \in M, NEW b \in M
    PROVE  /\ Append(q, a) \in Seq(M)
           /\ Within(Append(Append(q, a), b)) = Within(q) \cup {a} \cup {b}
<1> DEFINE r == Append(q, a)
<1>1. r \in Seq(M) /\ Within(r) = Within(q) \cup {a}
  BY Appended, WithinAppended
<1> HIDE DEF r
<1>2. Within(Append(r, b)) = Within(r) \cup {b}
  BY <1>1, WithinAppended
<1> QED BY <1>1, <1>2 DEF r

LEMMA WithinEnded ==
    ASSUME TypeOK, BrokerEnds, NEW m \in Within(toHost')
    PROVE  m \in Within(toHost) \/ m.kind \in {"error", "terminated"}
<1>1. PICK code \in Faults :
         toHost' = Append(Append(toHost, [kind |-> "error", code |-> code]), [kind |-> "terminated"])
  BY BrokerEnded
<1> DEFINE error == [kind |-> "error", code |-> code]
           terminated == [kind |-> "terminated"]
<1>2. /\ error \in BrokerMessages /\ terminated \in BrokerMessages
      /\ error.kind = "error" /\ terminated.kind = "terminated"
  BY Posts
<1>3. toHost' = Append(Append(toHost, error), terminated)
  BY <1>1
<1> HIDE DEF error, terminated
<1>4. Within(toHost') = Within(toHost) \cup {error} \cup {terminated}
  BY <1>2, <1>3, FrameQueues, WithinTwo
<1> QED BY <1>2, <1>4

LEMMA BufferedWithin ==
    ASSUME TypeOK, NEW m \in Within(Posted(Buffered))
    PROVE  m \in Within(toBroker) \/ m.kind \in {"snapshot", "stale"}
<1> DEFINE one == [kind |-> "snapshot", revision |-> pendingState]
           two == [kind |-> "stale", revision |-> publishedStateRevision]
           q == Posted(Buffered)
<1>1. /\ pendingState # 0 => one \in HostMessages
      /\ two \in HostMessages
  <2>1. pendingState # 0 => pendingState \in 1..MaxRevision
    BY Bounds DEF TypeOK
  <2> QED BY <2>1, Posts DEF TypeOK
<1>2. \/ q = toBroker
      \/ q = Append(toBroker, two)
      \/ pendingState # 0 /\ q = Append(toBroker, one)
      \/ pendingState # 0 /\ q = Append(Append(toBroker, one), two)
  BY BufferedPosts
<1>3. one.kind = "snapshot" /\ two.kind = "stale"
  OBVIOUS
<1>4. m \in Within(q)
  OBVIOUS
<1> HIDE DEF one, two, q
<1>5. CASE q = toBroker
  BY <1>4, <1>5
<1>6. CASE q = Append(toBroker, two)
  BY <1>1, <1>3, <1>4, <1>6, FrameQueues, WithinAppended
<1>7. CASE pendingState # 0 /\ q = Append(toBroker, one)
  BY <1>1, <1>3, <1>4, <1>7, FrameQueues, WithinAppended
<1>8. CASE pendingState # 0 /\ q = Append(Append(toBroker, one), two)
  <2>1. Within(q) = Within(toBroker) \cup {one} \cup {two}
    BY <1>1, <1>8, FrameQueues, WithinTwo
  <2> QED BY <1>3, <1>4, <2>1
<1> QED BY <1>2, <1>5, <1>6, <1>7, <1>8

(* What a step of the host posts, by itself. *)
LEMMA HostWorksPosts ==
    ASSUME TypeOK, HostWorks
    PROVE  \/ toBroker' = toBroker
           \/ HostWorkerReady /\ toBroker' = Posted(Buffered)
           \/ /\ phase \notin {"closed", "lost"}
              /\ \E m \in HostMessages :
                    /\ toBroker' = Append(toBroker, m)
                    /\ \/ m.kind = "bind" /\ HostBinds
                       \/ m.kind = "load" /\ HostBound
                       \/ m.kind = "activate" /\ HostRender /\ lifecycle = "staging"
                       \/ m.kind = "ping" /\ HeartbeatPings /\ m.challenge = nextHostProbe
                       \/ m.kind = "snapshot" /\ publishState(m.revision) /\ workerReady
                       \/ m.kind = "stale" /\ markStateStale /\ workerReady
                             /\ m.revision = publishedStateRevision
                       \/ m.kind = "interaction" /\ m.render = hostRender
                             /\ \E node \in Nodes : interact(node)
<1>1. CASE HostBinds
  <2>1. toBroker' = Posted(<<[kind |-> "bind"]>>)
    BY <1>1 DEF HostBinds, Post
  <2> QED BY <1>1, <2>1, PostsOne, Posts
<1>2. CASE HostBound
  <2>1. toBroker' = Posted(<<[kind |-> "load"]>>)
    BY <1>2 DEF HostBound, Receives
  <2> QED BY <1>2, <2>1, PostsOne, Posts
<1>3. CASE HostRender
  <2>1. toBroker' = Posted(IF lifecycle = "staging" THEN <<[kind |-> "activate"]>> ELSE <<>>)
    BY <1>3 DEF HostRender, Receives
  <2>2. CASE lifecycle = "staging"
    BY <1>3, <2>1, <2>2, PostsOne, Posts
  <2>3. CASE lifecycle # "staging"
    BY <1>3, <2>1, <2>3, PostsNone
  <2> QED BY <2>2, <2>3
<1>4. CASE HostWorkerReady
  BY <1>4 DEF HostWorkerReady, Receives
<1>5. CASE HostActive \/ HostPong
  BY <1>5, PostsNone DEF HostActive, HostPong, Receives
<1>6. CASE HostMisses \/ Paints
  BY <1>6, NotMissedOut DEF Paints, frameVars, channels
<1>7. CASE HeartbeatPings
  <2> DEFINE m == [kind |-> "ping", challenge |-> nextHostProbe]
  <2>1. toBroker' = Posted(<<m>>)
    BY <1>7 DEF HeartbeatPings, Post
  <2>2. m \in HostMessages
    BY Posts DEF TypeOK
  <2> QED BY <1>7, <2>1, <2>2, PostsOne
<1>8. ASSUME NEW revision \in 1..MaxRevision, publishState(revision)
      PROVE  \/ toBroker' = toBroker
             \/ /\ phase \notin {"closed", "lost"} /\ workerReady
                /\ [kind |-> "snapshot", revision |-> revision] \in HostMessages
                /\ toBroker' = Append(toBroker, [kind |-> "snapshot", revision |-> revision])
  <2> DEFINE m == [kind |-> "snapshot", revision |-> revision]
  <2>1. \/ workerReady /\ toBroker' = Posted(<<m>>)
        \/ toBroker' = toBroker
    BY <1>8 DEF publishState, Post, frameVars, channels
  <2>2. m \in HostMessages
    BY Posts
  <2> QED BY <2>1, <2>2, PostsOne
<1>9. CASE markStateStale
  <2> DEFINE m == [kind |-> "stale", revision |-> publishedStateRevision]
  <2>1. \/ workerReady /\ toBroker' = Posted(<<m>>)
        \/ toBroker' = toBroker
    BY <1>9 DEF markStateStale, Post, frameVars, channels
  <2>2. m \in HostMessages
    BY Posts DEF TypeOK
  <2> QED BY <1>9, <2>1, <2>2, PostsOne
<1>10. ASSUME NEW node \in Nodes, interact(node)
       PROVE  \/ toBroker' = toBroker
              \/ /\ phase \notin {"closed", "lost"}
                 /\ [kind |-> "interaction", render |-> hostRender, node |-> HandlerOf[node]]
                       \in HostMessages
                 /\ toBroker' = Append(toBroker,
                       [kind |-> "interaction", render |-> hostRender, node |-> HandlerOf[node]])
  <2> DEFINE m == [kind |-> "interaction", render |-> hostRender, node |-> HandlerOf[node]]
  <2>1. toBroker' = Posted(<<m>>)
    BY <1>10 DEF interact, Post
  <2>2. m \in HostMessages
    BY Posts, Bounds DEF TypeOK
  <2> QED BY <2>1, <2>2, PostsOne
<1>11. CASE Published
  <2>1. PICK revision \in 1..MaxRevision : publishState(revision)
    BY <1>11 DEF Published
  <2>2. [kind |-> "snapshot", revision |-> revision].revision = revision
        /\ [kind |-> "snapshot", revision |-> revision].kind = "snapshot"
    OBVIOUS
  <2> QED BY <1>8, <2>1, <2>2
<1>12. CASE \E node \in Nodes : interact(node)
  <2>1. PICK node \in Nodes : interact(node)
    BY <1>12
  <2> QED BY <1>10, <2>1
<1> QED BY <1>1, <1>2, <1>3, <1>4, <1>5, <1>6, <1>7, <1>9, <1>11, <1>12 DEF HostWorks, HostHears

LEMMA WorkerNext ==
    ASSUME TypeOK, FrameInv, WorkerInv, Next
    PROVE  WorkerInv'
<1>0. phase = "ready" \/ ~Standing => phase' = "ready" \/ ~Standing'
  BY StaysReady
<1>1. CASE FrameMoves /\ UNCHANGED <<hostVars, shellVars>>
  <2>1. lifecycle' = lifecycle /\ workerReady' = workerReady
    BY <1>1 DEF hostVars, buffered
  <2>2. \A m \in Within(toHost') :
          /\ m.kind = "worker_ready" => phase' = "ready" \/ ~Standing'
          /\ m.kind = "active" => workerReady
    <3>1. CASE BrokerEnds
      <4>1. \A m \in Within(toHost') : m \in Within(toHost) \/ m.kind \in {"error", "terminated"}
        BY <3>1, WithinEnded
      <4> QED BY <1>0, <4>1 DEF WorkerInv
    <3>2. CASE toHost' = toHost
      BY <1>0, <3>2 DEF WorkerInv
    <3>3. ASSUME NEW m \in BrokerMessages, toHost' = Append(toHost, m), Reports(m)
          PROVE  \A n \in Within(toHost') :
                    /\ n.kind = "worker_ready" => phase' = "ready" \/ ~Standing'
                    /\ n.kind = "active" => workerReady
      <4>1. Within(toHost') = Within(toHost) \cup {m}
        BY <3>3, FrameQueues, WithinAppended
      <4>2. m.kind = "worker_ready" => phase' = "ready"
        BY <3>3 DEF Reports
      <4>3. m.kind = "active" => workerReady
        <5>1. m.kind = "active" => BrokerActivates
          BY <3>3 DEF Reports
        <5>2. BrokerActivates => toBroker # <<>> /\ Head(toBroker).kind = "activate"
          BY DEF BrokerActivates, Accepts, Takes
        <5>3. toBroker # <<>> => Head(toBroker) \in Within(toBroker)
          BY FrameQueues, WithinPopped
        <5> QED BY <5>1, <5>2, <5>3 DEF WorkerInv
      <4> QED BY <1>0, <4>1, <4>2, <4>3 DEF WorkerInv
    <3> QED BY <1>1, <3>1, <3>2, <3>3, FrameReports
  <2>3. Within(toBroker') \subseteq Within(toBroker)
    BY <1>1, FrameTakes
  <2> QED BY <1>0, <2>1, <2>2, <2>3 DEF WorkerInv
<1>2. CASE HostEnds
  BY <1>0, <1>2, HostEnded, EndsFrame, Empty DEF WorkerInv
<1>3. CASE FrameLost
  <2>1. lifecycle' = lifecycle /\ workerReady' = workerReady
    BY <1>3 DEF FrameLost, hostVars, buffered
  <2> QED BY <1>0, <1>3, <2>1, Losing, EndsFrame, Empty DEF WorkerInv
<1>4. CASE HostWorks
  <2>1. Within(toHost') \subseteq Within(toHost)
    BY <1>4, HostWorksFrame, FrameQueues, WithinPopped
  <2>2. workerReady => workerReady'
    BY <1>4, NotMissedOut DEF HostWorks, HostHears, HostBound, HostWorkerReady, HostRender, HostActive, HostPong,
       Paints, HostBinds, HeartbeatPings, Published, publishState, markStateStale, interact,
       hostVars, buffered
  <2>3. \A m \in Within(toBroker') : m.kind \notin {"bind", "load"} => workerReady'
    <3>1. CASE HostWorkerReady
      BY <3>1 DEF HostWorkerReady
    <3>2. CASE toBroker' = toBroker
      BY <2>2, <3>2 DEF WorkerInv
    <3>3. ASSUME NEW m \in HostMessages, toBroker' = Append(toBroker, m),
                 m.kind \notin {"bind", "load"} => workerReady
          PROVE  \A n \in Within(toBroker') : n.kind \notin {"bind", "load"} => workerReady'
      <4>1. Within(toBroker') = Within(toBroker) \cup {m}
        BY <3>3, FrameQueues, WithinAppended
      <4> QED BY <2>2, <3>3, <4>1 DEF WorkerInv
    <3>4. lifecycle = "staging" \/ HeartbeatPings \/ (\E node \in Nodes : interact(node)) => workerReady
      BY DEF HeartbeatPings, HeartbeatRuns, interact, WorkerInv
    <3> QED BY <1>4, <3>1, <3>2, <3>3, <3>4, HostWorksPosts
  <2>4. lifecycle' \in {"staging", "active"} => workerReady'
    <3>1. CASE HostActive
      <4>1. Head(toHost) \in Within(toHost) /\ Head(toHost).kind = "active"
        BY <3>1, ReceivesType DEF HostActive
      <4> QED BY <2>2, <4>1 DEF WorkerInv
    <3>2. CASE HostWorkerReady
      BY <3>2 DEF HostWorkerReady
    <3>3. CASE HostBound
      BY <3>3 DEF HostBound
    <3>4. CASE ~HostActive /\ ~HostWorkerReady /\ ~HostBound
      <4>1. lifecycle' = lifecycle
        BY <1>4, <3>4, NotMissedOut DEF HostWorks, HostHears, HostRender, HostPong,
           Paints, HostBinds, HeartbeatPings, Published, publishState, markStateStale, interact,
           hostVars
      <4> QED BY <2>2, <4>1 DEF WorkerInv
    <3> QED BY <3>1, <3>2, <3>3, <3>4
  <2>5. workerReady' => phase' = "ready" \/ ~Standing'
    <3>1. CASE HostWorkerReady
      <4>1. Head(toHost) \in Within(toHost) /\ Head(toHost).kind = "worker_ready"
        BY <3>1, ReceivesType DEF HostWorkerReady
      <4> QED BY <1>0, <4>1 DEF WorkerInv
    <3>2. CASE ~HostWorkerReady
      <4>1. workerReady' = workerReady
        BY <1>4, <3>2, NotMissedOut DEF HostWorks, HostHears, HostBound, HostActive, HostRender, HostPong,
           Paints, HostBinds, HeartbeatPings, Published, publishState, markStateStale, interact,
           hostVars, buffered
      <4> QED BY <1>0, <4>1 DEF WorkerInv
    <3> QED BY <3>1, <3>2
  <2> QED BY <1>0, <2>1, <2>2, <2>3, <2>4, <2>5 DEF WorkerInv
<1> QED BY <1>1, <1>2, <1>3, <1>4, Moves, HostDivides

-----------------------------------------------------------------------------
(* Renders stay in order. *)

LEMMA RendersEmpty == \A b \in Nat : Renders(<<>>, b, b)
BY Empty DEF Renders

LEMMA RendersOther ==
    ASSUME NEW M, NEW q \in Seq(M), NEW m \in M, m.kind # "render",
           NEW base \in Nat, NEW top \in Nat, Renders(q, base, top)
    PROVE  Renders(Append(q, m), base, top)
<1> DEFINE r == Append(q, m)
           D == DOMAIN q
           n == Len(q) + 1
<1>1. /\ DOMAIN r = D \cup {n} /\ r[n] = m /\ D \subseteq Nat /\ n \in Nat
      /\ \A i \in D : r[i] = q[i] /\ i < n
  BY Appended
<1>2. /\ \A i \in D : q[i].kind = "render" => q[i].revision \in (base + 1)..top
      /\ \A k \in (base + 1)..top : \E i \in D : q[i].kind = "render" /\ q[i].revision = k
      /\ \A i, j \in D : i < j /\ q[i].kind = "render" /\ q[j].kind = "render"
            => q[i].revision < q[j].revision
  BY DEF Renders
<1> HIDE DEF r, D, n
<1>3. \A i \in DOMAIN r : r[i].kind = "render" => i \in D
  BY <1>1
<1>4. \A i \in DOMAIN r : r[i].kind = "render" => r[i].revision \in (base + 1)..top
  BY <1>1, <1>2, <1>3
<1>5. \A k \in (base + 1)..top : \E i \in DOMAIN r : r[i].kind = "render" /\ r[i].revision = k
  BY <1>1, <1>2
<1>6. \A i, j \in DOMAIN r : i < j /\ r[i].kind = "render" /\ r[j].kind = "render"
            => r[i].revision < r[j].revision
  BY <1>1, <1>2, <1>3
<1>7. Renders(r, base, top)
  BY <1>4, <1>5, <1>6 DEF Renders
<1> QED BY <1>7 DEF r

LEMMA RendersNext ==
    ASSUME NEW M, NEW q \in Seq(M), NEW m \in M, m.kind = "render",
           NEW base \in Nat, NEW top \in Nat, Renders(q, base, top),
           base <= top, m.revision = top + 1
    PROVE  Renders(Append(q, m), base, top + 1)
<1> DEFINE r == Append(q, m)
           D == DOMAIN q
           n == Len(q) + 1
<1>1. /\ DOMAIN r = D \cup {n} /\ r[n] = m /\ D \subseteq Nat /\ n \in Nat
      /\ \A i \in D : r[i] = q[i] /\ i < n
  BY Appended
<1>2. /\ \A i \in D : q[i].kind = "render" => q[i].revision \in (base + 1)..top
      /\ \A k \in (base + 1)..top : \E i \in D : q[i].kind = "render" /\ q[i].revision = k
      /\ \A i, j \in D : i < j /\ q[i].kind = "render" /\ q[j].kind = "render"
            => q[i].revision < q[j].revision
  BY DEF Renders
<1> HIDE DEF r, D, n
<1>4. \A i \in DOMAIN r : r[i].kind = "render" => r[i].revision \in (base + 1)..(top + 1)
  <2>1. \A k \in (base + 1)..top : k \in (base + 1)..(top + 1)
    OBVIOUS
  <2>2. top + 1 \in (base + 1)..(top + 1)
    OBVIOUS
  <2> QED BY <1>1, <1>2, <2>1, <2>2
<1>5. \A k \in (base + 1)..(top + 1) : \E i \in DOMAIN r : r[i].kind = "render" /\ r[i].revision = k
  <2>1. \A k \in (base + 1)..(top + 1) : k \in (base + 1)..top \/ k = top + 1
    OBVIOUS
  <2>2. \A k \in (base + 1)..top : \E i \in DOMAIN r : r[i].kind = "render" /\ r[i].revision = k
    BY <1>1, <1>2
  <2>3. \E i \in DOMAIN r : r[i].kind = "render" /\ r[i].revision = top + 1
    BY <1>1
  <2> QED BY <2>1, <2>2, <2>3
<1>6. \A i, j \in DOMAIN r : i < j /\ r[i].kind = "render" /\ r[j].kind = "render"
            => r[i].revision < r[j].revision
  <2> SUFFICES ASSUME NEW i \in DOMAIN r, NEW j \in DOMAIN r, i < j,
                      r[i].kind = "render", r[j].kind = "render"
               PROVE  r[i].revision < r[j].revision
    OBVIOUS
  <2>1. i \in D
    <3>1. j = n \/ (j \in D /\ j < n)
      BY <1>1
    <3>2. i \in Nat /\ j \in Nat /\ n \in Nat /\ i < j
      BY <1>1
    <3>3. i # n
      BY <3>1, <3>2
    <3> QED BY <1>1, <3>3
  <2>2. CASE j \in D
    BY <1>1, <1>2, <2>1, <2>2
  <2>3. CASE j = n
    <3>1. q[i].revision \in (base + 1)..top /\ r[i] = q[i] /\ r[j].revision = top + 1
      BY <1>1, <1>2, <2>1, <2>3
    <3> QED BY <3>1
  <2> QED BY <1>1, <2>2, <2>3
<1>7. Renders(r, base, top + 1)
  BY <1>4, <1>5, <1>6 DEF Renders
<1> QED BY <1>7 DEF r

LEMMA RendersPopped ==
    ASSUME NEW M, NEW q \in Seq(M), q # <<>>,
           NEW base \in Nat, NEW top \in Nat, Renders(q, base, top)
    PROVE  IF Head(q).kind = "render"
           THEN /\ Head(q).revision = base + 1 /\ base + 1 <= top
                /\ Renders(Tail(q), base + 1, top)
           ELSE Renders(Tail(q), base, top)
<1> DEFINE t == Tail(q)
           h == Head(q)
           D == DOMAIN q
           T == DOMAIN t
<1>1. /\ h = q[1] /\ 1 \in D /\ D \subseteq Nat \ {0} /\ T \subseteq Nat \ {0}
      /\ \A i \in T : i + 1 \in D /\ t[i] = q[i + 1]
      /\ \A i \in D \ {1} : i - 1 \in T /\ t[i - 1] = q[i]
  BY Popped
<1>2. /\ \A i \in D : q[i].kind = "render" => q[i].revision \in (base + 1)..top
      /\ \A k \in (base + 1)..top : \E i \in D : q[i].kind = "render" /\ q[i].revision = k
      /\ \A i, j \in D : i < j /\ q[i].kind = "render" /\ q[j].kind = "render"
            => q[i].revision < q[j].revision
  BY DEF Renders
<1> HIDE DEF t, h, D, T
<1>3. ASSUME NEW i \in T, NEW j \in T, i < j, t[i].kind = "render", t[j].kind = "render"
      PROVE  t[i].revision < t[j].revision
  <2> DEFINE k == i + 1
             l == j + 1
  <2>1. k \in D /\ l \in D /\ k < l /\ t[i] = q[k] /\ t[j] = q[l]
    BY <1>1, <1>3
  <2> HIDE DEF k, l
  <2> QED BY <1>2, <1>3, <2>1
<1>4. \A i \in T : t[i].kind = "render" => t[i].revision \in (base + 1)..top
  <2> SUFFICES ASSUME NEW i \in T, t[i].kind = "render"
               PROVE  t[i].revision \in (base + 1)..top
    OBVIOUS
  <2> DEFINE k == i + 1
  <2>1. k \in D /\ t[i] = q[k]
    BY <1>1
  <2> HIDE DEF k
  <2>2. q[k].revision \in (base + 1)..top
    BY <1>2, <2>1
  <2> QED BY <2>1, <2>2
<1>5. \A k \in (base + 1)..top :
         \/ \E i \in T : t[i].kind = "render" /\ t[i].revision = k
         \/ h.kind = "render" /\ h.revision = k
  <2> SUFFICES ASSUME NEW k \in (base + 1)..top
               PROVE  \/ \E i \in T : t[i].kind = "render" /\ t[i].revision = k
                      \/ h.kind = "render" /\ h.revision = k
    OBVIOUS
  <2>1. PICK i \in D : q[i].kind = "render" /\ q[i].revision = k
    BY <1>2
  <2>2. CASE i = 1
    BY <1>1, <2>1, <2>2
  <2>3. CASE i # 1
    BY <1>1, <2>1, <2>3
  <2> QED BY <2>2, <2>3
<1>6. CASE h.kind # "render"
  <2>1. Renders(t, base, top)
    BY <1>3, <1>4, <1>5, <1>6 DEF Renders, T
  <2> QED BY <1>6, <2>1 DEF t, h
<1>7. CASE h.kind = "render"
  <2>1. h.revision \in (base + 1)..top
    BY <1>1, <1>2, <1>7
  <2>2. base + 1 \in (base + 1)..top /\ base + 1 <= top
    BY <2>1
  <2>3. PICK i \in D : q[i].kind = "render" /\ q[i].revision = base + 1
    BY <1>2, <2>2
  <2>4. h.revision = base + 1
    <3>1. CASE i = 1
      BY <1>1, <2>3, <3>1
    <3>2. CASE i # 1
      <4>1. 1 < i
        BY <1>1, <2>3, <3>2
      <4>2. h.revision < base + 1
        BY <1>1, <1>2, <1>7, <2>3, <4>1
      <4> QED BY <2>1, <4>2
    <3> QED BY <3>1, <3>2
  <2>5. \A j \in T : t[j].kind = "render" => t[j].revision \in ((base + 1) + 1)..top
    <3> SUFFICES ASSUME NEW j \in T, t[j].kind = "render"
                 PROVE  t[j].revision \in ((base + 1) + 1)..top
      OBVIOUS
    <3>1. j + 1 \in D /\ t[j] = q[j + 1] /\ 1 < j + 1
      BY <1>1
    <3>2. h.revision < t[j].revision
      BY <1>1, <1>2, <1>7, <3>1
    <3>3. t[j].revision \in (base + 1)..top
      BY <1>4
    <3> QED BY <2>4, <3>2, <3>3
  <2>6. \A k \in ((base + 1) + 1)..top : \E j \in T : t[j].kind = "render" /\ t[j].revision = k
    <3>1. \A k \in ((base + 1) + 1)..top : k \in (base + 1)..top /\ k # base + 1
      OBVIOUS
    <3> QED BY <1>5, <2>4, <3>1
  <2>7. Renders(t, base + 1, top)
    BY <1>3, <2>5, <2>6 DEF Renders, T
  <2> QED BY <1>7, <2>2, <2>4, <2>7 DEF t, h
<1> QED BY <1>6, <1>7

(* What a step of the frame makes of the renders that wait for the broker. *)
LEMMA GuestRendersNext ==
    ASSUME TypeOK, FrameInv, RenderInv, FrameMoves, ~BrokerEnds
    PROVE  Renders(fromGuest', brokerRender', Len(trees')) /\ brokerRender' <= Len(trees')
<1>0. /\ Renders(fromGuest, brokerRender, Len(trees)) /\ brokerRender <= Len(trees)
      /\ brokerRender \in Nat /\ Len(trees) \in Nat
  BY FrameStands, FrameQueues, Bounds DEF RenderInv, TypeOK, FrameTypeOK
<1>1. CASE BrokerRender
  <2>1. /\ fromGuest # <<>> /\ fromGuest' = Tail(fromGuest) /\ Head(fromGuest).kind = "render"
        /\ brokerRender' = Head(fromGuest).revision /\ trees' = trees
    BY <1>1, HearsType DEF BrokerRender, guestVars
  <2> QED BY <1>0, <2>1, RendersPopped, FrameQueues
<1>2. CASE BrokerWorkerReady \/ BrokerPong \/ BrokerEffect
  <2>1. /\ fromGuest # <<>> /\ fromGuest' = Tail(fromGuest) /\ Head(fromGuest).kind # "render"
        /\ brokerRender' = brokerRender /\ trees' = trees
    BY <1>2, HearsType DEF BrokerWorkerReady, BrokerPong, BrokerEffect, guestVars, rendered
  <2> QED BY <1>0, <2>1, RendersPopped, FrameQueues
<1>3. ASSUME NEW m \in GuestMessages, m.kind # "render", fromGuest' = Append(fromGuest, m),
             brokerRender' = brokerRender, trees' = trees
      PROVE  Renders(fromGuest', brokerRender', Len(trees')) /\ brokerRender' <= Len(trees')
  BY <1>0, <1>3, RendersOther, FrameQueues
<1>4. CASE GuestReady
  BY <1>3, <1>4, WorkerPosts DEF GuestReady, rendered
<1>5. CASE GuestActs
  BY <1>3, <1>5, WorkerPosts DEF GuestActs, rendered, guestVars
<1>6. CASE GuestReceives
  <2> DEFINE m == [kind |-> "pong", challenge |-> Head(toGuest).challenge]
  <2>1. brokerRender' = brokerRender /\ trees' = trees
    BY <1>6 DEF GuestReceives, rendered
  <2>2. \/ fromGuest' = fromGuest
        \/ Head(toGuest).kind = "probe" /\ fromGuest' = Append(fromGuest, m)
    BY <1>6 DEF GuestReceives
  <2>3. Head(toGuest).kind = "probe" => m \in GuestMessages
    BY <1>6, FrameQueues, Popped, ToGuestFields, WorkerPosts DEF GuestReceives
  <2>4. m.kind # "render"
    OBVIOUS
  <2> HIDE DEF m
  <2> QED BY <1>0, <1>3, <2>1, <2>2, <2>3, <2>4
<1>7. ASSUME NEW tree \in SUBSET Nodes, GuestRenders(tree)
      PROVE  Renders(fromGuest', brokerRender', Len(trees')) /\ brokerRender' <= Len(trees')
  <2> DEFINE m == [kind |-> "render", revision |-> Len(trees) + 1, tree |-> tree]
  <2>1. Len(trees) + 1 \in 1..MaxRender
    BY <1>7, FrameQueues, Bounds DEF GuestRenders
  <2>2. m \in GuestMessages /\ m.kind = "render" /\ m.revision = Len(trees) + 1
    BY <2>1, WorkerPosts
  <2>3. fromGuest' = Append(fromGuest, m) /\ brokerRender' = brokerRender
    BY <1>7 DEF GuestRenders, rendered
  <2>4. Len(trees') = Len(trees) + 1
    BY <1>7, FrameQueues DEF GuestRenders
  <2> HIDE DEF m
  <2>5. Renders(fromGuest', brokerRender, Len(trees) + 1)
    BY <1>0, <2>2, <2>3, RendersNext, FrameQueues
  <2> QED BY <1>0, <2>3, <2>4, <2>5
<1>8. CASE \/ BrokerBinds \/ BrokerLoads \/ BrokerLaunches \/ BrokerActivates \/ BrokerAnswersPing
           \/ BrokerInteraction \/ BrokerSnapshot \/ BrokerStale \/ WatchdogProbes \/ GuestHangs
  BY <1>0, <1>8 DEF BrokerBinds, BrokerLoads, BrokerLaunches, BrokerActivates, BrokerAnswersPing,
     BrokerInteraction, BrokerSnapshot, BrokerStale, WatchdogProbes, GuestHangs,
     rendered, guestVars, channels
<1>9. CASE WatchdogMisses /\ missedWorker + 1 < MissLimit
  BY <1>0, <1>9, NotMissedYet DEF channels, rendered, guestVars
<1> QED BY <1>1, <1>2, <1>4, <1>5, <1>6, <1>7, <1>8, <1>9, Zenon DEF FrameMoves

(* What a step of the host takes of the renders that wait for it. *)
LEMMA HostTakes ==
    ASSUME TypeOK, HostWorks
    PROVE  \/ /\ HostRender /\ hostRender' = hostRender + 1
              /\ toHost # <<>> /\ toHost' = Tail(toHost) /\ Head(toHost).kind = "render"
              /\ Head(toHost).revision = hostRender + 1
           \/ /\ ~HostRender /\ hostRender' = hostRender
              /\ \/ toHost' = toHost
                 \/ toHost # <<>> /\ toHost' = Tail(toHost) /\ Head(toHost).kind # "render"
<1>1. CASE HostRender
  <2>1. /\ toHost # <<>> /\ toHost' = Tail(toHost) /\ Head(toHost).kind = "render"
        /\ HostThrows(Head(toHost)) = None
    BY <1>1, ReceivesType DEF HostRender
  <2>2. Head(toHost).revision = hostRender + 1
    BY <2>1 DEF HostThrows, None
  <2> QED BY <1>1, <2>1, <2>2 DEF HostRender
<1>2. CASE HostBound \/ HostWorkerReady \/ HostActive \/ HostPong
  <2>1. /\ toHost # <<>> /\ toHost' = Tail(toHost) /\ Head(toHost).kind # "render"
        /\ hostRender' = hostRender
    BY <1>2, ReceivesType DEF HostBound, HostWorkerReady, HostActive, HostPong
  <2> QED BY <2>1 DEF HostRender, Receives
<1>3. CASE \/ HostMisses \/ Paints \/ HostBinds \/ HeartbeatPings \/ Published
           \/ markStateStale \/ \E node \in Nodes : interact(node)
  <2>1. toHost' = toHost /\ hostRender' = hostRender
    BY <1>3, NotMissedOut DEF Paints, HostBinds, HeartbeatPings, Published, publishState,
       markStateStale, interact, Post, frameVars, channels, hostVars
  <2>2. ~HostRender
    <3>1. hostRender \in Nat
      BY Bounds DEF TypeOK
    <3> QED BY <2>1, <3>1 DEF HostRender
  <2> QED BY <2>1, <2>2
<1> QED BY <1>1, <1>2, <1>3 DEF HostWorks, HostHears

LEMMA RenderNext ==
    ASSUME TypeOK, FrameInv, RenderInv, Next
    PROVE  RenderInv'
<1> USE FrameQueues
<1>0. PICK top \in Nat : /\ hostRender <= top /\ Renders(toHost, hostRender, top)
                         /\ Standing => top = brokerRender
  BY DEF RenderInv
<1>a. hostRender \in Nat /\ brokerRender \in Nat
  BY Bounds DEF TypeOK, FrameTypeOK
<1>1. CASE FrameMoves /\ UNCHANGED <<hostVars, shellVars>>
  <2>1. hostRender' = hostRender
    BY <1>1 DEF hostVars
  <2>2. CASE BrokerEnds
    <3>1. PICK code \in Faults :
             toHost' = Append(Append(toHost, [kind |-> "error", code |-> code]), [kind |-> "terminated"])
      BY <2>2, BrokerEnded
    <3> DEFINE error == [kind |-> "error", code |-> code]
               terminated == [kind |-> "terminated"]
    <3>2. /\ error \in BrokerMessages /\ terminated \in BrokerMessages
          /\ error.kind # "render" /\ terminated.kind # "render"
      BY Posts
    <3>3. toHost' = Append(Append(toHost, error), terminated)
      BY <3>1
    <3> HIDE DEF error, terminated
    <3>4. Append(toHost, error) \in Seq(BrokerMessages) /\ Renders(Append(toHost, error), hostRender, top)
      BY <1>0, <1>a, <3>2, RendersOther, Appended
    <3> DEFINE r == Append(toHost, error)
    <3>5. r \in Seq(BrokerMessages) /\ Renders(r, hostRender, top) /\ toHost' = Append(r, terminated)
      BY <3>3, <3>4
    <3> HIDE DEF r
    <3>6. Renders(toHost', hostRender, top)
      BY <1>a, <3>2, <3>5, RendersOther
    <3>7. ~Standing'
      BY <2>2, BrokerEnded, EndsFrame
    <3> QED BY <1>0, <2>1, <3>6, <3>7 DEF RenderInv
  <2>3. CASE ~BrokerEnds
    <3>1. Renders(fromGuest', brokerRender', Len(trees')) /\ brokerRender' <= Len(trees')
      BY <1>1, <2>3, GuestRendersNext
    <3>2. top = brokerRender
      BY <1>0, <1>1, FrameStands
    <3>3. CASE toHost' = toHost /\ brokerRender' = brokerRender
      BY <1>0, <2>1, <3>1, <3>2, <3>3 DEF RenderInv
    <3>4. ASSUME NEW m \in BrokerMessages, toHost' = Append(toHost, m), Reports(m)
          PROVE  RenderInv'
      <4>1. CASE m.kind = "render"
        <5>1. m.revision = brokerRender + 1 /\ brokerRender' = brokerRender + 1
          BY <3>4, <4>1 DEF Reports
        <5>2. Renders(toHost', hostRender, brokerRender + 1)
          BY <1>0, <1>a, <3>2, <3>4, <4>1, <5>1, RendersNext
        <5>3. brokerRender + 1 \in Nat /\ hostRender <= brokerRender + 1
          BY <1>0, <1>a, <3>2
        <5> QED BY <2>1, <3>1, <5>1, <5>2, <5>3 DEF RenderInv
      <4>2. CASE m.kind # "render"
        <5>1. brokerRender' = brokerRender
          BY <3>4, <4>2 DEF Reports
        <5>2. Renders(toHost', hostRender, top)
          BY <1>0, <1>a, <3>4, <4>2, RendersOther
        <5> QED BY <1>0, <2>1, <3>1, <3>2, <5>1, <5>2 DEF RenderInv
      <4> QED BY <4>1, <4>2
    <3> QED BY <1>1, <2>3, <3>3, <3>4, FrameReports
  <2> QED BY <2>2, <2>3
<1>2. CASE HostEnds
  <2>1. hostRender' = hostRender /\ toHost' = <<>> /\ ~Standing'
    BY <1>2, HostEnded, EndsFrame
  <2>2. Renders(<<>>, hostRender, hostRender)
    BY <1>a, RendersEmpty
  <2> QED BY <1>a, <2>1, <2>2 DEF RenderInv
<1>3. CASE FrameLost
  <2>1. hostRender' = hostRender /\ toHost' = toHost /\ ~Standing'
    BY <1>3, Losing, EndsFrame DEF FrameLost, hostVars
  <2> QED BY <1>0, <2>1 DEF RenderInv
<1>4. CASE HostWorks
  <2>1. /\ UNCHANGED <<fromGuest, brokerRender, trees>> /\ Standing' = Standing
    BY <1>4, HostWorksFrame DEF FrameRests, Standing, rendered, guestVars
  <2>2. \E n \in Nat : /\ hostRender' <= n /\ Renders(toHost', hostRender', n)
                       /\ Standing => n = brokerRender
    <3>1. CASE /\ hostRender' = hostRender + 1
               /\ toHost # <<>> /\ toHost' = Tail(toHost) /\ Head(toHost).kind = "render"
      <4>1. hostRender + 1 <= top /\ Renders(toHost', hostRender + 1, top)
        BY <1>0, <1>a, <3>1, RendersPopped
      <4> QED BY <1>0, <3>1, <4>1
    <3>2. CASE hostRender' = hostRender /\ toHost' = toHost
      BY <1>0, <3>2
    <3>3. CASE /\ hostRender' = hostRender
               /\ toHost # <<>> /\ toHost' = Tail(toHost) /\ Head(toHost).kind # "render"
      <4>1. Renders(toHost', hostRender, top)
        BY <1>0, <1>a, <3>3, RendersPopped
      <4> QED BY <1>0, <3>3, <4>1
    <3> QED BY <1>4, <3>1, <3>2, <3>3, HostTakes
  <2> QED BY <2>1, <2>2 DEF RenderInv
<1> QED BY <1>1, <1>2, <1>3, <1>4, Moves, HostDivides

-----------------------------------------------------------------------------
(* Trees and the controls they leave enabled. *)

(* Trees are only added. *)
LEMMA TreesGrow ==
    ASSUME TypeOK, FrameMoves
    PROVE  /\ DOMAIN trees \subseteq DOMAIN trees'
           /\ \A r \in DOMAIN trees : trees'[r] = trees[r]
<1>1. CASE BrokerEnds
  BY <1>1, BrokerEnded, EndsFrame
<1>2. CASE trees' = trees
  BY <1>2
<1>3. CASE \E tree \in SUBSET Nodes : GuestRenders(tree)
  BY <1>3, FrameQueues, Appended DEF GuestRenders
<1>4. CASE \/ BrokerBinds \/ BrokerLoads \/ BrokerLaunches \/ BrokerActivates \/ BrokerAnswersPing
           \/ BrokerInteraction \/ BrokerSnapshot \/ BrokerStale \/ BrokerWorkerReady
           \/ BrokerRender \/ BrokerPong \/ BrokerEffect \/ WatchdogProbes
           \/ GuestReady \/ GuestReceives \/ GuestActs \/ GuestHangs
  BY <1>2, <1>4 DEF BrokerBinds, BrokerLoads, BrokerLaunches, BrokerActivates, BrokerAnswersPing,
     BrokerInteraction, BrokerSnapshot, BrokerStale, BrokerWorkerReady, BrokerRender, BrokerPong,
     BrokerEffect, WatchdogProbes, GuestReady, GuestReceives, GuestActs, GuestHangs, guestVars
<1>5. CASE WatchdogMisses /\ missedWorker + 1 < MissLimit
  BY <1>2, <1>5, NotMissedYet DEF guestVars
<1> QED BY <1>1, <1>3, <1>4, <1>5, Zenon DEF FrameMoves

(* What the guest posts to the broker, and what the broker takes. *)
LEMMA GuestPosts ==
    ASSUME TypeOK, FrameMoves, ~BrokerEnds
    PROVE  \/ fromGuest' = fromGuest
           \/ fromGuest # <<>> /\ fromGuest' = Tail(fromGuest)
           \/ \E m \in GuestMessages :
                 /\ fromGuest' = Append(fromGuest, m)
                 /\ m.kind = "pong" => GuestReceives /\ Head(toGuest).kind = "probe"
                                         /\ m.challenge = Head(toGuest).challenge
                 /\ m.kind = "render" => GuestRenders(m.tree) /\ m.revision = Len(trees) + 1
<1>1. CASE BrokerRender \/ BrokerWorkerReady \/ BrokerPong \/ BrokerEffect
  BY <1>1, HearsType DEF BrokerRender, BrokerWorkerReady, BrokerPong, BrokerEffect
<1>2. CASE GuestReady \/ GuestActs
  BY <1>2, WorkerPosts DEF GuestReady, GuestActs
<1>3. CASE GuestReceives
  <2> DEFINE m == [kind |-> "pong", challenge |-> Head(toGuest).challenge]
  <2>1. \/ fromGuest' = fromGuest
        \/ Head(toGuest).kind = "probe" /\ fromGuest' = Append(fromGuest, m)
    BY <1>3 DEF GuestReceives
  <2>2. Head(toGuest).kind = "probe" => m \in GuestMessages
    BY <1>3, FrameQueues, Popped, ToGuestFields, WorkerPosts DEF GuestReceives
  <2>3. m.kind = "pong" /\ m.challenge = Head(toGuest).challenge
    OBVIOUS
  <2> HIDE DEF m
  <2> QED BY <1>3, <2>1, <2>2, <2>3
<1>4. ASSUME NEW tree \in SUBSET Nodes, GuestRenders(tree)
      PROVE  \E m \in GuestMessages :
                /\ fromGuest' = Append(fromGuest, m)
                /\ m.kind = "pong" => GuestReceives /\ Head(toGuest).kind = "probe"
                                        /\ m.challenge = Head(toGuest).challenge
                /\ m.kind = "render" => GuestRenders(m.tree) /\ m.revision = Len(trees) + 1
  <2> DEFINE m == [kind |-> "render", revision |-> Len(trees) + 1, tree |-> tree]
  <2>1. Len(trees) + 1 \in 1..MaxRender
    BY <1>4, FrameQueues, Bounds DEF GuestRenders
  <2>2. /\ m \in GuestMessages /\ m.kind = "render" /\ m.revision = Len(trees) + 1
        /\ m.tree = tree
    BY <2>1, WorkerPosts
  <2>3. fromGuest' = Append(fromGuest, m)
    BY <1>4 DEF GuestRenders
  <2> HIDE DEF m
  <2> QED BY <1>4, <2>2, <2>3
<1>5. CASE \/ BrokerBinds \/ BrokerLoads \/ BrokerLaunches \/ BrokerActivates \/ BrokerAnswersPing
           \/ BrokerInteraction \/ BrokerSnapshot \/ BrokerStale \/ WatchdogProbes \/ GuestHangs
  BY <1>5 DEF BrokerBinds, BrokerLoads, BrokerLaunches, BrokerActivates, BrokerAnswersPing,
     BrokerInteraction, BrokerSnapshot, BrokerStale, WatchdogProbes, GuestHangs, channels
<1>6. CASE WatchdogMisses /\ missedWorker + 1 < MissLimit
  BY <1>6, NotMissedYet DEF channels
<1> QED BY <1>1, <1>2, <1>3, <1>4, <1>5, <1>6, Zenon DEF FrameMoves

(* What the broker posts to the guest, and what the guest takes. *)
LEMMA WorkerHears ==
    ASSUME TypeOK, FrameMoves, ~BrokerEnds, ~BrokerWorkerReady
    PROVE  \/ toGuest' = toGuest
           \/ GuestReceives /\ toGuest # <<>> /\ toGuest' = Tail(toGuest)
           \/ /\ BrokerInteraction
              /\ toGuest' = Append(toGuest, [kind |-> "interaction", render |-> brokerRender,
                                             node |-> Head(toBroker).node])
           \/ BrokerSnapshot /\ toGuest' = Append(toGuest, Head(toBroker))
           \/ BrokerStale /\ toGuest' = Append(toGuest, Head(toBroker))
           \/ WatchdogProbes /\ toGuest' = Append(toGuest, Probe)
<1>1. CASE \/ BrokerBinds \/ BrokerLoads \/ BrokerLaunches \/ BrokerActivates \/ BrokerAnswersPing
           \/ BrokerRender \/ BrokerPong \/ BrokerEffect \/ GuestReady \/ GuestActs \/ GuestHangs
           \/ \E tree \in SUBSET Nodes : GuestRenders(tree)
  BY <1>1 DEF BrokerBinds, BrokerLoads, BrokerLaunches, BrokerActivates, BrokerAnswersPing,
     BrokerRender, BrokerPong, BrokerEffect, GuestReady, GuestActs, GuestHangs, GuestRenders, channels
<1>2. CASE BrokerInteraction \/ BrokerSnapshot \/ BrokerStale \/ WatchdogProbes
  BY <1>2 DEF BrokerInteraction, BrokerSnapshot, BrokerStale, WatchdogProbes
<1>3. CASE GuestReceives
  BY <1>3 DEF GuestReceives
<1>4. CASE WatchdogMisses /\ missedWorker + 1 < MissLimit
  BY <1>4, NotMissedYet DEF channels
<1> QED BY <1>1, <1>2, <1>3, <1>4, Zenon DEF FrameMoves

Clickable(m, last, forest) ==
    m.kind = "interaction" => m.render \in 1..last /\ m.node \in forest[m.render]

LEMMA ClicksWithin ==
    /\ ClicksReachLiveControls <=> \A m \in Within(toGuest) : Clickable(m, hostRender, trees)
    /\ ClicksReachLiveControls' <=> \A m \in Within(toGuest') : Clickable(m, hostRender', trees')
BY DEF ClicksReachLiveControls, Clickable, Within

LEMMA TargetsNext ==
    ASSUME TypeOK, FrameInv, TreesInv, FrameMoves, ~BrokerEnds
    PROVE  IF brokerRender' = 0 THEN targets' = {}
           ELSE brokerRender' \in DOMAIN trees' /\ targets' = trees'[brokerRender']
<1>1. CASE BrokerRender
  <2> DEFINE m == Head(fromGuest)
  <2>1. m \in Within(fromGuest) /\ m.kind = "render" /\ GuestFault(m) = None
    BY <1>1, HearsType, FrameQueues, WithinPopped DEF BrokerRender
  <2>2. m.revision \in DOMAIN trees /\ m.tree = trees[m.revision]
    BY <2>1 DEF TreesInv
  <2>3. brokerRender' = m.revision /\ targets' = m.tree
    BY <1>1 DEF BrokerRender
  <2>4. m.revision # 0
    BY <2>2, FrameQueues
  <2> QED BY <2>2, <2>3, <2>4, TreesGrow
<1>2. CASE ~BrokerRender
  <2>1. brokerRender' = brokerRender /\ targets' = targets
    <3>1. CASE \/ BrokerBinds \/ BrokerLoads \/ BrokerLaunches \/ BrokerActivates \/ BrokerAnswersPing
               \/ BrokerInteraction \/ BrokerSnapshot \/ BrokerStale \/ BrokerWorkerReady
               \/ BrokerPong \/ BrokerEffect \/ WatchdogProbes
               \/ GuestReady \/ GuestReceives \/ GuestActs \/ GuestHangs
               \/ \E tree \in SUBSET Nodes : GuestRenders(tree)
      BY <3>1 DEF BrokerBinds, BrokerLoads, BrokerLaunches, BrokerActivates, BrokerAnswersPing,
         BrokerInteraction, BrokerSnapshot, BrokerStale, BrokerWorkerReady, BrokerPong,
         BrokerEffect, WatchdogProbes, GuestReady, GuestReceives, GuestActs, GuestHangs,
         GuestRenders, rendered
    <3>2. CASE WatchdogMisses /\ missedWorker + 1 < MissLimit
      BY <3>2, NotMissedYet DEF rendered
    <3> QED BY <1>2, <3>1, <3>2, Zenon DEF FrameMoves
  <2> QED BY <2>1, TreesGrow DEF TreesInv
<1> QED BY <1>1, <1>2

LEMMA TreesNext ==
    ASSUME TypeOK, FrameInv, RenderInv, TreesInv, Next
    PROVE  TreesInv'
<1> USE FrameQueues
<1>a. \A m \in Within(toGuest) : Clickable(m, hostRender, trees)
  BY ClicksWithin DEF TreesInv
<1>b. hostRender \in Nat /\ brokerRender \in Nat /\ Len(trees) \in Nat /\ DOMAIN trees = 1..Len(trees)
  BY Bounds DEF TypeOK, FrameTypeOK
<1>c. Standing => \A r \in 1..hostRender : r \in DOMAIN trees
  <2>1. Standing => hostRender <= Len(trees)
    BY <1>b DEF RenderInv
  <2> QED BY <1>b, <2>1
<1>1. CASE FrameMoves /\ UNCHANGED <<hostVars, shellVars>>
  <2>1. hostRender' = hostRender /\ Within(toBroker') \subseteq Within(toBroker)
    BY <1>1, FrameTakes DEF hostVars
  <2>2. CASE BrokerEnds
    <3>1. /\ fromGuest' = <<>> /\ toGuest' = <<>> /\ brokerRender' = 0 /\ targets' = {}
      BY <2>2, BrokerEnded, EndsFrame DEF Fresh
    <3> QED BY <2>1, <3>1, Empty, ClicksWithin DEF TreesInv
  <2>3. CASE ~BrokerEnds
    <3>1. IF brokerRender' = 0 THEN targets' = {}
          ELSE brokerRender' \in DOMAIN trees' /\ targets' = trees'[brokerRender']
      BY <1>1, <2>3, TargetsNext
    <3>2. \A m \in Within(fromGuest') :
            m.kind = "render" => m.revision \in DOMAIN trees' /\ m.tree = trees'[m.revision]
      <4>1. \A m \in Within(fromGuest) :
               m.kind = "render" => m.revision \in DOMAIN trees' /\ m.tree = trees'[m.revision]
        BY <1>1, TreesGrow DEF TreesInv
      <4>2. CASE fromGuest' = fromGuest
        BY <4>1, <4>2
      <4>3. CASE fromGuest # <<>> /\ fromGuest' = Tail(fromGuest)
        BY <4>1, <4>3, WithinPopped
      <4>4. ASSUME NEW n \in GuestMessages, fromGuest' = Append(fromGuest, n),
                   n.kind = "render" => GuestRenders(n.tree) /\ n.revision = Len(trees) + 1
            PROVE  \A m \in Within(fromGuest') :
                      m.kind = "render" => m.revision \in DOMAIN trees' /\ m.tree = trees'[m.revision]
        <5>1. Within(fromGuest') = Within(fromGuest) \cup {n}
          BY <4>4, WithinAppended
        <5>2. n.kind = "render" => n.revision \in DOMAIN trees' /\ n.tree = trees'[n.revision]
          <6> SUFFICES ASSUME n.kind = "render"
                       PROVE  n.revision \in DOMAIN trees' /\ n.tree = trees'[n.revision]
            OBVIOUS
          <6>1. n.tree \in SUBSET Nodes /\ n.revision = Len(trees) + 1 /\ trees' = Append(trees, n.tree)
            BY <4>4, GuestFields DEF GuestRenders
          <6> QED BY <6>1, Appended
        <5> QED BY <4>1, <5>1, <5>2
      <4> QED BY <1>1, <2>3, <4>2, <4>3, <4>4, GuestPosts
    <3>3. \A m \in Within(toGuest) : Clickable(m, hostRender', trees')
      <4>1. \A m \in Within(toGuest) : m.kind = "interaction" =>
               m.render \in DOMAIN trees /\ m.render \in 1..hostRender /\ m.node \in trees[m.render]
        BY <1>1, <1>a, <1>c, FrameStands DEF Clickable
      <4> QED BY <1>1, <2>1, <4>1, TreesGrow DEF Clickable
    <3>4. \A m \in Within(toGuest') : Clickable(m, hostRender', trees')
      <4>1. CASE toGuest' = toGuest \/ (toGuest # <<>> /\ toGuest' = Tail(toGuest))
        BY <3>3, <4>1, WithinPopped
      <4>2. ASSUME NEW m \in ToGuestMessages, toGuest' = Append(toGuest, m), Clickable(m, hostRender', trees')
            PROVE  \A n \in Within(toGuest') : Clickable(n, hostRender', trees')
        BY <3>3, <4>2, WithinAppended
      <4>3. CASE BrokerInteraction
        <5> DEFINE m == [kind |-> "interaction", render |-> brokerRender,
                         node |-> Head(toBroker).node]
        <5>1. /\ Head(toBroker) \in Within(toBroker) /\ Head(toBroker).kind = "interaction"
              /\ Head(toBroker).render = brokerRender /\ Head(toBroker).node \in targets
              /\ brokerRender \in 1..MaxRender /\ targets = trees[brokerRender]
              /\ targets \subseteq Nodes
          BY <4>3, AcceptedInteraction
        <5>2. brokerRender <= hostRender
          BY <5>1 DEF TreesInv
        <5>3. m \in ToGuestMessages
          BY <5>1, WorkerPosts
        <5>4. brokerRender \in DOMAIN trees /\ brokerRender \in 1..hostRender
          BY <5>1, <5>2, <1>b, <1>c, <1>1, FrameStands
        <5>5. Head(toBroker).node \in trees'[brokerRender]
          BY <1>1, <5>1, <5>4, TreesGrow
        <5>6. Clickable(m, hostRender', trees')
          BY <2>1, <5>4, <5>5 DEF Clickable
        <5>7. toGuest' = Append(toGuest, m)
          BY <4>3 DEF BrokerInteraction
        <5> HIDE DEF m
        <5> QED BY <4>2, <5>3, <5>6, <5>7
      <4>4. CASE BrokerSnapshot \/ BrokerStale
        <5>1. /\ Head(toBroker) \in ToGuestMessages /\ Head(toBroker).kind \in {"snapshot", "stale"}
              /\ toGuest' = Append(toGuest, Head(toBroker))
          BY <4>4, TakesType, HostFields DEF BrokerSnapshot, BrokerStale, Accepts
        <5>2. Head(toBroker).kind # "interaction"
          BY <5>1
        <5> QED BY <4>2, <5>1, <5>2 DEF Clickable
      <4>5. CASE WatchdogProbes
        <5>1. Probe \in ToGuestMessages /\ Probe.kind # "interaction"
          BY WorkerPosts DEF Probe, TypeOK, FrameTypeOK
        <5> QED BY <4>2, <4>5, <5>1 DEF Clickable, WatchdogProbes
      <4>6. CASE BrokerWorkerReady
        <5> DEFINE first == [kind |-> "snapshot", revision |-> stateRevision]
        <5>1. /\ first \in ToGuestMessages /\ first.kind # "interaction"
              /\ Probe \in ToGuestMessages /\ Probe.kind # "interaction"
          BY WorkerPosts DEF Probe, TypeOK, FrameTypeOK
        <5>2. toGuest' = toGuest \o <<first, Probe>>
          BY <4>6 DEF BrokerWorkerReady
        <5> HIDE DEF first
        <5>3. toGuest' = Append(Append(toGuest, first), Probe)
          BY <5>1, <5>2, TwoAppended
        <5>4. Within(toGuest') = Within(toGuest) \cup {first} \cup {Probe}
          BY <5>1, <5>3, WithinTwo
        <5> QED BY <3>3, <5>1, <5>4 DEF Clickable
      <4> QED BY <1>1, <2>3, <4>1, <4>3, <4>4, <4>5, <4>6, WorkerHears
    <3> QED BY <2>1, <3>1, <3>2, <3>4, ClicksWithin DEF TreesInv
  <2> QED BY <2>2, <2>3
<1>2. CASE HostEnds \/ FrameLost
  <2>1. /\ fromGuest' = <<>> /\ toGuest' = <<>> /\ toBroker' = <<>>
        /\ brokerRender' = 0 /\ targets' = {}
    BY <1>2, HostEnded, Losing, EndsFrame DEF Fresh
  <2> QED BY <2>1, Empty, ClicksWithin DEF TreesInv
<1>3. CASE HostWorks
  <2>1. UNCHANGED <<toGuest, fromGuest, brokerRender, targets, trees>>
    BY <1>3, HostWorksFrame DEF FrameRests, rendered, guestVars
  <2>2. hostRender' \in Nat /\ hostRender <= hostRender'
    BY <1>3, <1>b, HostTakes
  <2>3. \A m \in Within(toGuest') : Clickable(m, hostRender', trees')
    <3>1. \A r \in 1..hostRender : r \in 1..hostRender'
      BY <1>b, <2>2
    <3> QED BY <1>a, <2>1, <3>1 DEF Clickable
  <2>4. \A m \in Within(toBroker') : m.kind = "interaction" => m.render <= hostRender'
    <3>1. \A m \in Within(toBroker) : m.kind = "interaction" => m.render <= hostRender'
      <4> SUFFICES ASSUME NEW m \in Within(toBroker), m.kind = "interaction"
                   PROVE  m.render <= hostRender'
        OBVIOUS
      <4>1. m \in HostMessages
        BY DEF Within
      <4>2. m.render \in Nat /\ m.render <= hostRender
        BY <4>1, HostFields, Bounds DEF TreesInv
      <4> QED BY <1>b, <2>2, <4>2
    <3>2. CASE toBroker' = toBroker
      BY <3>1, <3>2
    <3>3. ASSUME NEW m \in HostMessages, toBroker' = Append(toBroker, m),
                 m.kind = "interaction" => m.render = hostRender
          PROVE  \A n \in Within(toBroker') : n.kind = "interaction" => n.render <= hostRender'
      BY <2>2, <3>1, <3>3, WithinAppended
    <3>4. CASE toBroker' = Posted(Buffered)
      BY <3>1, <3>4, BufferedWithin
    <3> QED BY <1>3, <3>2, <3>3, <3>4, HostWorksPosts
  <2> QED BY <2>1, <2>3, <2>4, ClicksWithin DEF TreesInv
<1> QED BY <1>1, <1>2, <1>3, Moves, HostDivides

-----------------------------------------------------------------------------
(* Activation. *)

LEMMA EffectsWithin ==
    /\ EffectsFollowActivation <=> \A m \in Within(toHost) : m.kind = "effect" => hostRender > 0
    /\ EffectsFollowActivation' <=> \A m \in Within(toHost') : m.kind = "effect" => hostRender' > 0
BY DEF EffectsFollowActivation, Within

LEMMA ActivationNext ==
    ASSUME TypeOK, FrameInv, RenderInv, ActivationInv, Next
    PROVE  ActivationInv'
<1> USE FrameQueues
<1>a. \A m \in Within(toHost) : m.kind = "effect" => hostRender > 0
  BY EffectsWithin DEF ActivationInv
<1>b. hostRender \in Nat /\ brokerRender \in Nat
  BY Bounds DEF TypeOK, FrameTypeOK
<1>1. CASE FrameMoves /\ UNCHANGED <<hostVars, shellVars>>
  <2>1. hostRender' = hostRender
    BY <1>1 DEF hostVars
  <2>2. CASE BrokerEnds
    <3>1. toBroker' = <<>> /\ active' = FALSE
      BY <2>2, BrokerEnded, EndsFrame DEF Fresh
    <3>2. \A m \in Within(toHost') : m.kind = "effect" => hostRender' > 0
      BY <1>a, <2>1, <2>2, WithinEnded
    <3> QED BY <3>1, <3>2, Empty, EffectsWithin DEF ActivationInv
  <2>3. CASE ~BrokerEnds
    <3>1. brokerRender > 0 => brokerRender' > 0
      BY <1>1, <1>b, <2>3, FrameReports DEF Reports
    <3>2. active' => hostRender > 0
      <4>1. CASE BrokerActivates
        <5>1. toBroker # <<>> /\ Head(toBroker).kind = "activate"
          BY <4>1 DEF BrokerActivates, Accepts, Takes
        <5> QED BY <5>1, WithinPopped DEF ActivationInv
      <4>2. CASE WatchdogMisses /\ missedWorker + 1 < MissLimit
        BY <4>2, NotMissedYet DEF ActivationInv
      <4>3. CASE \/ BrokerBinds \/ BrokerLoads \/ BrokerLaunches \/ BrokerAnswersPing
                 \/ BrokerInteraction \/ BrokerSnapshot \/ BrokerStale \/ BrokerWorkerReady
                 \/ BrokerRender \/ BrokerPong \/ BrokerEffect \/ WatchdogProbes
                 \/ GuestReady \/ GuestReceives \/ GuestActs \/ GuestHangs
                 \/ \E tree \in SUBSET Nodes : GuestRenders(tree)
        <5>1. active' = active
          BY <4>3 DEF BrokerBinds, BrokerLoads, BrokerLaunches, BrokerAnswersPing, BrokerInteraction,
             BrokerSnapshot, BrokerStale, BrokerWorkerReady, BrokerRender, BrokerPong,
             BrokerEffect, WatchdogProbes, GuestReady, GuestReceives, GuestActs, GuestHangs,
             GuestRenders
        <5> QED BY <5>1 DEF ActivationInv
      <4> QED BY <1>1, <2>3, <4>1, <4>2, <4>3, Zenon DEF FrameMoves
    <3>3. \A m \in Within(toHost') : m.kind = "effect" => hostRender > 0
      <4>1. CASE toHost' = toHost
        BY <1>a, <4>1
      <4>2. ASSUME NEW m \in BrokerMessages, toHost' = Append(toHost, m), Reports(m)
            PROVE  \A n \in Within(toHost') : n.kind = "effect" => hostRender > 0
        <5>1. m.kind = "effect" => hostRender > 0
          BY <4>2 DEF Reports, ActivationInv
        <5> QED BY <1>a, <4>2, <5>1, WithinAppended
      <4> QED BY <1>1, <2>3, <4>1, <4>2, FrameReports
    <3>4. Within(toBroker') \subseteq Within(toBroker)
      BY <1>1, FrameTakes
    <3> QED BY <2>1, <3>1, <3>2, <3>3, <3>4, EffectsWithin DEF ActivationInv
  <2> QED BY <2>2, <2>3
<1>2. CASE HostEnds
  <2>1. toBroker' = <<>> /\ toHost' = <<>> /\ active' = FALSE
    BY <1>2, HostEnded, EndsFrame DEF Fresh
  <2> QED BY <2>1, Empty, EffectsWithin DEF ActivationInv
<1>3. CASE FrameLost
  <2>1. toBroker' = <<>> /\ toHost' = toHost /\ active' = FALSE /\ hostRender' = hostRender
    BY <1>3, Losing, EndsFrame DEF Fresh, FrameLost, hostVars
  <2> QED BY <1>a, <2>1, Empty, EffectsWithin DEF ActivationInv
<1>4. CASE HostWorks
  <2>1. active' = active /\ brokerRender' = brokerRender
    BY <1>4, HostWorksFrame DEF FrameRests, rendered
  <2>2. hostRender' \in Nat /\ hostRender <= hostRender'
    BY <1>4, <1>b, HostTakes
  <2>3. hostRender > 0 => hostRender' > 0
    BY <1>b, <2>2
  <2>4. Within(toHost') \subseteq Within(toHost)
    BY <1>4, HostWorksFrame, WithinPopped
  <2>5. \A m \in Within(toBroker') :
           m.kind = "activate" => hostRender' > 0 /\ brokerRender > 0
    <3>1. \A m \in Within(toBroker) : m.kind = "activate" => hostRender' > 0 /\ brokerRender > 0
      BY <2>3 DEF ActivationInv
    <3>2. CASE toBroker' = toBroker
      BY <3>1, <3>2
    <3>3. CASE toBroker' = Posted(Buffered)
      BY <3>1, <3>3, BufferedWithin
    <3>4. ASSUME NEW m \in HostMessages, toBroker' = Append(toBroker, m),
                 phase \notin {"closed", "lost"}, m.kind = "activate" => HostRender
          PROVE  \A n \in Within(toBroker') :
                    n.kind = "activate" => hostRender' > 0 /\ brokerRender > 0
      <4>1. m.kind = "activate" => hostRender' > 0 /\ brokerRender > 0
        <5> SUFFICES ASSUME HostRender PROVE hostRender' > 0 /\ brokerRender > 0
          BY <3>4
        <5>1. /\ hostRender' = hostRender + 1
              /\ toHost # <<>> /\ Head(toHost).kind = "render"
          BY <1>4, HostTakes
        <5>2. Standing
          BY <1>4, <3>4, HostWorksFrame DEF Standing, FrameInv
        <5>3. Renders(toHost, hostRender, brokerRender)
          BY <5>2 DEF RenderInv
        <5>4. hostRender + 1 <= brokerRender
          BY <1>b, <5>1, <5>3, RendersPopped
        <5> QED BY <1>b, <5>1, <5>4
      <4> QED BY <3>1, <3>4, <4>1, WithinAppended
    <3> QED BY <1>4, <3>2, <3>3, <3>4, HostWorksPosts
  <2> QED BY <1>a, <2>1, <2>3, <2>4, <2>5, EffectsWithin DEF ActivationInv
<1> QED BY <1>1, <1>2, <1>3, <1>4, Moves, HostDivides

-----------------------------------------------------------------------------
(* Revisions stay in order. *)

LEMMA OrderedEmpty == \A low, high : Ordered(<<>>, low, high)
BY Empty DEF Ordered

LEMMA OrderedAppended ==
    ASSUME NEW q \in Seq(HostMessages), NEW m \in HostMessages,
           NEW low \in Nat, NEW high \in Nat, NEW more \in Nat, Ordered(q, low, high),
           low <= high, high <= more, m.kind = "snapshot" => m.revision = more
    PROVE  Ordered(Append(q, m), low, more)
<1> DEFINE r == Append(q, m)
           D == DOMAIN q
           n == Len(q) + 1
<1>1. /\ DOMAIN r = D \cup {n} /\ r[n] = m /\ D \subseteq Nat /\ n \in Nat
      /\ \A i \in D : r[i] = q[i] /\ i < n
  BY Appended
<1>2. /\ \A i \in D : q[i].kind = "snapshot" => low <= q[i].revision /\ q[i].revision <= high
      /\ \A i, j \in D : i < j /\ q[i].kind = "snapshot" /\ q[j].kind = "snapshot"
            => q[i].revision <= q[j].revision
  BY DEF Ordered
<1>3. \A i \in D : q[i].kind = "snapshot" => q[i].revision \in Nat
  BY HostFields, Bounds
<1> HIDE DEF r, D, n
<1>4. \A i \in D : q[i].kind = "snapshot" => low <= q[i].revision /\ q[i].revision <= more
  BY <1>2, <1>3
<1>5. \A i \in DOMAIN r : r[i].kind = "snapshot" => low <= r[i].revision /\ r[i].revision <= more
  <2>1. low <= more /\ more <= more
    OBVIOUS
  <2> QED BY <1>1, <1>4, <2>1
<1>6. \A i, j \in DOMAIN r : i < j /\ r[i].kind = "snapshot" /\ r[j].kind = "snapshot"
         => r[i].revision <= r[j].revision
  <2> SUFFICES ASSUME NEW i \in DOMAIN r, NEW j \in DOMAIN r, i < j,
                      r[i].kind = "snapshot", r[j].kind = "snapshot"
               PROVE  r[i].revision <= r[j].revision
    OBVIOUS
  <2>1. i \in D
    <3>1. j = n \/ (j \in D /\ j < n)
      BY <1>1
    <3>2. i \in Nat /\ j \in Nat /\ n \in Nat /\ i < j
      BY <1>1
    <3>3. i # n
      BY <3>1, <3>2
    <3> QED BY <1>1, <3>3
  <2>2. CASE j \in D
    BY <1>1, <1>2, <2>1, <2>2
  <2>3. CASE j = n
    BY <1>1, <1>4, <2>1, <2>3
  <2> QED BY <1>1, <2>2, <2>3
<1>7. Ordered(r, low, more)
  BY <1>5, <1>6 DEF Ordered
<1> QED BY <1>7 DEF r

LEMMA OrderedRaised ==
    ASSUME NEW q \in Seq(HostMessages), NEW low, NEW high \in Nat, NEW more \in Nat,
           Ordered(q, low, high), high <= more
    PROVE  Ordered(q, low, more)
<1>1. \A i \in DOMAIN q : q[i].kind = "snapshot" => q[i].revision \in Nat
  BY HostFields, Bounds
<1>2. /\ \A i \in DOMAIN q : q[i].kind = "snapshot" => low <= q[i].revision /\ q[i].revision <= high
      /\ \A i, j \in DOMAIN q : i < j /\ q[i].kind = "snapshot" /\ q[j].kind = "snapshot"
            => q[i].revision <= q[j].revision
  BY DEF Ordered
<1>3. \A i \in DOMAIN q : q[i].kind = "snapshot" => low <= q[i].revision /\ q[i].revision <= more
  BY <1>1, <1>2
<1> QED BY <1>2, <1>3 DEF Ordered

LEMMA OrderedPopped ==
    ASSUME NEW q \in Seq(HostMessages), q # <<>>, NEW low, NEW high, Ordered(q, low, high)
    PROVE  IF Head(q).kind = "snapshot"
           THEN /\ low <= Head(q).revision /\ Head(q).revision <= high
                /\ Ordered(Tail(q), Head(q).revision, high)
           ELSE Ordered(Tail(q), low, high)
<1> DEFINE t == Tail(q)
           h == Head(q)
           D == DOMAIN q
           T == DOMAIN t
<1>1. /\ h = q[1] /\ 1 \in D /\ D \subseteq Nat \ {0} /\ T \subseteq Nat \ {0}
      /\ \A i \in T : i + 1 \in D /\ t[i] = q[i + 1]
  BY Popped
<1>2. /\ \A i \in D : q[i].kind = "snapshot" => low <= q[i].revision /\ q[i].revision <= high
      /\ \A i, j \in D : i < j /\ q[i].kind = "snapshot" /\ q[j].kind = "snapshot"
            => q[i].revision <= q[j].revision
  BY DEF Ordered
<1> HIDE DEF t, h, D, T
<1>3. \A i, j \in T : i < j /\ t[i].kind = "snapshot" /\ t[j].kind = "snapshot"
         => t[i].revision <= t[j].revision
  <2>1. \A i, j \in T : i < j => i + 1 < j + 1
    BY <1>1
  <2> QED BY <1>1, <1>2, <2>1
<1>4. \A i \in T : t[i].kind = "snapshot" =>
         /\ low <= t[i].revision /\ t[i].revision <= high
         /\ h.kind = "snapshot" => h.revision <= t[i].revision
  <2> SUFFICES ASSUME NEW i \in T, t[i].kind = "snapshot"
               PROVE  /\ low <= t[i].revision /\ t[i].revision <= high
                      /\ h.kind = "snapshot" => h.revision <= t[i].revision
    OBVIOUS
  <2> DEFINE k == i + 1
  <2>1. k \in D /\ t[i] = q[k] /\ 1 < k
    BY <1>1
  <2> HIDE DEF k
  <2> QED BY <1>1, <1>2, <2>1
<1>5. CASE h.kind # "snapshot"
  <2>1. Ordered(t, low, high)
    BY <1>3, <1>4 DEF Ordered, T
  <2> QED BY <1>5, <2>1 DEF t, h
<1>6. CASE h.kind = "snapshot"
  <2>1. low <= h.revision /\ h.revision <= high
    BY <1>1, <1>2, <1>6
  <2>2. Ordered(t, h.revision, high)
    BY <1>3, <1>4, <1>6 DEF Ordered, T
  <2> QED BY <1>6, <2>1, <2>2 DEF t, h
<1> QED BY <1>5, <1>6

(* What the frame makes of the states that wait for it. *)
LEMMA StatesTaken ==
    ASSUME TypeOK, FrameMoves, ~BrokerEnds
    PROVE  \/ /\ toBroker # <<>> /\ toBroker' = Tail(toBroker)
              /\ Head(toBroker).kind = "snapshot" /\ stateRevision' = Head(toBroker).revision
           \/ /\ stateRevision' = stateRevision
              /\ \/ toBroker' = toBroker
                 \/ toBroker # <<>> /\ toBroker' = Tail(toBroker) /\ Head(toBroker).kind # "snapshot"
<1>1. CASE BrokerSnapshot
  BY <1>1, TakesType DEF BrokerSnapshot, Accepts
<1>2. CASE \/ BrokerBinds \/ BrokerLoads \/ BrokerActivates \/ BrokerAnswersPing
           \/ BrokerInteraction \/ BrokerStale
  BY <1>2, TakesType DEF BrokerBinds, BrokerLoads, BrokerActivates, BrokerAnswersPing,
     BrokerInteraction, BrokerStale, Accepts
<1>3. CASE \/ BrokerLaunches \/ BrokerWorkerReady \/ BrokerRender \/ BrokerPong \/ BrokerEffect
           \/ WatchdogProbes \/ GuestReady \/ GuestReceives \/ GuestActs \/ GuestHangs
           \/ \E tree \in SUBSET Nodes : GuestRenders(tree)
  BY <1>3 DEF BrokerLaunches, BrokerWorkerReady, BrokerRender, BrokerPong, BrokerEffect,
     WatchdogProbes, GuestReady, GuestReceives, GuestActs, GuestHangs, GuestRenders, channels
<1>4. CASE WatchdogMisses /\ missedWorker + 1 < MissLimit
  BY <1>4, NotMissedYet DEF channels
<1> QED BY <1>1, <1>2, <1>3, <1>4, Zenon DEF FrameMoves

(* What the host makes of them. *)
LEMMA BufferRests ==
    ASSUME TypeOK, HostWorks, ~HostWorkerReady, ~Published
    PROVE  /\ UNCHANGED <<workerReady, pendingState, publishedStateRevision>>
           /\ pendingStale' = pendingStale \/ markStateStale
<1>1. CASE HostBound \/ HostRender \/ HostActive \/ HostPong
  BY <1>1 DEF HostBound, HostRender, HostActive, HostPong, buffered
<1>2. CASE HostMisses
  BY <1>2, NotMissedOut DEF buffered
<1>3. CASE Paints \/ HostBinds \/ HeartbeatPings \/ \E node \in Nodes : interact(node)
  BY <1>3 DEF Paints, HostBinds, HeartbeatPings, interact, hostVars, buffered
<1>4. CASE markStateStale
  BY <1>4 DEF markStateStale
<1> QED BY <1>1, <1>2, <1>3, <1>4 DEF HostWorks, HostHears

LEMMA RevisionNext ==
    ASSUME TypeOK, FrameInv, WorkerInv, RevisionInv, Next
    PROVE  RevisionInv'
<1> USE FrameQueues
<1>a. /\ stateRevision \in Nat /\ publishedStateRevision \in Nat /\ 1 <= publishedStateRevision
      /\ stateRevision <= publishedStateRevision
  BY Bounds DEF TypeOK, FrameTypeOK, RevisionInv
<1>1. CASE FrameMoves /\ UNCHANGED <<hostVars, shellVars>>
  <2>1. UNCHANGED <<workerReady, pendingState, pendingStale, publishedStateRevision>>
    BY <1>1 DEF hostVars, buffered
  <2>2. CASE BrokerEnds
    <3>1. toBroker' = <<>> /\ stateRevision' = 1
      BY <2>2, BrokerEnded, EndsFrame DEF Fresh
    <3> QED BY <1>a, <2>1, <3>1, OrderedEmpty DEF RevisionInv
  <2>3. CASE /\ toBroker # <<>> /\ toBroker' = Tail(toBroker)
             /\ Head(toBroker).kind = "snapshot" /\ stateRevision' = Head(toBroker).revision
    <3>1. workerReady
      BY <2>3, WithinPopped DEF WorkerInv
    <3>2. /\ Head(toBroker).revision <= publishedStateRevision
          /\ Ordered(toBroker', Head(toBroker).revision, publishedStateRevision)
      BY <2>3, OrderedPopped DEF RevisionInv
    <3> QED BY <2>1, <2>3, <3>1, <3>2 DEF RevisionInv
  <2>4. CASE stateRevision' = stateRevision /\ toBroker' = toBroker
    BY <2>1, <2>4 DEF RevisionInv
  <2>5. CASE /\ stateRevision' = stateRevision
             /\ toBroker # <<>> /\ toBroker' = Tail(toBroker) /\ Head(toBroker).kind # "snapshot"
    <3>1. Ordered(toBroker', stateRevision, publishedStateRevision)
      BY <2>5, OrderedPopped DEF RevisionInv
    <3> QED BY <2>1, <2>5, <3>1 DEF RevisionInv
  <2> QED BY <1>1, <2>2, <2>3, <2>4, <2>5, StatesTaken
<1>2. CASE HostEnds
  <2>1. /\ toBroker' = <<>> /\ stateRevision' = 1
        /\ UNCHANGED <<workerReady, publishedStateRevision>>
    BY <1>2, HostEnded, EndsFrame DEF Fresh
  <2>2. pendingState' = 0 /\ pendingStale' = FALSE
    BY <1>2, HostEndsSettles DEF Settle
  <2> QED BY <1>a, <2>1, <2>2, OrderedEmpty DEF RevisionInv
<1>3. CASE FrameLost
  <2>1. /\ toBroker' = <<>> /\ stateRevision' = 1
        /\ UNCHANGED <<workerReady, pendingState, pendingStale, publishedStateRevision>>
    BY <1>3, Losing, EndsFrame DEF Fresh, FrameLost, hostVars, buffered
  <2> QED BY <1>a, <2>1, OrderedEmpty DEF RevisionInv
<1>4. CASE HostWorks
  <2>0. stateRevision' = stateRevision
    BY <1>4, HostWorksFrame DEF FrameRests
  <2>1. CASE HostWorkerReady
    <3>1. /\ workerReady' = TRUE /\ pendingState' = 0 /\ pendingStale' = FALSE
          /\ publishedStateRevision' = publishedStateRevision /\ toBroker' = Posted(Buffered)
      BY <2>1 DEF HostWorkerReady, Receives
    <3> DEFINE one == [kind |-> "snapshot", revision |-> pendingState]
               two == [kind |-> "stale", revision |-> publishedStateRevision]
    <3>2. pendingState # 0 => one \in HostMessages /\ one.revision = publishedStateRevision
      <4>1. pendingState # 0 => pendingState \in 1..MaxRevision
        BY Bounds DEF TypeOK
      <4>2. pendingState # 0 => pendingState = publishedStateRevision
        BY DEF RevisionInv
      <4> QED BY <4>1, <4>2, Posts
    <3>3. two \in HostMessages /\ two.kind # "snapshot"
      BY Posts DEF TypeOK
    <3>4. \/ toBroker' = toBroker
          \/ toBroker' = Append(toBroker, two)
          \/ pendingState # 0 /\ toBroker' = Append(toBroker, one)
          \/ pendingState # 0 /\ toBroker' = Append(Append(toBroker, one), two)
      BY <3>1, BufferedPosts
    <3> HIDE DEF one, two
    <3>5. Ordered(toBroker', stateRevision, publishedStateRevision)
      <4> DEFINE p == publishedStateRevision
      <4>1. Ordered(toBroker, stateRevision, p)
        BY DEF RevisionInv
      <4>2. CASE toBroker' = Append(toBroker, two)
        BY <1>a, <3>3, <4>1, <4>2, OrderedAppended
      <4>3. pendingState # 0 =>
               Append(toBroker, one) \in Seq(HostMessages) /\ Ordered(Append(toBroker, one), stateRevision, p)
        BY <1>a, <3>2, <4>1, OrderedAppended, Appended
      <4>4. CASE pendingState # 0 /\ toBroker' = Append(Append(toBroker, one), two)
        <5> DEFINE r == Append(toBroker, one)
        <5>1. r \in Seq(HostMessages) /\ Ordered(r, stateRevision, p) /\ toBroker' = Append(r, two)
          BY <4>3, <4>4
        <5> HIDE DEF r
        <5> QED BY <1>a, <3>3, <5>1, OrderedAppended
      <4> QED BY <3>4, <4>1, <4>2, <4>3, <4>4
    <3> QED BY <1>a, <2>0, <3>1, <3>5 DEF RevisionInv
  <2>2. ASSUME NEW revision \in 1..MaxRevision, publishState(revision)
        PROVE  RevisionInv'
    <3>1. /\ publishedStateRevision' = revision /\ publishedStateRevision <= revision
          /\ revision \in Nat /\ workerReady' = workerReady
      BY <1>a, <2>2, Bounds DEF publishState
    <3>2. Ordered(toBroker, stateRevision, revision)
      BY <1>a, <3>1, OrderedRaised DEF RevisionInv
    <3>3. CASE workerReady
      <4>1. /\ UNCHANGED <<pendingState, pendingStale>>
            /\ toBroker' = Posted(<<[kind |-> "snapshot", revision |-> revision]>>)
        BY <2>2, <3>3 DEF publishState, Post
      <4> DEFINE m == [kind |-> "snapshot", revision |-> revision]
      <4>2. m \in HostMessages /\ m.revision = revision
        BY Posts
      <4>3. toBroker' = toBroker \/ toBroker' = Append(toBroker, m)
        BY <4>1, <4>2, PostsOne
      <4> HIDE DEF m
      <4>4. Ordered(toBroker', stateRevision, revision)
        BY <1>a, <3>1, <3>2, <4>2, <4>3, OrderedAppended DEF RevisionInv
      <4> QED BY <1>a, <2>0, <3>1, <3>3, <4>1, <4>4 DEF RevisionInv
    <3>4. CASE ~workerReady
      <4>1. pendingState' = revision /\ toBroker' = toBroker
        BY <2>2, <3>4 DEF publishState, frameVars, channels
      <4> QED BY <1>a, <2>0, <3>1, <3>2, <3>4, <4>1 DEF RevisionInv
    <3> QED BY <3>3, <3>4
  <2>3. CASE ~HostWorkerReady /\ ~Published
    <3>1. /\ UNCHANGED <<workerReady, pendingState, publishedStateRevision>>
          /\ workerReady => pendingStale' = pendingStale
      BY <1>4, <2>3, BufferRests DEF markStateStale
    <3>2. Ordered(toBroker', stateRevision, publishedStateRevision)
      <4>1. CASE toBroker' = toBroker
        BY <4>1 DEF RevisionInv
      <4>2. ASSUME NEW m \in HostMessages, toBroker' = Append(toBroker, m), m.kind # "snapshot"
            PROVE  Ordered(toBroker', stateRevision, publishedStateRevision)
        BY <1>a, <4>2, OrderedAppended DEF RevisionInv
      <4>3. ASSUME NEW m \in HostMessages, m.kind = "snapshot", publishState(m.revision)
            PROVE  Published
        BY <4>3, HostFields DEF Published
      <4> QED BY <1>4, <2>3, <4>1, <4>2, <4>3, HostWorksPosts
    <3> QED BY <2>0, <3>1, <3>2 DEF RevisionInv
  <2> QED BY <2>1, <2>2, <2>3 DEF Published
<1> QED BY <1>1, <1>2, <1>3, <1>4, Moves, HostDivides

-----------------------------------------------------------------------------
(* One probe at a time. *)

(* Nothing is on its way. *)
LEMMA NoProbe ==
    ASSUME NEW ask, NEW answer, NEW kind, OneProbe(ask, answer, kind, 0),
           \A m \in Within(ask) : m.kind = kind => m.challenge # 0,
           \A m \in Within(answer) : m.kind = "pong" => m.challenge # 0
    PROVE  /\ Void(ask, {kind}) /\ Void(answer, {"pong"})
           /\ \A c : OneProbe(ask, answer, kind, c)
<1>1. Void(ask, {kind}) /\ Void(answer, {"pong"})
  BY DEF OneProbe, Void, Within
<1> QED BY <1>1 DEF OneProbe, Void, Within

LEMMA ProbeGone ==
    ASSUME NEW ask, NEW answer, NEW kind, NEW pending, OneProbe(ask, answer, kind, pending)
    PROVE  /\ OneProbe(<<>>, answer, kind, pending)
           /\ OneProbe(<<>>, <<>>, kind, pending)
BY Empty DEF OneProbe

LEMMA ProbeAsked ==
    ASSUME NEW M, NEW ask \in Seq(M), NEW answer, NEW kind, NEW m \in M, m.kind = kind,
           Void(ask, {kind}), Void(answer, {"pong"})
    PROVE  OneProbe(Append(ask, m), answer, kind, m.challenge)
<1>1. Within(Append(ask, m)) = Within(ask) \cup {m}
  BY WithinAppended
<1>2. /\ DOMAIN Append(ask, m) = DOMAIN ask \cup {Len(ask) + 1}
      /\ \A i \in DOMAIN ask : Append(ask, m)[i] = ask[i]
  BY Appended
<1>3. \A n \in Within(ask) : n.kind # kind
  BY DEF Within, Void
<1>4. \A n \in Within(answer) : n.kind # "pong"
  BY DEF Within, Void
<1>5. \A i \in DOMAIN Append(ask, m) : Append(ask, m)[i].kind = kind => i = Len(ask) + 1
  BY <1>2 DEF Void
<1>6. \A i, j \in DOMAIN Append(ask, m) :
         Append(ask, m)[i].kind = kind /\ Append(ask, m)[j].kind = kind => i = j
  BY <1>5
<1>7. /\ \A n \in Within(Append(ask, m)) : n.kind = kind => n.challenge = m.challenge
      /\ \A n \in Within(answer) : n.kind = "pong" => n.challenge = m.challenge
  BY <1>1, <1>3, <1>4
<1>8. \A j \in DOMAIN answer : answer[j].kind # "pong"
  BY DEF Void
<1> QED BY <1>6, <1>7, <1>8 DEF OneProbe

LEMMA AskedOther ==
    ASSUME NEW M, NEW ask \in Seq(M), NEW answer, NEW kind, NEW pending,
           OneProbe(ask, answer, kind, pending), NEW m \in M, m.kind # kind
    PROVE  OneProbe(Append(ask, m), answer, kind, pending)
<1> DEFINE r == Append(ask, m)
           n == Len(ask) + 1
<1>1. /\ DOMAIN r = DOMAIN ask \cup {n} /\ r[n] = m
      /\ \A i \in DOMAIN ask : r[i] = ask[i]
  BY Appended
<1>2. Within(r) = Within(ask) \cup {m}
  BY WithinAppended
<1> HIDE DEF r, n
<1>3. \A i \in DOMAIN r : r[i].kind = kind => i \in DOMAIN ask /\ r[i] = ask[i]
  BY <1>1
<1>4. OneProbe(r, answer, kind, pending)
  BY <1>2, <1>3 DEF OneProbe
<1> QED BY <1>4 DEF r

LEMMA AnsweredOther ==
    ASSUME NEW M, NEW answer \in Seq(M), NEW ask, NEW kind, NEW pending,
           OneProbe(ask, answer, kind, pending), NEW m \in M, m.kind # "pong"
    PROVE  OneProbe(ask, Append(answer, m), kind, pending)
<1> DEFINE r == Append(answer, m)
           n == Len(answer) + 1
<1>1. /\ DOMAIN r = DOMAIN answer \cup {n} /\ r[n] = m
      /\ \A i \in DOMAIN answer : r[i] = answer[i]
  BY Appended
<1>2. Within(r) = Within(answer) \cup {m}
  BY WithinAppended
<1> HIDE DEF r, n
<1>3. \A i \in DOMAIN r : r[i].kind = "pong" => i \in DOMAIN answer /\ r[i] = answer[i]
  BY <1>1
<1>4. OneProbe(ask, r, kind, pending)
  BY <1>2, <1>3 DEF OneProbe
<1> QED BY <1>4 DEF r

LEMMA AskTaken ==
    ASSUME NEW M, NEW ask \in Seq(M), ask # <<>>, NEW answer, NEW kind, NEW pending,
           OneProbe(ask, answer, kind, pending)
    PROVE  /\ OneProbe(Tail(ask), answer, kind, pending)
           /\ Head(ask).kind = kind => /\ Head(ask).challenge = pending
                                       /\ Void(Tail(ask), {kind}) /\ Void(answer, {"pong"})
<1> DEFINE t == Tail(ask)
           h == Head(ask)
<1>1. /\ h = ask[1] /\ 1 \in DOMAIN ask /\ DOMAIN t \subseteq Nat \ {0}
      /\ \A i \in DOMAIN t : i + 1 \in DOMAIN ask /\ t[i] = ask[i + 1]
  BY Popped
<1>2. Within(t) \subseteq Within(ask) /\ h \in Within(ask)
  BY WithinPopped
<1> HIDE DEF t, h
<1>3. \A i, j \in DOMAIN t : t[i].kind = kind /\ t[j].kind = kind => i = j
  <2> SUFFICES ASSUME NEW i \in DOMAIN t, NEW j \in DOMAIN t, t[i].kind = kind, t[j].kind = kind
               PROVE  i = j
    OBVIOUS
  <2>1. i + 1 = j + 1
    BY <1>1 DEF OneProbe
  <2>2. i \in Nat /\ j \in Nat
    BY <1>1
  <2> QED BY <2>1, <2>2
<1>4. \A i \in DOMAIN t, j \in DOMAIN answer : ~(t[i].kind = kind /\ answer[j].kind = "pong")
  BY <1>1 DEF OneProbe
<1>5. OneProbe(t, answer, kind, pending)
  BY <1>2, <1>3, <1>4 DEF OneProbe
<1>6. ASSUME h.kind = kind
      PROVE  h.challenge = pending /\ Void(t, {kind}) /\ Void(answer, {"pong"})
  <2>1. h.challenge = pending /\ Void(answer, {"pong"})
    BY <1>1, <1>2, <1>6 DEF OneProbe, Void
  <2>2. \A i \in DOMAIN t : t[i].kind # kind
    <3> SUFFICES ASSUME NEW i \in DOMAIN t, t[i].kind = kind PROVE FALSE
      OBVIOUS
    <3>1. i + 1 = 1
      BY <1>1, <1>6 DEF OneProbe
    <3> QED BY <1>1, <3>1
  <2> QED BY <2>1, <2>2 DEF Void
<1> QED BY <1>5, <1>6 DEF t, h

LEMMA AnswerTaken ==
    ASSUME NEW M, NEW answer \in Seq(M), answer # <<>>, NEW ask, NEW kind, NEW pending,
           OneProbe(ask, answer, kind, pending)
    PROVE  /\ OneProbe(ask, Tail(answer), kind, pending)
           /\ Head(answer).kind = "pong" => /\ Head(answer).challenge = pending
                                            /\ \A c : OneProbe(ask, Tail(answer), kind, c)
<1> DEFINE t == Tail(answer)
           h == Head(answer)
<1>1. /\ h = answer[1] /\ 1 \in DOMAIN answer /\ DOMAIN t \subseteq Nat \ {0}
      /\ \A i \in DOMAIN t : i + 1 \in DOMAIN answer /\ t[i] = answer[i + 1]
  BY Popped
<1>2. Within(t) \subseteq Within(answer) /\ h \in Within(answer)
  BY WithinPopped
<1> HIDE DEF t, h
<1>3. \A i, j \in DOMAIN t : t[i].kind = "pong" /\ t[j].kind = "pong" => i = j
  <2> SUFFICES ASSUME NEW i \in DOMAIN t, NEW j \in DOMAIN t, t[i].kind = "pong", t[j].kind = "pong"
               PROVE  i = j
    OBVIOUS
  <2>1. i + 1 = j + 1
    BY <1>1 DEF OneProbe
  <2>2. i \in Nat /\ j \in Nat
    BY <1>1
  <2> QED BY <2>1, <2>2
<1>4. \A i \in DOMAIN ask, j \in DOMAIN t : ~(ask[i].kind = kind /\ t[j].kind = "pong")
  BY <1>1 DEF OneProbe
<1>5. OneProbe(ask, t, kind, pending)
  BY <1>2, <1>3, <1>4 DEF OneProbe
<1>6. ASSUME h.kind = "pong"
      PROVE  h.challenge = pending /\ \A c : OneProbe(ask, t, kind, c)
  <2>1. h.challenge = pending /\ Void(ask, {kind})
    BY <1>1, <1>2, <1>6 DEF OneProbe, Void
  <2>2. \A i \in DOMAIN t : t[i].kind # "pong"
    <3> SUFFICES ASSUME NEW i \in DOMAIN t, t[i].kind = "pong" PROVE FALSE
      OBVIOUS
    <3>1. i + 1 = 1
      BY <1>1, <1>6 DEF OneProbe
    <3> QED BY <1>1, <3>1
  <2> QED BY <2>1, <2>2 DEF Void, OneProbe, Within
<1> QED BY <1>5, <1>6 DEF t, h

(* The answer to the probe. *)
LEMMA ProbeAnswered ==
    ASSUME NEW M, NEW answer \in Seq(M), NEW ask, NEW kind, NEW m \in M, m.kind = "pong",
           Void(ask, {kind}), Void(answer, {"pong"})
    PROVE  OneProbe(ask, Append(answer, m), kind, m.challenge)
<1> DEFINE r == Append(answer, m)
           n == Len(answer) + 1
<1>1. /\ DOMAIN r = DOMAIN answer \cup {n} /\ r[n] = m
      /\ \A i \in DOMAIN answer : r[i] = answer[i]
  BY Appended
<1>2. Within(r) = Within(answer) \cup {m}
  BY WithinAppended
<1> HIDE DEF r, n
<1>3. \A i \in DOMAIN r : r[i].kind = "pong" => i = n
  BY <1>1 DEF Void
<1>4. /\ \A k \in Within(ask) : k.kind # kind
      /\ \A k \in Within(answer) : k.kind # "pong"
  BY DEF Void, Within
<1>5. \A i \in DOMAIN ask : ask[i].kind # kind
  BY DEF Void
<1>6. \A i, j \in DOMAIN r : r[i].kind = "pong" /\ r[j].kind = "pong" => i = j
  BY <1>3
<1>7. /\ \A k \in Within(ask) : k.kind = kind => k.challenge = m.challenge
      /\ \A k \in Within(r) : k.kind = "pong" => k.challenge = m.challenge
  BY <1>2, <1>4
<1>8. OneProbe(ask, r, kind, m.challenge)
  BY <1>5, <1>6, <1>7 DEF OneProbe
<1> QED BY <1>8 DEF r

(* The messages between broker and guest, apart from those about probes. *)
Gossip ==
    /\ workerProbe' = workerProbe
    /\ \/ toGuest' = toGuest
       \/ \E m \in ToGuestMessages : m.kind # "probe" /\ toGuest' = Append(toGuest, m)
    /\ \/ fromGuest' = fromGuest
       \/ fromGuest # <<>> /\ fromGuest' = Tail(fromGuest)
       \/ \E m \in GuestMessages : m.kind # "pong" /\ fromGuest' = Append(fromGuest, m)

LEMMA Gossips ==
    ASSUME TypeOK, TreesInv, FrameMoves, ~BrokerEnds,
           ~BrokerWorkerReady, ~GuestReceives, ~BrokerPong, ~WatchdogProbes
    PROVE  Gossip
<1>1. workerProbe' = workerProbe
  <2>1. CASE \/ BrokerBinds \/ BrokerLoads \/ BrokerLaunches \/ BrokerActivates \/ BrokerAnswersPing
             \/ BrokerInteraction \/ BrokerSnapshot \/ BrokerStale \/ BrokerRender \/ BrokerEffect
             \/ GuestReady \/ GuestActs \/ GuestHangs
             \/ \E tree \in SUBSET Nodes : GuestRenders(tree)
    BY <2>1 DEF BrokerBinds, BrokerLoads, BrokerLaunches, BrokerActivates, BrokerAnswersPing,
       BrokerInteraction, BrokerSnapshot, BrokerStale, BrokerRender, BrokerEffect,
       GuestReady, GuestActs, GuestHangs, GuestRenders, watchdog
  <2>2. CASE WatchdogMisses /\ missedWorker + 1 < MissLimit
    BY <2>2, NotMissedYet
  <2> QED BY <2>1, <2>2, Zenon DEF FrameMoves
<1>2. \/ toGuest' = toGuest
      \/ \E m \in ToGuestMessages : m.kind # "probe" /\ toGuest' = Append(toGuest, m)
  <2>1. CASE BrokerInteraction
    <3> DEFINE m == [kind |-> "interaction", render |-> brokerRender, node |-> Head(toBroker).node]
    <3>1. m \in ToGuestMessages
      BY <2>1, AcceptedInteraction, WorkerPosts
    <3>2. toGuest' = Append(toGuest, m) /\ m.kind # "probe"
      BY <2>1 DEF BrokerInteraction
    <3> QED BY <3>1, <3>2
  <2>2. CASE BrokerSnapshot \/ BrokerStale
    <3>1. /\ Head(toBroker) \in ToGuestMessages /\ Head(toBroker).kind \in {"snapshot", "stale"}
          /\ toGuest' = Append(toGuest, Head(toBroker))
      BY <2>2, TakesType, HostFields DEF BrokerSnapshot, BrokerStale, Accepts
    <3> QED BY <3>1
  <2> QED BY <2>1, <2>2, WorkerHears
<1>3. \/ fromGuest' = fromGuest
      \/ fromGuest # <<>> /\ fromGuest' = Tail(fromGuest)
      \/ \E m \in GuestMessages : m.kind # "pong" /\ fromGuest' = Append(fromGuest, m)
  BY GuestPosts
<1> QED BY <1>1, <1>2, <1>3 DEF Gossip

LEMMA WorkerNotProbed ==
    ASSUME TypeOK, OneProbe(toGuest, fromGuest, "probe", workerProbe), workerProbe = 0
    PROVE  /\ Void(toGuest, {"probe"}) /\ Void(fromGuest, {"pong"})
           /\ \A c : OneProbe(toGuest, fromGuest, "probe", c)
<1>1. \A m \in Within(toGuest) : m.kind = "probe" => m.challenge # 0
  BY FrameQueues, ToGuestFields DEF Within, Probes
<1>2. \A m \in Within(fromGuest) : m.kind = "pong" => m.challenge # 0
  BY FrameQueues, GuestFields DEF Within, Probes
<1> QED BY <1>1, <1>2, NoProbe

LEMMA HostNotProbing ==
    ASSUME TypeOK, OneProbe(toBroker, toHost, "ping", hostProbe), hostProbe = 0
    PROVE  /\ Void(toBroker, {"ping"}) /\ Void(toHost, {"pong"})
           /\ \A c : OneProbe(toBroker, toHost, "ping", c)
<1>1. \A m \in Within(toBroker) : m.kind = "ping" => m.challenge # 0
  BY FrameQueues, HostFields DEF Within, Probes
<1>2. \A m \in Within(toHost) : m.kind = "pong" => m.challenge # 0
  BY FrameQueues, BrokerFields DEF Within, Probes
<1> QED BY <1>1, <1>2, NoProbe

LEMMA WorkerProbeNext ==
    ASSUME TypeOK, FrameInv, TreesInv, ProbeInv, FrameMoves, ~BrokerEnds
    PROVE  OneProbe(toGuest', fromGuest', "probe", workerProbe')
<1> USE FrameQueues
<1>0. OneProbe(toGuest, fromGuest, "probe", workerProbe)
  BY DEF ProbeInv
<1>p. /\ Probe \in ToGuestMessages /\ Probe.kind = "probe" /\ Probe.challenge = nextWorkerProbe
  BY WorkerPosts DEF Probe, TypeOK, FrameTypeOK
<1>1. CASE BrokerWorkerReady
  <2> DEFINE first == [kind |-> "snapshot", revision |-> stateRevision]
  <2>1. phase = "launched" /\ fromGuest # <<>> /\ fromGuest' = Tail(fromGuest)
    BY <1>1, HearsType DEF BrokerWorkerReady
  <2>2. workerProbe = 0
    BY <2>1 DEF FrameInv, Fresh
  <2>3. Void(toGuest, {"probe"}) /\ Void(fromGuest, {"pong"})
    BY <1>0, <2>2, WorkerNotProbed
  <2>4. first \in ToGuestMessages /\ first.kind # "probe"
    BY WorkerPosts DEF TypeOK, FrameTypeOK
  <2>5. /\ toGuest' = toGuest \o <<first, Probe>>
        /\ workerProbe' = nextWorkerProbe
    BY <1>1 DEF BrokerWorkerReady, ProbeSent
  <2> HIDE DEF first
  <2> DEFINE r == Append(toGuest, first)
  <2>6. /\ r \in Seq(ToGuestMessages) /\ DOMAIN r = DOMAIN toGuest \cup {Len(toGuest) + 1}
        /\ r[Len(toGuest) + 1] = first /\ \A i \in DOMAIN toGuest : r[i] = toGuest[i]
    BY <2>4, Appended
  <2>7. toGuest' = Append(r, Probe)
    BY <1>p, <2>4, <2>5, TwoAppended
  <2> HIDE DEF r
  <2>8. Void(r, {"probe"})
    BY <2>3, <2>4, <2>6 DEF Void
  <2>9. OneProbe(toGuest', fromGuest, "probe", workerProbe')
    BY <1>p, <2>3, <2>5, <2>6, <2>7, <2>8, ProbeAsked
  <2> QED BY <2>1, <2>9, AnswerTaken
<1>2. CASE GuestReceives
  <2> DEFINE m == [kind |-> "pong", challenge |-> Head(toGuest).challenge]
  <2>1. /\ toGuest # <<>> /\ toGuest' = Tail(toGuest) /\ workerProbe' = workerProbe
        /\ IF Head(toGuest).kind = "probe" THEN fromGuest' = Append(fromGuest, m)
           ELSE fromGuest' = fromGuest
    BY <1>2 DEF GuestReceives, watchdog
  <2>2. /\ OneProbe(toGuest', fromGuest, "probe", workerProbe)
        /\ Head(toGuest).kind = "probe" =>
              /\ Head(toGuest).challenge = workerProbe
              /\ Void(toGuest', {"probe"}) /\ Void(fromGuest, {"pong"})
    <3>1. /\ OneProbe(Tail(toGuest), fromGuest, "probe", workerProbe)
          /\ Head(toGuest).kind = "probe" =>
                /\ Head(toGuest).challenge = workerProbe
                /\ Void(Tail(toGuest), {"probe"}) /\ Void(fromGuest, {"pong"})
      <4>1. toGuest # <<>> /\ toGuest \in Seq(ToGuestMessages)
        BY <2>1
      <4> HIDE DEF m
      <4> QED BY <1>0, <4>1, AskTaken
    <3> QED BY <2>1, <3>1
  <2>3. Head(toGuest).kind = "probe" => m \in GuestMessages
    BY <2>1, Popped, ToGuestFields, WorkerPosts
  <2>4. m.kind = "pong" /\ m.challenge = Head(toGuest).challenge
    OBVIOUS
  <2> HIDE DEF m
  <2>5. CASE Head(toGuest).kind = "probe"
    <3>1. OneProbe(toGuest', Append(fromGuest, m), "probe", m.challenge)
      BY <2>2, <2>3, <2>4, <2>5, ProbeAnswered
    <3> QED BY <2>1, <2>2, <2>4, <2>5, <3>1
  <2> QED BY <2>1, <2>2, <2>5
<1>3. CASE BrokerPong
  <2>1. /\ fromGuest # <<>> /\ fromGuest' = Tail(fromGuest) /\ Head(fromGuest).kind = "pong"
        /\ toGuest' = toGuest
    BY <1>3, HearsType DEF BrokerPong
  <2>2. \A c : OneProbe(toGuest, Tail(fromGuest), "probe", c)
    BY <1>0, <2>1, AnswerTaken
  <2> QED BY <2>1, <2>2
<1>4. CASE WatchdogProbes
  <2>1. /\ workerProbe = 0 /\ workerProbe' = nextWorkerProbe
        /\ toGuest' = Append(toGuest, Probe) /\ fromGuest' = fromGuest
    BY <1>4 DEF WatchdogProbes, ProbeSent
  <2>2. Void(toGuest, {"probe"}) /\ Void(fromGuest, {"pong"})
    BY <1>0, <2>1, WorkerNotProbed
  <2> QED BY <1>p, <2>1, <2>2, ProbeAsked
<1>5. CASE ~BrokerWorkerReady /\ ~GuestReceives /\ ~BrokerPong /\ ~WatchdogProbes
  <2>1. Gossip
    BY <1>5, Gossips
  <2>2. OneProbe(toGuest', fromGuest, "probe", workerProbe)
    <3>1. CASE toGuest' = toGuest
      BY <1>0, <3>1
    <3>2. ASSUME NEW m \in ToGuestMessages, m.kind # "probe", toGuest' = Append(toGuest, m)
          PROVE  OneProbe(toGuest', fromGuest, "probe", workerProbe)
      BY <1>0, <3>2, AskedOther
    <3> QED BY <2>1, <3>1, <3>2 DEF Gossip
  <2>3. OneProbe(toGuest', fromGuest', "probe", workerProbe)
    <3>1. CASE fromGuest' = fromGuest
      BY <2>2, <3>1
    <3>2. CASE fromGuest # <<>> /\ fromGuest' = Tail(fromGuest)
      BY <2>2, <3>2, AnswerTaken
    <3>3. ASSUME NEW m \in GuestMessages, m.kind # "pong", fromGuest' = Append(fromGuest, m)
          PROVE  OneProbe(toGuest', fromGuest', "probe", workerProbe)
      BY <2>2, <3>3, AnsweredOther
    <3> QED BY <2>1, <3>1, <3>2, <3>3 DEF Gossip
  <2> QED BY <2>1, <2>3 DEF Gossip
<1> QED BY <1>1, <1>2, <1>3, <1>4, <1>5

LEMMA PingNext ==
    ASSUME TypeOK, ProbeInv, FrameMoves, hostProbe' = hostProbe
    PROVE  OneProbe(toBroker', toHost', "ping", hostProbe')
<1> USE FrameQueues
<1>0. OneProbe(toBroker, toHost, "ping", hostProbe)
  BY DEF ProbeInv
<1>1. CASE BrokerEnds
  <2>1. PICK code \in Faults :
           /\ toBroker' = <<>>
           /\ toHost' = Append(Append(toHost, [kind |-> "error", code |-> code]),
                               [kind |-> "terminated"])
    BY <1>1, BrokerEnded, EndsFrame
  <2> DEFINE error == [kind |-> "error", code |-> code]
             terminated == [kind |-> "terminated"]
  <2>2. /\ error \in BrokerMessages /\ terminated \in BrokerMessages
        /\ error.kind # "pong" /\ terminated.kind # "pong"
    BY Posts
  <2>3. toHost' = Append(Append(toHost, error), terminated)
    BY <2>1
  <2> HIDE DEF error, terminated
  <2>4. OneProbe(<<>>, toHost, "ping", hostProbe)
    BY <1>0, ProbeGone
  <2> DEFINE r == Append(toHost, error)
  <2>5. /\ r \in Seq(BrokerMessages) /\ OneProbe(<<>>, r, "ping", hostProbe)
        /\ toHost' = Append(r, terminated)
    BY <2>2, <2>3, <2>4, AnsweredOther, Appended
  <2> HIDE DEF r
  <2>6. OneProbe(<<>>, toHost', "ping", hostProbe)
    BY <2>2, <2>5, AnsweredOther
  <2> QED BY <2>1, <2>6
<1>2. CASE BrokerAnswersPing
  <2> DEFINE m == [kind |-> "pong", challenge |-> Head(toBroker).challenge]
  <2>1. /\ toBroker # <<>> /\ toBroker' = Tail(toBroker) /\ Head(toBroker).kind = "ping"
        /\ Head(toBroker).challenge \in Probes
    BY <1>2, TakesType, HostFields DEF BrokerAnswersPing, Accepts
  <2>2. /\ m \in BrokerMessages /\ toHost' = Append(toHost, m)
        /\ m.kind = "pong" /\ m.challenge = Head(toBroker).challenge
    BY <1>2, <2>1, Posts DEF BrokerAnswersPing
  <2>3. /\ Head(toBroker).challenge = hostProbe
        /\ Void(toBroker', {"ping"}) /\ Void(toHost, {"pong"})
    BY <1>0, <2>1, AskTaken
  <2> HIDE DEF m
  <2>4. OneProbe(toBroker', Append(toHost, m), "ping", m.challenge)
    BY <2>2, <2>3, ProbeAnswered
  <2> QED BY <2>2, <2>3, <2>4
<1>3. CASE ~BrokerEnds /\ ~BrokerAnswersPing
  <2>1. OneProbe(toBroker', toHost, "ping", hostProbe)
    <3>1. OneProbe(<<>>, toHost, "ping", hostProbe)
      BY <1>0, ProbeGone
    <3>2. toBroker # <<>> => OneProbe(Tail(toBroker), toHost, "ping", hostProbe)
      BY <1>0, AskTaken
    <3> QED BY <1>0, <3>1, <3>2, FrameTakes
  <2>2. CASE toHost' = toHost
    BY <2>1, <2>2
  <2>3. ASSUME NEW m \in BrokerMessages, toHost' = Append(toHost, m), Reports(m)
        PROVE  OneProbe(toBroker', toHost', "ping", hostProbe)
    <3>1. m.kind # "pong"
      BY <1>3, <2>3 DEF Reports
    <3> QED BY <2>1, <2>3, <3>1, AnsweredOther
  <2> QED BY <1>3, <2>2, <2>3, FrameReports
<1> QED BY <1>1, <1>2, <1>3

(* What a step of the host makes of its probe. *)
LEMMA HostProbes ==
    ASSUME TypeOK, HostWorks
    PROVE  \/ HeartbeatPings
           \/ HostPong /\ hostProbe' = 0
           \/ ~HeartbeatPings /\ ~HostPong /\ hostProbe' = hostProbe
<1>1. CASE HostBound \/ HostWorkerReady \/ HostRender \/ HostActive
  <2>1. hostProbe' = hostProbe /\ nextHostProbe' = nextHostProbe /\ missedHost' = missedHost
    BY <1>1 DEF HostBound, HostWorkerReady, HostRender, HostActive, Receives
  <2>2. toHost # <<>> /\ Head(toHost).kind # "pong"
    BY <1>1 DEF HostBound, HostWorkerReady, HostRender, HostActive, Receives
  <2> QED BY <2>1, <2>2 DEF HostPong, Receives
<1>2. CASE HostPong
  BY <1>2 DEF HostPong
<1>3. CASE \/ HostMisses \/ Paints \/ HostBinds \/ Published \/ markStateStale
           \/ \E node \in Nodes : interact(node)
  <2>1. hostProbe' = hostProbe
    BY <1>3, NotMissedOut DEF Paints, HostBinds, Published, publishState, markStateStale, interact,
       heartbeat, hostVars
  <2> QED BY <2>1 DEF HostPong
<1> QED BY <1>1, <1>2, <1>3 DEF HostWorks, HostHears

LEMMA ProbeNext ==
    ASSUME TypeOK, FrameInv, TreesInv, ProbeInv, Next
    PROVE  ProbeInv'
<1> USE FrameQueues
<1>0. /\ OneProbe(toGuest, fromGuest, "probe", workerProbe)
      /\ OneProbe(toBroker, toHost, "ping", hostProbe)
  BY DEF ProbeInv
<1>e. \A kind, c : OneProbe(<<>>, <<>>, kind, c)
  BY Empty DEF OneProbe
<1>1. CASE FrameMoves /\ UNCHANGED <<hostVars, shellVars>>
  <2>1. hostProbe' = hostProbe
    BY <1>1 DEF hostVars, heartbeat
  <2>2. OneProbe(toBroker', toHost', "ping", hostProbe')
    BY <1>1, <2>1, PingNext
  <2>3. CASE BrokerEnds
    BY <1>e, <2>2, <2>3, BrokerEnded, EndsFrame DEF ProbeInv
  <2>4. CASE ~BrokerEnds
    BY <1>1, <2>2, <2>4, WorkerProbeNext DEF ProbeInv
  <2> QED BY <2>3, <2>4
<1>2. CASE HostEnds
  BY <1>e, <1>2, HostEnded, EndsFrame DEF ProbeInv
<1>3. CASE FrameLost
  <2>1. /\ toBroker' = <<>> /\ toGuest' = <<>> /\ fromGuest' = <<>> /\ toHost' = toHost
        /\ hostProbe' = hostProbe
    BY <1>3, Losing, EndsFrame DEF FrameLost, hostVars, heartbeat
  <2> QED BY <1>0, <1>e, <2>1, ProbeGone DEF ProbeInv
<1>4. CASE HostWorks
  <2>1. OneProbe(toGuest', fromGuest', "probe", workerProbe')
    BY <1>0, <1>4, HostWorksFrame DEF FrameRests, watchdog
  <2>2. CASE HeartbeatPings
    <3> DEFINE m == [kind |-> "ping", challenge |-> nextHostProbe]
    <3>1. /\ hostProbe = 0 /\ hostProbe' = nextHostProbe /\ toHost' = toHost
          /\ toBroker' = Posted(<<m>>)
      BY <2>2 DEF HeartbeatPings, Post
    <3>2. m \in HostMessages /\ m.kind = "ping" /\ m.challenge = nextHostProbe
      BY Posts DEF TypeOK
    <3> HIDE DEF m
    <3>3. toBroker' = toBroker \/ toBroker' = Append(toBroker, m)
      BY <3>1, <3>2, PostsOne
    <3>4. /\ Void(toBroker, {"ping"}) /\ Void(toHost, {"pong"})
          /\ \A c : OneProbe(toBroker, toHost, "ping", c)
      BY <1>0, <3>1, HostNotProbing
    <3>5. OneProbe(Append(toBroker, m), toHost, "ping", nextHostProbe)
      BY <3>2, <3>4, ProbeAsked
    <3> QED BY <2>1, <3>1, <3>3, <3>4, <3>5 DEF ProbeInv
  <2>3. CASE HostPong /\ hostProbe' = 0
    <3>1. /\ toHost # <<>> /\ toHost' = Tail(toHost) /\ Head(toHost).kind = "pong"
          /\ toBroker' = toBroker
      BY <2>3, ReceivesType, PostsNone DEF HostPong
    <3> QED BY <1>0, <2>1, <2>3, <3>1, AnswerTaken DEF ProbeInv
  <2>4. CASE ~HeartbeatPings /\ hostProbe' = hostProbe
    <3>1. OneProbe(toBroker, toHost', "ping", hostProbe)
      BY <1>0, <1>4, HostWorksFrame, AnswerTaken
    <3>2. OneProbe(toBroker', toHost', "ping", hostProbe)
      <4>1. CASE toBroker' = toBroker
        BY <3>1, <4>1
      <4>2. ASSUME NEW m \in HostMessages, toBroker' = Append(toBroker, m), m.kind # "ping"
            PROVE  OneProbe(toBroker', toHost', "ping", hostProbe)
        BY <3>1, <4>2, AskedOther
      <4>3. CASE toBroker' = Posted(Buffered)
        <5> DEFINE one == [kind |-> "snapshot", revision |-> pendingState]
                   two == [kind |-> "stale", revision |-> publishedStateRevision]
        <5>1. /\ pendingState # 0 => one \in HostMessages
              /\ two \in HostMessages /\ one.kind # "ping" /\ two.kind # "ping"
          <6>1. pendingState # 0 => pendingState \in 1..MaxRevision
            BY Bounds DEF TypeOK
          <6> QED BY <6>1, Posts DEF TypeOK
        <5>2. \/ toBroker' = toBroker
              \/ toBroker' = Append(toBroker, two)
              \/ pendingState # 0 /\ toBroker' = Append(toBroker, one)
              \/ pendingState # 0 /\ toBroker' = Append(Append(toBroker, one), two)
          BY <4>3, BufferedPosts
        <5> HIDE DEF one, two
        <5>3. CASE pendingState # 0 /\ toBroker' = Append(Append(toBroker, one), two)
          <6> DEFINE r == Append(toBroker, one)
          <6>1. /\ r \in Seq(HostMessages) /\ OneProbe(r, toHost', "ping", hostProbe)
                /\ toBroker' = Append(r, two)
            BY <3>1, <5>1, <5>3, AskedOther, Appended
          <6> HIDE DEF r
          <6> QED BY <5>1, <6>1, AskedOther
        <5> QED BY <4>1, <4>2, <5>1, <5>2, <5>3
      <4> QED BY <1>4, <2>4, <4>1, <4>2, <4>3, HostWorksPosts
    <3> QED BY <2>1, <2>4, <3>2 DEF ProbeInv
  <2> QED BY <1>4, <2>2, <2>3, <2>4, HostProbes
<1> QED BY <1>1, <1>2, <1>3, <1>4, Moves, HostDivides

-----------------------------------------------------------------------------
(* Nobody is accused of a violation. *)

(* What the broker finds at the head of the port is in order. *)
LEMMA HostBehaves ==
    ASSUME TypeOK, FrameInv, WorkerInv, ActivationInv, RevisionInv, FrameMoves,
           toBroker # <<>>, Head(toBroker).kind \notin {"bind", "load"}
    PROVE  HostFault(Head(toBroker)) \notin Violations
<1> DEFINE m == Head(toBroker)
<1>1. m \in Within(toBroker) /\ m \in HostMessages
  BY FrameQueues, WithinPopped, Popped
<1>2. phase = "ready"
  BY <1>1, FrameStands DEF WorkerInv
<1>3. m.kind = "activate" => brokerRender # 0
  <2>1. brokerRender \in Nat
    BY Bounds DEF TypeOK, FrameTypeOK
  <2>2. m.kind = "activate" => brokerRender > 0
    BY <1>1 DEF ActivationInv
  <2> QED BY <2>1, <2>2
<1>4. m.kind = "snapshot" => ~(m.revision < stateRevision)
  <2>1. m.kind = "snapshot" => stateRevision <= m.revision
    BY FrameQueues, OrderedPopped DEF RevisionInv
  <2>2. m.kind = "snapshot" => m.revision \in Nat
    BY <1>1, HostFields, Bounds
  <2>3. stateRevision \in Nat
    BY Bounds DEF TypeOK, FrameTypeOK
  <2> QED BY <2>1, <2>2, <2>3
<1> QED BY <1>2, <1>3, <1>4 DEF HostFault, Violations, None

(* So is what it finds at the head of the Worker's messages. *)
LEMMA GuestBehaves ==
    ASSUME TypeOK, FrameInv, RenderInv, ProbeInv, FrameMoves, fromGuest # <<>>
    PROVE  GuestFault(Head(fromGuest)) \notin Violations
<1> DEFINE m == Head(fromGuest)
<1>1. m.kind = "pong" => m.challenge = workerProbe
  BY FrameQueues, AnswerTaken DEF ProbeInv
<1>2. m.kind = "render" => m.revision = brokerRender + 1
  <2>1. /\ Renders(fromGuest, brokerRender, Len(trees))
        /\ brokerRender \in Nat /\ Len(trees) \in Nat
    BY FrameStands, FrameQueues, Bounds DEF RenderInv, TypeOK, FrameTypeOK
  <2> QED BY <2>1, FrameQueues, RendersPopped
<1> QED BY <1>1, <1>2 DEF GuestFault, Violations, None

(* And what the host finds at the head of the port. *)
LEMMA BrokerBehaves ==
    ASSUME TypeOK, RenderInv, ProbeInv, FailureInv, toHost # <<>>
    PROVE  HostThrows(Head(toHost)) \notin Violations
<1> DEFINE m == Head(toHost)
<1>1. m \in Within(toHost)
  BY FrameQueues, WithinPopped
<1>2. m.kind = "pong" => m.challenge = hostProbe
  BY FrameQueues, AnswerTaken DEF ProbeInv
<1>3. m.kind = "render" => m.revision = hostRender + 1
  <2>1. PICK top \in Nat : Renders(toHost, hostRender, top)
    BY DEF RenderInv
  <2>2. hostRender \in Nat
    BY Bounds DEF TypeOK
  <2> QED BY <2>1, <2>2, FrameQueues, RendersPopped
<1>4. m.kind = "error" => m.code \notin Violations
  BY <1>1 DEF FailureInv
<1> QED BY <1>2, <1>3, <1>4 DEF HostThrows, Violations, None

LEMMA FailureNext ==
    ASSUME TypeOK, FrameInv, WorkerInv, RenderInv, ActivationInv, RevisionInv, ProbeInv,
           FailureInv, Next
    PROVE  FailureInv'
<1> USE FrameQueues
<1>f. failure \notin Violations
  BY DEF FailureInv, PeersKeepProtocol, Violations
<1>q. \A m \in Within(toHost) : m.kind = "error" => m.code \notin Violations
  BY DEF FailureInv
<1>s. ASSUME failure' \notin Violations,
             \A m \in Within(toHost') : m.kind = "error" => m.code \notin Violations
      PROVE  FailureInv'
  BY <1>s DEF FailureInv, PeersKeepProtocol, Violations
<1>1. CASE FrameMoves /\ UNCHANGED <<hostVars, shellVars>>
  <2>1. failure' = failure
    BY <1>1 DEF hostVars
  <2>2. CASE BrokerEnds
    <3>1. PICK code \in Faults :
             /\ toHost' = Append(Append(toHost, [kind |-> "error", code |-> code]),
                                 [kind |-> "terminated"])
             /\ \/ code \notin Violations
                \/ toBroker # <<>> /\ code = HostFault(Head(toBroker))
                   /\ Head(toBroker).kind \notin {"bind", "load"}
                \/ fromGuest # <<>> /\ code = GuestFault(Head(fromGuest))
      BY <2>2, BrokerEnded
    <3>2. code \notin Violations
      BY <1>1, <3>1, HostBehaves, GuestBehaves
    <3> DEFINE error == [kind |-> "error", code |-> code]
               terminated == [kind |-> "terminated"]
    <3>3. /\ error \in BrokerMessages /\ terminated \in BrokerMessages
          /\ error.code \notin Violations /\ terminated.kind # "error"
      BY <3>2, Posts
    <3>4. toHost' = Append(Append(toHost, error), terminated)
      BY <3>1
    <3> HIDE DEF error, terminated
    <3>5. Within(toHost') = Within(toHost) \cup {error} \cup {terminated}
      BY <3>3, <3>4, WithinTwo
    <3> QED BY <1>f, <1>q, <1>s, <2>1, <3>3, <3>5
  <2>3. CASE toHost' = toHost
    BY <1>f, <1>q, <1>s, <2>1, <2>3
  <2>4. ASSUME NEW m \in BrokerMessages, toHost' = Append(toHost, m), Reports(m)
        PROVE  FailureInv'
    <3>1. m.kind # "error"
      BY <2>4 DEF Reports
    <3>2. Within(toHost') = Within(toHost) \cup {m}
      BY <2>4, WithinAppended
    <3> QED BY <1>f, <1>q, <1>s, <2>1, <3>1, <3>2
  <2> QED BY <1>1, <2>2, <2>3, <2>4, FrameReports
<1>2. CASE HostEnds
  BY <1>s, <1>2, HostEnded, BrokerBehaves, Empty
<1>3. CASE FrameLost
  <2>1. failure' = failure /\ toHost' = toHost
    BY <1>3 DEF FrameLost, hostVars
  <2> QED BY <1>f, <1>q, <1>s, <2>1
<1>4. CASE HostWorks
  <2>1. failure' = failure /\ Within(toHost') \subseteq Within(toHost)
    BY <1>4, HostWorksFrame, WithinPopped
  <2> QED BY <1>f, <1>q, <1>s, <2>1
<1> QED BY <1>1, <1>2, <1>3, <1>4, Moves, HostDivides

-----------------------------------------------------------------------------
(* The last word to the guest. *)

LEMMA WordNone ==
    ASSUME NEW q, NEW K, Void(q, K)
    PROVE  \A S : Ends(q, K, S)
BY DEF Void, Ends

LEMMA EndsPosted ==
    ASSUME NEW M, NEW q \in Seq(M), NEW m \in M, NEW K, NEW S, m.kind \in K, m \in S
    PROVE  Ends(Append(q, m), K, S) /\ ~Void(Append(q, m), K)
<1> DEFINE r == Append(q, m)
           n == Len(q) + 1
<1>1. /\ DOMAIN r = DOMAIN q \cup {n} /\ r[n] = m
      /\ \A i \in DOMAIN q : r[i] = q[i] /\ i < n
  BY Appended
<1> HIDE DEF r, n
<1>2. Ends(r, K, S) /\ ~Void(r, K)
  BY <1>1 DEF Ends, Void
<1> QED BY <1>2 DEF r

LEMMA EndsPostedOther ==
    ASSUME NEW M, NEW q \in Seq(M), NEW m \in M, NEW K, NEW S, m.kind \notin K, Ends(q, K, S)
    PROVE  Ends(Append(q, m), K, S)
<1> DEFINE r == Append(q, m)
           n == Len(q) + 1
<1>1. /\ DOMAIN r = DOMAIN q \cup {n} /\ r[n] = m
      /\ \A i \in DOMAIN q : r[i] = q[i]
  BY Appended
<1> HIDE DEF r, n
<1>2. Ends(r, K, S)
  BY <1>1 DEF Ends
<1> QED BY <1>2 DEF r

LEMMA VoidPostedOther ==
    ASSUME NEW M, NEW q \in Seq(M), NEW m \in M, NEW K, m.kind \notin K
    PROVE  Void(Append(q, m), K) <=> Void(q, K)
<1> DEFINE r == Append(q, m)
           n == Len(q) + 1
<1>1. /\ DOMAIN r = DOMAIN q \cup {n} /\ r[n] = m
      /\ \A i \in DOMAIN q : r[i] = q[i]
  BY Appended
<1> HIDE DEF r, n
<1>2. Void(r, K) <=> Void(q, K)
  BY <1>1 DEF Void
<1> QED BY <1>2 DEF r

LEMMA EndsTaken ==
    ASSUME NEW M, NEW q \in Seq(M), q # <<>>, NEW K, NEW S, Ends(q, K, S)
    PROVE  /\ Ends(Tail(q), K, S)
           /\ Head(q).kind \in K /\ Void(Tail(q), K) => Head(q) \in S
<1> DEFINE t == Tail(q)
           h == Head(q)
           D == DOMAIN q
           T == DOMAIN t
<1>1. /\ h = q[1] /\ 1 \in D /\ D \subseteq Nat \ {0} /\ T \subseteq Nat \ {0}
      /\ \A i \in T : i + 1 \in D /\ t[i] = q[i + 1]
      /\ \A i \in D \ {1} : i - 1 \in T /\ t[i - 1] = q[i]
  BY Popped
<1> HIDE DEF t, h, D, T
<1>2. \A i \in D :
         q[i].kind \in K /\ (\A j \in D : i < j => q[j].kind \notin K) => q[i] \in S
  BY DEF Ends, D
<1>3. ASSUME NEW i \in T, t[i].kind \in K, \A j \in T : i < j => t[j].kind \notin K
      PROVE  t[i] \in S
  <2> DEFINE k == i + 1
  <2>1. k \in D /\ t[i] = q[k]
    BY <1>1
  <2>2. ASSUME NEW j \in D, k < j PROVE q[j].kind \notin K
    <3>1. i \in Nat /\ j \in Nat
      BY <1>1
    <3>2. j # 1 /\ i < j - 1
      BY <2>2, <3>1
    <3> QED BY <1>1, <1>3, <3>2
  <2> HIDE DEF k
  <2> QED BY <1>2, <1>3, <2>1, <2>2
<1>4. Ends(t, K, S)
  BY <1>3 DEF Ends, T
<1>5. ASSUME h.kind \in K, Void(t, K) PROVE h \in S
  <2>1. ASSUME NEW j \in D, 1 < j PROVE q[j].kind \notin K
    <3>1. j # 1 /\ j - 1 \in T /\ t[j - 1] = q[j]
      BY <1>1, <2>1
    <3> QED BY <1>5, <3>1 DEF Void, T
  <2> QED BY <1>1, <1>2, <1>5, <2>1
<1> QED BY <1>4, <1>5 DEF t, h

LEMMA VoidTaken ==
    ASSUME NEW M, NEW q \in Seq(M), q # <<>>, NEW K, Head(q).kind \notin K
    PROVE  Void(Tail(q), K) <=> Void(q, K)
<1> DEFINE t == Tail(q)
           h == Head(q)
<1>1. /\ h = q[1] /\ 1 \in DOMAIN q
      /\ \A i \in DOMAIN t : i + 1 \in DOMAIN q /\ t[i] = q[i + 1]
      /\ \A i \in DOMAIN q \ {1} : i - 1 \in DOMAIN t /\ t[i - 1] = q[i]
  BY Popped
<1> HIDE DEF t
<1>2. ASSUME Void(t, K), NEW i \in DOMAIN q PROVE q[i].kind \notin K
  <2>1. CASE i = 1
    BY <1>1, <2>1
  <2>2. CASE i # 1
    BY <1>1, <1>2, <2>2 DEF Void
  <2> QED BY <2>1, <2>2
<1>3. Void(q, K) => Void(t, K)
  BY <1>1 DEF Void
<1>4. Void(t, K) => Void(q, K)
  BY <1>2 DEF Void
<1> QED BY <1>3, <1>4 DEF t

(* The shell speaks to the broker. *)
LEMMA WordPosted ==
    ASSUME NEW M, NEW first \in Seq(M), NEW second, NEW m \in M, NEW K, NEW S, m.kind \in K, m \in S
    PROVE  Word(Append(first, m), second, K, S) /\ Awaited(Append(first, m), second, K)
BY EndsPosted DEF Word, Awaited

LEMMA WordPostedOther ==
    ASSUME NEW M, NEW first \in Seq(M), NEW second, NEW m \in M, NEW K, NEW S, m.kind \notin K,
           Word(first, second, K, S)
    PROVE  /\ Word(Append(first, m), second, K, S)
           /\ Awaited(first, second, K) => Awaited(Append(first, m), second, K)
BY EndsPostedOther, VoidPostedOther DEF Word, Awaited

(* The broker passes a word on to the guest, or does something else. *)
LEMMA WordRelayed ==
    ASSUME NEW M, NEW first \in Seq(M), first # <<>>, NEW N, NEW second \in Seq(N),
           Head(first) \in N, NEW K, NEW S, Head(first).kind \in K, Word(first, second, K, S)
    PROVE  /\ Word(Tail(first), Append(second, Head(first)), K, S)
           /\ Awaited(Tail(first), Append(second, Head(first)), K)
<1> DEFINE m == Head(first)
           t == Tail(first)
<1>1. Ends(t, K, S) /\ (Void(t, K) => m \in S)
  BY EndsTaken DEF Word
<1> HIDE DEF m, t
<1>2. m \in S => Ends(Append(second, m), K, S)
  BY EndsPosted DEF m
<1>3. ~Void(Append(second, m), K)
  <2>1. ~Void(Append(second, m), K) /\ Ends(Append(second, m), K, {m})
    BY EndsPosted DEF m
  <2> QED BY <2>1
<1>4. Word(t, Append(second, m), K, S) /\ Awaited(t, Append(second, m), K)
  BY <1>1, <1>2, <1>3 DEF Word, Awaited
<1> QED BY <1>4 DEF m, t

LEMMA WordTaken ==
    ASSUME NEW M, NEW first \in Seq(M), first # <<>>, NEW second, NEW K, NEW S,
           Head(first).kind \notin K, Word(first, second, K, S)
    PROVE  /\ Word(Tail(first), second, K, S)
           /\ Awaited(first, second, K) => Awaited(Tail(first), second, K)
<1>1. Ends(Tail(first), K, S) /\ (Void(Tail(first), K) <=> Void(first, K))
  BY EndsTaken, VoidTaken DEF Word
<1> QED BY <1>1 DEF Word, Awaited

LEMMA WordSent ==
    ASSUME NEW N, NEW second \in Seq(N), NEW first, NEW m \in N, NEW K, NEW S, m.kind \notin K,
           Word(first, second, K, S)
    PROVE  /\ Word(first, Append(second, m), K, S)
           /\ Awaited(first, second, K) => Awaited(first, Append(second, m), K)
BY EndsPostedOther, VoidPostedOther DEF Word, Awaited

(* The guest hears it, or hears something else. *)
LEMMA WordHeard ==
    ASSUME NEW N, NEW second \in Seq(N), second # <<>>, NEW first, NEW K, NEW S,
           Word(first, second, K, S)
    PROVE  /\ Word(first, Tail(second), K, S)
           /\ Head(second).kind \in K => Awaited(first, Tail(second), K) \/ Head(second) \in S
           /\ Head(second).kind \notin K /\ Awaited(first, second, K)
                 => Awaited(first, Tail(second), K)
<1>1. Void(first, K) => /\ Ends(Tail(second), K, S)
                        /\ Head(second).kind \in K /\ Void(Tail(second), K) => Head(second) \in S
  BY EndsTaken DEF Word
<1>2. Head(second).kind \notin K => (Void(Tail(second), K) <=> Void(second, K))
  BY VoidTaken
<1> QED BY <1>1, <1>2 DEF Word, Awaited

(* Messages that say so. *)
LEMMA Sayings ==
    ASSUME NEW m
    PROVE  /\ \A r : m = [kind |-> "snapshot", revision |-> r] => m \in Of(r)
           /\ \A r \in 1..MaxRevision :
                 /\ m = [kind |-> "snapshot", revision |-> r] => m \in Saying(FALSE)
                 /\ m = [kind |-> "stale", revision |-> r] => m \in Saying(TRUE)
           /\ \A r : m \in Of(r) => m.kind = "snapshot" /\ m.revision = r
           /\ \A b \in BOOLEAN : m \in Saying(b) => m.kind = IF b THEN "stale" ELSE "snapshot"
BY DEF Of, Saying

(* What the guest and the broker do to the last word. *)
LEMMA FrameTells ==
    ASSUME TypeOK, TreesInv, FrameMoves, phase = "ready", phase' = "ready",
           NEW revision, NEW stale \in BOOLEAN,
           WillKnow(toBroker, toGuest, guestState, revision, stale)
    PROVE  WillKnow(toBroker', toGuest', guestState', revision, stale)
<1> USE FrameQueues
<1>0. /\ Word(toBroker, toGuest, States, Of(revision))
      /\ Awaited(toBroker, toGuest, States) \/ guestState.revision = revision
      /\ Word(toBroker, toGuest, Words, Saying(stale))
      /\ Awaited(toBroker, toGuest, Words) \/ guestState.stale = stale
  BY DEF WillKnow
<1>a. ~BrokerEnds /\ ~BrokerWorkerReady
  BY BrokerEnded, EndsFrame DEF BrokerWorkerReady
<1>1. CASE BrokerSnapshot
  <2> DEFINE m == Head(toBroker)
  <2>1. /\ toBroker # <<>> /\ toBroker' = Tail(toBroker) /\ m.kind = "snapshot"
        /\ m \in ToGuestMessages
        /\ toGuest' = Append(toGuest, m) /\ guestState' = guestState
    BY <1>1, TakesType, HostFields DEF BrokerSnapshot, Accepts, guestVars
  <2>2. m.kind \in States /\ m.kind \in Words
    BY <2>1 DEF States, Words
  <2>3. /\ Word(Tail(toBroker), Append(toGuest, m), States, Of(revision))
        /\ Awaited(Tail(toBroker), Append(toGuest, m), States)
    BY <1>0, <2>1, <2>2, WordRelayed
  <2>4. /\ Word(Tail(toBroker), Append(toGuest, m), Words, Saying(stale))
        /\ Awaited(Tail(toBroker), Append(toGuest, m), Words)
    BY <1>0, <2>1, <2>2, WordRelayed
  <2> QED BY <2>1, <2>3, <2>4 DEF WillKnow
<1>2. CASE BrokerStale
  <2> DEFINE m == Head(toBroker)
             t == Tail(toBroker)
  <2>1. /\ toBroker # <<>> /\ toBroker' = t /\ m.kind = "stale"
        /\ m \in ToGuestMessages
        /\ toGuest' = Append(toGuest, m) /\ guestState' = guestState
    BY <1>2, TakesType, HostFields DEF BrokerStale, Accepts, guestVars
  <2>2. m.kind \notin States /\ m.kind \in Words
    BY <2>1 DEF States, Words
  <2>3. /\ Word(t, toGuest, States, Of(revision))
        /\ Awaited(toBroker, toGuest, States) => Awaited(t, toGuest, States)
    BY <1>0, <2>1, <2>2, WordTaken
  <2>4. /\ Word(t, Append(toGuest, m), Words, Saying(stale))
        /\ Awaited(t, Append(toGuest, m), Words)
    BY <1>0, <2>1, <2>2, WordRelayed
  <2> HIDE DEF m, t
  <2>5. /\ Word(t, Append(toGuest, m), States, Of(revision))
        /\ Awaited(t, toGuest, States) => Awaited(t, Append(toGuest, m), States)
    BY <2>1, <2>2, <2>3, WordSent
  <2> QED BY <1>0, <2>1, <2>3, <2>4, <2>5 DEF WillKnow
<1>3. CASE GuestReceives
  <2> DEFINE m == Head(toGuest)
             t == Tail(toGuest)
  <2>1. /\ toGuest # <<>> /\ toGuest' = t /\ toBroker' = toBroker
        /\ guestState' = CASE m.kind = "snapshot" -> [revision |-> m.revision, stale |-> FALSE]
                           [] m.kind = "stale" -> [guestState EXCEPT !.stale = TRUE]
                           [] OTHER -> guestState
    BY <1>3 DEF GuestReceives
  <2>2. guestState \in [revision: 0..MaxRevision, stale: BOOLEAN]
    BY DEF TypeOK, FrameTypeOK
  <2>3. /\ Word(toBroker, t, States, Of(revision))
        /\ m.kind \in States => Awaited(toBroker, t, States) \/ m \in Of(revision)
        /\ m.kind \notin States /\ Awaited(toBroker, toGuest, States) => Awaited(toBroker, t, States)
    BY <1>0, <2>1, WordHeard
  <2>4. /\ Word(toBroker, t, Words, Saying(stale))
        /\ m.kind \in Words => Awaited(toBroker, t, Words) \/ m \in Saying(stale)
        /\ m.kind \notin Words /\ Awaited(toBroker, toGuest, Words) => Awaited(toBroker, t, Words)
    BY <1>0, <2>1, WordHeard
  <2> HIDE DEF m, t
  <2>s. CASE m.kind = "snapshot"
    <3>1. guestState'.revision = m.revision /\ guestState'.stale = FALSE
      BY <2>1, <2>s
    <3>2. m \in Of(revision) => m.revision = revision
      BY Sayings
    <3>3. m \in Saying(stale) => stale = FALSE
      BY <2>s, Sayings
    <3>4. m.kind \in States /\ m.kind \in Words
      BY <2>s DEF States, Words
    <3> QED BY <2>1, <2>3, <2>4, <3>1, <3>2, <3>3, <3>4 DEF WillKnow
  <2>t. CASE m.kind = "stale"
    <3>1. guestState'.revision = guestState.revision /\ guestState'.stale = TRUE
      BY <2>1, <2>2, <2>t
    <3>2. m \in Saying(stale) => stale = TRUE
      BY <2>t, Sayings
    <3>3. m.kind \notin States /\ m.kind \in Words
      BY <2>t DEF States, Words
    <3> QED BY <1>0, <2>1, <2>3, <2>4, <3>1, <3>2, <3>3 DEF WillKnow
  <2>u. CASE m.kind \notin {"snapshot", "stale"}
    <3>1. guestState' = guestState
      BY <2>1, <2>u
    <3>2. m.kind \notin States /\ m.kind \notin Words
      BY <2>u DEF States, Words
    <3> QED BY <1>0, <2>1, <2>3, <2>4, <3>1, <3>2 DEF WillKnow
  <2> QED BY <2>s, <2>t, <2>u
<1>4. CASE ~BrokerSnapshot /\ ~BrokerStale /\ ~GuestReceives
  <2>1. guestState' = guestState
    <3>1. CASE \/ BrokerBinds \/ BrokerLoads \/ BrokerLaunches \/ BrokerActivates \/ BrokerAnswersPing
               \/ BrokerInteraction \/ BrokerRender \/ BrokerPong \/ BrokerEffect \/ WatchdogProbes
               \/ GuestReady \/ GuestActs \/ GuestHangs
               \/ \E tree \in SUBSET Nodes : GuestRenders(tree)
      BY <3>1 DEF BrokerBinds, BrokerLoads, BrokerLaunches, BrokerActivates, BrokerAnswersPing,
         BrokerInteraction, BrokerRender, BrokerPong, BrokerEffect, WatchdogProbes,
         GuestReady, GuestActs, GuestHangs, GuestRenders, guestVars
    <3>2. CASE WatchdogMisses /\ missedWorker + 1 < MissLimit
      BY <3>2, NotMissedYet DEF guestVars
    <3> QED BY <1>4, <1>a, <3>1, <3>2, Zenon DEF FrameMoves
  <2>2. \/ toBroker' = toBroker
        \/ /\ toBroker # <<>> /\ toBroker' = Tail(toBroker)
           /\ Head(toBroker).kind \notin States /\ Head(toBroker).kind \notin Words
    <3>1. CASE \/ BrokerBinds \/ BrokerLoads \/ BrokerActivates \/ BrokerAnswersPing
               \/ BrokerInteraction
      <4>1. /\ toBroker # <<>> /\ toBroker' = Tail(toBroker)
            /\ Head(toBroker).kind \in {"bind", "load", "activate", "ping", "interaction"}
        BY <3>1, TakesType DEF BrokerBinds, BrokerLoads, BrokerActivates, BrokerAnswersPing,
           BrokerInteraction, Accepts
      <4> QED BY <4>1 DEF States, Words
    <3>2. CASE \/ BrokerLaunches \/ BrokerRender \/ BrokerPong \/ BrokerEffect \/ WatchdogProbes
               \/ GuestReady \/ GuestActs \/ GuestHangs
               \/ \E tree \in SUBSET Nodes : GuestRenders(tree)
      BY <3>2 DEF BrokerLaunches, BrokerRender, BrokerPong, BrokerEffect, WatchdogProbes,
         GuestReady, GuestActs, GuestHangs, GuestRenders, channels
    <3>3. CASE WatchdogMisses /\ missedWorker + 1 < MissLimit
      BY <3>3, NotMissedYet DEF channels
    <3> QED BY <1>4, <1>a, <3>1, <3>2, <3>3, Zenon DEF FrameMoves
  <2>3. \/ toGuest' = toGuest
        \/ \E m \in ToGuestMessages : /\ m.kind \notin States /\ m.kind \notin Words
                                      /\ toGuest' = Append(toGuest, m)
    <3>1. CASE BrokerInteraction
      <4> DEFINE m == [kind |-> "interaction", render |-> brokerRender,
                       node |-> Head(toBroker).node]
      <4>1. m \in ToGuestMessages
        BY <3>1, AcceptedInteraction, WorkerPosts
      <4>2. toGuest' = Append(toGuest, m) /\ m.kind \notin States /\ m.kind \notin Words
        BY <3>1 DEF BrokerInteraction, States, Words
      <4> QED BY <4>1, <4>2
    <3>2. Probe \in ToGuestMessages /\ Probe.kind \notin States /\ Probe.kind \notin Words
      BY WorkerPosts DEF Probe, TypeOK, FrameTypeOK, States, Words
    <3> QED BY <1>4, <1>a, <3>1, <3>2, WorkerHears
  <2>4. /\ Word(toBroker', toGuest, States, Of(revision))
        /\ Awaited(toBroker', toGuest, States) \/ guestState.revision = revision
        /\ Word(toBroker', toGuest, Words, Saying(stale))
        /\ Awaited(toBroker', toGuest, Words) \/ guestState.stale = stale
    <3>1. CASE toBroker' = toBroker
      BY <1>0, <3>1
    <3>2. CASE /\ toBroker # <<>> /\ toBroker' = Tail(toBroker)
               /\ Head(toBroker).kind \notin States /\ Head(toBroker).kind \notin Words
      <4>1. /\ Word(Tail(toBroker), toGuest, States, Of(revision))
            /\ Awaited(toBroker, toGuest, States) => Awaited(Tail(toBroker), toGuest, States)
        BY <1>0, <3>2, WordTaken
      <4>2. /\ Word(Tail(toBroker), toGuest, Words, Saying(stale))
            /\ Awaited(toBroker, toGuest, Words) => Awaited(Tail(toBroker), toGuest, Words)
        BY <1>0, <3>2, WordTaken
      <4> QED BY <1>0, <3>2, <4>1, <4>2
    <3> QED BY <2>2, <3>1, <3>2
  <2>5. CASE toGuest' = toGuest
    BY <2>1, <2>4, <2>5 DEF WillKnow
  <2>6. ASSUME NEW m \in ToGuestMessages, m.kind \notin States, m.kind \notin Words,
               toGuest' = Append(toGuest, m)
        PROVE  WillKnow(toBroker', toGuest', guestState', revision, stale)
    <3>1. /\ Word(toBroker', Append(toGuest, m), States, Of(revision))
          /\ Awaited(toBroker', toGuest, States) => Awaited(toBroker', Append(toGuest, m), States)
      BY <2>4, <2>6, WordSent
    <3>2. /\ Word(toBroker', Append(toGuest, m), Words, Saying(stale))
          /\ Awaited(toBroker', toGuest, Words) => Awaited(toBroker', Append(toGuest, m), Words)
      BY <2>4, <2>6, WordSent
    <3> QED BY <2>1, <2>4, <2>6, <3>1, <3>2 DEF WillKnow
  <2> QED BY <2>3, <2>5, <2>6
<1> QED BY <1>1, <1>2, <1>3, <1>4

(* What the broker tells a Worker that has just become ready. *)
LEMMA FirstWord ==
    ASSUME TypeOK, FrameInv, WorkerInv, BrokerWorkerReady
    PROVE  ~workerReady /\ WillKnow(toBroker', toGuest', guestState', 1, FALSE)
<1> USE FrameQueues
<1>1. phase = "launched" /\ toBroker' = toBroker /\ guestState' = guestState
  BY DEF BrokerWorkerReady, guestVars
<1>2. toGuest = <<>> /\ stateRevision = 1
  BY <1>1 DEF FrameInv, Fresh
<1>3. ~workerReady
  BY <1>1 DEF WorkerInv, Standing
<1>4. Void(toBroker, States) /\ Void(toBroker, Words)
  <2>1. \A i \in DOMAIN toBroker : toBroker[i].kind \in {"bind", "load"}
    BY <1>3 DEF WorkerInv, Within
  <2> QED BY <2>1 DEF Void, States, Words
<1> DEFINE start == [kind |-> "snapshot", revision |-> 1]
<1>5. /\ start \in ToGuestMessages /\ start.kind = "snapshot"
      /\ start \in Of(1) /\ start \in Saying(FALSE)
      /\ Probe \in ToGuestMessages /\ Probe.kind = "probe"
  <2>1. 1 \in 1..MaxRevision
    BY Bounds
  <2>2. start \in ToGuestMessages /\ start.kind = "snapshot"
    BY <2>1, WorkerPosts
  <2>3. start \in Of(1) /\ start \in Saying(FALSE)
    BY <2>1, Sayings
  <2>4. Probe \in ToGuestMessages /\ Probe.kind = "probe"
    BY WorkerPosts DEF Probe, TypeOK, FrameTypeOK
  <2> QED BY <2>2, <2>3, <2>4
<1>6. toGuest' = toGuest \o <<start, Probe>>
  BY <1>2 DEF BrokerWorkerReady
<1> HIDE DEF start
<1> DEFINE r == Append(toGuest, start)
<1>7. toGuest' = Append(r, Probe) /\ r \in Seq(ToGuestMessages)
  BY <1>5, <1>6, TwoAppended, Appended
<1>8. /\ Ends(r, States, Of(1)) /\ ~Void(r, States)
      /\ Ends(r, Words, Saying(FALSE)) /\ ~Void(r, Words)
  <2>1. start.kind \in States /\ start.kind \in Words
    BY <1>5 DEF States, Words
  <2> QED BY <1>5, <2>1, EndsPosted
<1> HIDE DEF r
<1>9. Probe.kind \notin States /\ Probe.kind \notin Words
  BY <1>5 DEF States, Words
<1>10. /\ Ends(Append(r, Probe), States, Of(1)) /\ ~Void(Append(r, Probe), States)
       /\ Ends(Append(r, Probe), Words, Saying(FALSE)) /\ ~Void(Append(r, Probe), Words)
  <2>1. /\ Ends(Append(r, Probe), States, Of(1))
        /\ Ends(Append(r, Probe), Words, Saying(FALSE))
    BY <1>5, <1>7, <1>8, <1>9, EndsPostedOther
  <2>2. ~Void(Append(r, Probe), States) /\ ~Void(Append(r, Probe), Words)
    BY <1>5, <1>7, <1>8, <1>9, VoidPostedOther
  <2> QED BY <2>1, <2>2
<1>11. /\ Ends(toBroker, States, Of(1)) /\ Ends(toBroker, Words, Saying(FALSE))
  BY <1>4, WordNone
<1> QED BY <1>1, <1>3, <1>7, <1>10, <1>11 DEF WillKnow, Word, Awaited

(* What the shell's words make of it. *)
LEMMA ShellSpeaks ==
    ASSUME TypeOK, NEW revision \in 1..MaxRevision, NEW old, NEW stale \in BOOLEAN
    PROVE  LET state == [kind |-> "snapshot", revision |-> revision]
               mark == [kind |-> "stale", revision |-> revision]
           IN  /\ WillKnow(Append(toBroker, state), toGuest, guestState, revision, FALSE)
               /\ WillKnow(toBroker, toGuest, guestState, old, stale)
                    => WillKnow(Append(toBroker, mark), toGuest, guestState, old, TRUE)
               /\ WillKnow(Append(Append(toBroker, state), mark), toGuest, guestState, revision, TRUE)
<1> USE FrameQueues
<1> DEFINE state == [kind |-> "snapshot", revision |-> revision]
           mark == [kind |-> "stale", revision |-> revision]
<1>1. /\ state \in HostMessages /\ state.kind = "snapshot"
      /\ mark \in HostMessages /\ mark.kind = "stale"
  BY Posts
<1>2. state \in Of(revision) /\ state \in Saying(FALSE) /\ mark \in Saying(TRUE)
  BY Sayings
<1> HIDE DEF state, mark
<1>3. /\ state.kind \in States /\ state.kind \in Words
      /\ mark.kind \notin States /\ mark.kind \in Words
  BY <1>1 DEF States, Words
<1>4. WillKnow(Append(toBroker, state), toGuest, guestState, revision, FALSE)
  <2>1. /\ Word(Append(toBroker, state), toGuest, States, Of(revision))
        /\ Awaited(Append(toBroker, state), toGuest, States)
    BY <1>1, <1>2, <1>3, WordPosted
  <2>2. /\ Word(Append(toBroker, state), toGuest, Words, Saying(FALSE))
        /\ Awaited(Append(toBroker, state), toGuest, Words)
    BY <1>1, <1>2, <1>3, WordPosted
  <2> QED BY <2>1, <2>2 DEF WillKnow
<1>5. ASSUME NEW q \in Seq(HostMessages), NEW was, NEW marked,
             WillKnow(q, toGuest, guestState, was, marked)
      PROVE  WillKnow(Append(q, mark), toGuest, guestState, was, TRUE)
  <2>0. /\ Word(q, toGuest, States, Of(was))
        /\ Awaited(q, toGuest, States) \/ guestState.revision = was
    BY <1>5 DEF WillKnow
  <2>1. /\ Word(Append(q, mark), toGuest, States, Of(was))
        /\ Awaited(q, toGuest, States) => Awaited(Append(q, mark), toGuest, States)
    BY <1>1, <1>3, <2>0, WordPostedOther
  <2>2. /\ Word(Append(q, mark), toGuest, Words, Saying(TRUE))
        /\ Awaited(Append(q, mark), toGuest, Words)
    BY <1>1, <1>2, <1>3, WordPosted
  <2> QED BY <2>0, <2>1, <2>2 DEF WillKnow
<1>6. WillKnow(Append(Append(toBroker, state), mark), toGuest, guestState, revision, TRUE)
  <2>1. Append(toBroker, state) \in Seq(HostMessages)
    BY <1>1, Appended
  <2> QED BY <1>4, <1>5, <2>1
<1> QED BY <1>4, <1>5, <1>6 DEF state, mark

LEMMA WordNext ==
    ASSUME TypeOK, FrameInv, WorkerInv, TreesInv, RevisionInv, WordInv, Next
    PROVE  WordInv'
<1> USE FrameQueues
<1>b. toldStale \in BOOLEAN /\ workerReady \in BOOLEAN
  BY DEF TypeOK
<1>1. CASE FrameMoves /\ UNCHANGED <<hostVars, shellVars>>
  <2>1. /\ UNCHANGED <<workerReady, pendingState, pendingStale, publishedStateRevision, toldStale>>
        /\ Settled' = Settled
    BY <1>1 DEF hostVars, shellVars, buffered, Settled
  <2>2. CASE phase' # "ready"
    BY <2>1, <2>2 DEF WordInv
  <2>3. CASE phase = "ready" /\ phase' = "ready"
    <3>1. CASE workerReady
      <4>1. WillKnow(toBroker, toGuest, guestState, publishedStateRevision, toldStale)
        BY <2>3, <3>1 DEF WordInv
      <4>2. WillKnow(toBroker', toGuest', guestState', publishedStateRevision, toldStale)
        BY <1>1, <1>b, <2>3, <4>1, FrameTells
      <4> QED BY <2>1, <3>1, <4>2 DEF WordInv
    <3>2. CASE ~workerReady
      <4>1. WillKnow(toBroker, toGuest, guestState, 1, FALSE)
        BY <2>3, <3>2 DEF WordInv
      <4>2. WillKnow(toBroker', toGuest', guestState', 1, FALSE)
        BY <1>1, <2>3, <4>1, FrameTells
      <4> QED BY <2>1, <3>2, <4>2 DEF WordInv
    <3> QED BY <3>1, <3>2
  <2>4. CASE phase # "ready" /\ phase' = "ready"
    <3>1. BrokerWorkerReady
      <4>1. ~BrokerEnds /\ ~ReadySteps
        BY <2>4, BrokerEnded, EndsFrame, Readied
      <4>2. EarlySteps
        BY <1>1, <4>1, FrameDivides
      <4> QED BY <2>4, <4>2 DEF EarlySteps, BrokerBinds, BrokerLoads, BrokerLaunches, GuestReady,
                                GuestHangs
    <3> QED BY <2>1, <3>1, FirstWord DEF WordInv
  <2> QED BY <2>2, <2>3, <2>4
<1>2. CASE HostEnds
  <2>1. Settled' /\ phase' # "ready"
    BY <1>2, HostEnded, EndsFrame
  <2> QED BY <2>1 DEF WordInv
<1>3. CASE FrameLost
  <2>1. /\ UNCHANGED <<workerReady, pendingState, pendingStale, publishedStateRevision, toldStale>>
        /\ Settled' = Settled
    BY <1>3 DEF FrameLost, hostVars, shellVars, buffered, Settled
  <2>2. phase' # "ready"
    BY <1>3, Losing, EndsFrame
  <2> QED BY <2>1, <2>2 DEF WordInv
<1>4. CASE HostWorks
  <2>1. /\ ~Settled /\ UNCHANGED <<phase, toGuest, guestState>>
    BY <1>4, HostWorksFrame DEF FrameRests, guestVars
  <2>2. ~workerReady => /\ pendingStale = toldStale
                        /\ pendingState = 0 => publishedStateRevision = 1
    BY <2>1 DEF WordInv
  <2>3. CASE HostWorkerReady
    <3>1. /\ workerReady' = TRUE /\ toldStale' = toldStale
          /\ publishedStateRevision' = publishedStateRevision /\ toBroker' = Posted(Buffered)
      BY <2>3 DEF HostWorkerReady, Receives, shellVars
    <3> SUFFICES ASSUME phase = "ready"
                 PROVE  WillKnow(toBroker', toGuest, guestState, publishedStateRevision, toldStale)
      BY <2>1, <3>1 DEF WordInv
    <3> DEFINE one == [kind |-> "snapshot", revision |-> pendingState]
               two == [kind |-> "stale", revision |-> publishedStateRevision]
    <3>2. toBroker' = IF pendingState = 0
                      THEN IF pendingStale THEN Append(toBroker, two) ELSE toBroker
                      ELSE IF pendingStale THEN Append(Append(toBroker, one), two)
                           ELSE Append(toBroker, one)
      BY <3>1, BufferedPosts
    <3>3. CASE workerReady
      <4>1. pendingState = 0 /\ pendingStale = FALSE
        BY <3>3 DEF RevisionInv
      <4> HIDE DEF one, two
      <4>2. toBroker' = toBroker
        BY <3>2, <4>1, Zenon
      <4> QED BY <3>3, <4>2 DEF WordInv
    <3>4. CASE ~workerReady
      <4>1. /\ WillKnow(toBroker, toGuest, guestState, 1, FALSE)
            /\ pendingStale = toldStale /\ (pendingState = 0 => publishedStateRevision = 1)
            /\ pendingState # 0 => pendingState = publishedStateRevision
            /\ publishedStateRevision \in 1..MaxRevision
        BY <2>2, <3>4 DEF WordInv, RevisionInv, TypeOK
      <4> DEFINE p == publishedStateRevision
                 state == [kind |-> "snapshot", revision |-> p]
      <4>2. /\ WillKnow(Append(toBroker, state), toGuest, guestState, p, FALSE)
            /\ WillKnow(toBroker, toGuest, guestState, 1, FALSE)
                 => WillKnow(Append(toBroker, two), toGuest, guestState, 1, TRUE)
            /\ WillKnow(Append(Append(toBroker, state), two), toGuest, guestState, p, TRUE)
        BY <4>1, ShellSpeaks
      <4>3. pendingState # 0 => one = state
        BY <4>1
      <4> HIDE DEF one, two, state
      <4>4. CASE pendingState = 0 /\ pendingStale
        <5>1. toBroker' = Append(toBroker, two)
          BY <3>2, <4>4, Zenon
        <5> QED BY <1>b, <4>1, <4>2, <4>4, <5>1
      <4>5. CASE pendingState = 0 /\ ~pendingStale
        <5>1. toBroker' = toBroker
          BY <3>2, <4>5, Zenon
        <5> QED BY <1>b, <4>1, <4>5, <5>1
      <4>6. CASE pendingState # 0 /\ pendingStale
        <5>1. toBroker' = Append(Append(toBroker, state), two)
          BY <3>2, <4>3, <4>6, Zenon
        <5> QED BY <1>b, <4>1, <4>2, <4>6, <5>1
      <4>7. CASE pendingState # 0 /\ ~pendingStale
        <5>1. toBroker' = Append(toBroker, state)
          BY <3>2, <4>3, <4>7, Zenon
        <5> QED BY <1>b, <4>1, <4>2, <4>7, <5>1
      <4> QED BY <4>4, <4>5, <4>6, <4>7
    <3> QED BY <3>3, <3>4
  <2>4. ASSUME NEW revision \in 1..MaxRevision, publishState(revision)
        PROVE  WordInv'
    <3>1. /\ publishedStateRevision' = revision /\ toldStale' = FALSE /\ workerReady' = workerReady
          /\ revision # 0
      BY <2>4, Bounds DEF publishState
    <3>2. CASE workerReady
      <4> DEFINE m == [kind |-> "snapshot", revision |-> revision]
      <4>1. toBroker' = Posted(<<m>>) /\ m \in HostMessages
        BY <2>4, <3>2, Posts DEF publishState, Post
      <4>2. phase = "ready" => toBroker' = Append(toBroker, m)
        BY <4>1, PostsOne
      <4>3. WillKnow(Append(toBroker, m), toGuest, guestState, revision, FALSE)
        BY ShellSpeaks
      <4> HIDE DEF m
      <4> QED BY <2>1, <3>1, <3>2, <4>2, <4>3 DEF WordInv
    <3>3. CASE ~workerReady
      <4>1. pendingState' = revision /\ pendingStale' = FALSE /\ toBroker' = toBroker
        BY <2>4, <3>3 DEF publishState, frameVars, channels
      <4> QED BY <2>1, <3>1, <3>3, <4>1 DEF WordInv
    <3> QED BY <3>2, <3>3
  <2>5. CASE markStateStale
    <3>1. /\ toldStale' = TRUE
          /\ UNCHANGED <<workerReady, pendingState, publishedStateRevision>>
      BY <2>5 DEF markStateStale
    <3>2. CASE workerReady
      <4> DEFINE p == publishedStateRevision
                 m == [kind |-> "stale", revision |-> p]
      <4>1. toBroker' = Posted(<<m>>) /\ m \in HostMessages /\ p \in 1..MaxRevision
        BY <2>5, <3>2, Posts DEF markStateStale, Post, TypeOK
      <4>2. phase = "ready" => toBroker' = Append(toBroker, m)
        BY <4>1, PostsOne
      <4>3. WillKnow(toBroker, toGuest, guestState, p, toldStale)
              => WillKnow(Append(toBroker, m), toGuest, guestState, p, TRUE)
        BY <1>b, <4>1, ShellSpeaks
      <4> HIDE DEF m
      <4> QED BY <2>1, <3>1, <3>2, <4>2, <4>3 DEF WordInv
    <3>3. CASE ~workerReady
      <4>1. pendingStale' = TRUE /\ toBroker' = toBroker
        BY <2>5, <3>3 DEF markStateStale, frameVars, channels
      <4> QED BY <2>1, <2>2, <3>1, <3>3, <4>1 DEF WordInv
    <3> QED BY <3>2, <3>3
  <2>6. CASE ~HostWorkerReady /\ ~Published /\ ~markStateStale
    <3>1. UNCHANGED <<workerReady, pendingState, pendingStale, publishedStateRevision>>
      BY <1>4, <2>6, BufferRests
    <3>2. toldStale' = toldStale
      BY <1>4, <2>6, NotMissedOut
         DEF HostWorks, HostHears, HostBound, HostRender, HostActive, HostPong, Receives, Paints,
             HostBinds, HeartbeatPings, interact, shellVars
    <3>3. \/ toBroker' = toBroker
          \/ \E m \in HostMessages : /\ m.kind \notin States /\ m.kind \notin Words
                                     /\ toBroker' = Append(toBroker, m)
      <4>1. ASSUME NEW m \in HostMessages, m.kind = "snapshot", publishState(m.revision)
            PROVE  Published
        BY <4>1, HostFields DEF Published
      <4> QED BY <1>4, <2>6, <4>1, HostWorksPosts DEF States, Words
    <3>4. ASSUME NEW r, NEW s, WillKnow(toBroker, toGuest, guestState, r, s)
          PROVE  WillKnow(toBroker', toGuest, guestState, r, s)
      <4>1. CASE toBroker' = toBroker
        BY <3>4, <4>1
      <4>2. ASSUME NEW m \in HostMessages, m.kind \notin States, m.kind \notin Words,
                   toBroker' = Append(toBroker, m)
            PROVE  WillKnow(toBroker', toGuest, guestState, r, s)
        <5>1. /\ Word(Append(toBroker, m), toGuest, States, Of(r))
              /\ Awaited(toBroker, toGuest, States) => Awaited(Append(toBroker, m), toGuest, States)
          BY <3>4, <4>2, WordPostedOther DEF WillKnow
        <5>2. /\ Word(Append(toBroker, m), toGuest, Words, Saying(s))
              /\ Awaited(toBroker, toGuest, Words) => Awaited(Append(toBroker, m), toGuest, Words)
          BY <3>4, <4>2, WordPostedOther DEF WillKnow
        <5> QED BY <3>4, <4>2, <5>1, <5>2 DEF WillKnow
      <4> QED BY <3>3, <4>1, <4>2
    <3> QED BY <2>1, <2>2, <3>1, <3>2, <3>4 DEF WordInv
  <2> QED BY <2>3, <2>4, <2>5, <2>6 DEF Published
<1> QED BY <1>1, <1>2, <1>3, <1>4, Moves, HostDivides

LEMMA WordReaches ==
    ASSUME TypeOK, FrameInv, WorkerInv, WordInv
    PROVE  GuestFollowsShell
<1> SUFFICES ASSUME guest = "running", workerReady, toBroker = <<>>, toGuest = <<>>
             PROVE  guestState = [revision |-> publishedStateRevision, stale |-> toldStale]
  BY DEF GuestFollowsShell
<1>1. phase = "ready"
  BY DEF FrameInv, WorkerInv
<1>2. \A K : Void(toBroker, K) /\ Void(toGuest, K)
  BY Empty DEF Void
<1>3. WillKnow(toBroker, toGuest, guestState, publishedStateRevision, toldStale)
  BY <1>1 DEF WordInv
<1>4. guestState.revision = publishedStateRevision /\ guestState.stale = toldStale
  BY <1>2, <1>3 DEF WillKnow, Awaited
<1>5. guestState \in [revision: 0..MaxRevision, stale: BOOLEAN]
  BY DEF TypeOK, FrameTypeOK
<1> QED BY <1>4, <1>5

-----------------------------------------------------------------------------
(* Theorems. *)

IInv ==
    /\ TypeOK /\ FrameInv /\ WorkerInv /\ RenderInv /\ TreesInv
    /\ ActivationInv /\ RevisionInv /\ ProbeInv /\ FailureInv /\ WordInv

LEMMA Starts == Init => IInv
<1> SUFFICES ASSUME Init PROVE IInv
  OBVIOUS
<1> USE Empty
<1>1. /\ toBroker = <<>> /\ toHost = <<>> /\ toGuest = <<>> /\ fromGuest = <<>> /\ trees = <<>>
      /\ phase = "unbound" /\ lifecycle = "starting" /\ workerReady = FALSE
      /\ ~Settled /\ Standing
  BY DEF Init, FrameInit, Settled, Standing
<1>2. TypeOK
  <2>1. FrameTypeOK
    <3>1. /\ toBroker \in Seq(HostMessages) /\ toHost \in Seq(BrokerMessages)
          /\ toGuest \in Seq(ToGuestMessages) /\ fromGuest \in Seq(GuestMessages)
          /\ trees \in Seq(SUBSET Nodes)
      BY <1>1
    <3>2. /\ brokerRender \in 0..MaxRender /\ stateRevision \in 1..MaxRevision
          /\ workerProbe \in 0..Challenges /\ nextWorkerProbe \in Probes
          /\ missedWorker \in 0..(MissLimit - 1)
      BY Bounds DEF Init, FrameInit, Probes
    <3>3. guestState \in [revision: 0..MaxRevision, stale: BOOLEAN]
      BY Bounds DEF Init, FrameInit, Untold
    <3> QED BY <3>1, <3>2, <3>3 DEF Init, FrameInit, FrameTypeOK, Phases
  <2>2. /\ hostRender \in 0..MaxRender /\ pendingState \in 0..MaxRevision
        /\ publishedStateRevision \in 1..MaxRevision
        /\ hostProbe \in 0..Challenges /\ nextHostProbe \in Probes /\ missedHost \in 0..(MissLimit - 1)
    BY Bounds DEF Init, Probes
  <2>3. shown \in [render: 0..MaxRender, tree: SUBSET Nodes]
    BY Bounds DEF Init
  <2> QED BY <2>1, <2>2, <2>3 DEF Init, TypeOK, HostFailures
<1>3. FrameInv
  BY <1>1 DEF Init, FrameInit, FrameInv, Fresh
<1>4. WorkerInv
  BY <1>1 DEF WorkerInv
<1>5. RenderInv
  <2>1. brokerRender = 0 /\ hostRender = 0 /\ Len(trees) = 0
    BY <1>1 DEF Init, FrameInit
  <2>2. Renders(<<>>, 0, 0)
    BY RendersEmpty
  <2> QED BY <1>1, <2>1, <2>2 DEF RenderInv
<1>6. TreesInv /\ ActivationInv
  BY <1>1 DEF Init, FrameInit, TreesInv, ClicksReachLiveControls, ActivationInv,
              EffectsFollowActivation
<1>7. RevisionInv
  BY <1>1, OrderedEmpty DEF Init, FrameInit, RevisionInv
<1>8. ProbeInv
  BY <1>1 DEF ProbeInv, OneProbe
<1>9. FailureInv
  BY <1>1 DEF Init, FailureInv, PeersKeepProtocol, None
<1>10. WordInv
  BY <1>1 DEF Init, WordInv
<1> QED BY <1>2, <1>3, <1>4, <1>5, <1>6, <1>7, <1>8, <1>9, <1>10 DEF IInv

LEMMA Rests == IInv /\ UNCHANGED vars => IInv'
<1> SUFFICES ASSUME IInv, UNCHANGED vars PROVE IInv'
  OBVIOUS
<1> USE DEF vars, frameVars, hostVars, shellVars, channels, rendered, watchdog, guestVars,
            buffered, heartbeat
<1>1. TypeOK'
  BY DEF IInv, TypeOK, FrameTypeOK
<1>2. FrameInv' /\ WorkerInv'
  BY DEF IInv, FrameInv, WorkerInv, Standing, Settled, Fresh
<1>3. RenderInv' /\ TreesInv' /\ ActivationInv'
  BY DEF IInv, RenderInv, TreesInv, ActivationInv, ClicksReachLiveControls,
         EffectsFollowActivation, Standing
<1>4. RevisionInv' /\ ProbeInv' /\ FailureInv'
  BY DEF IInv, RevisionInv, ProbeInv, FailureInv, PeersKeepProtocol
<1>5. WordInv'
  BY DEF IInv, WordInv, Settled
<1> QED BY <1>1, <1>2, <1>3, <1>4, <1>5 DEF IInv

LEMMA Inductive == Spec => []IInv
<1>1. IInv /\ [Next]_vars => IInv'
  <2>1. IInv /\ Next => IInv'
    BY TypeNext, FrameNext, WorkerNext, RenderNext, TreesNext, ActivationNext, RevisionNext,
       ProbeNext, FailureNext, WordNext DEF IInv
  <2> QED BY <2>1, Rests
<1> QED BY <1>1, Starts, PTL DEF Spec

(* The messages, counters and records of broker, guest, host and shell have *)
(* their types: nothing is sent that the other end cannot read.             *)
THEOREM TypeCorrect == Spec => []TypeOK
<1>1. IInv => TypeOK
  BY DEF IInv
<1> QED BY <1>1, Inductive, PTL

(* Host and broker never end a component for a violation of the protocol   *)
(* between them, nor for a gap in a well-formed guest's renders, in        *)
(* whatever order handlers, timers, losses and the shell's calls come.     *)
THEOREM PeersKeep == Spec => []PeersKeepProtocol
<1>1. IInv => PeersKeepProtocol
  BY DEF IInv, FailureInv
<1> QED BY <1>1, Inductive, PTL

(* A guest that has heard everything holds the last state the shell        *)
(* published, and whether it was marked stale since, though the shell may  *)
(* have spoken before there was a frame, a Worker or a guest to hear it.   *)
THEOREM GuestFollows == Spec => []GuestFollowsShell
<1>1. IInv => GuestFollowsShell
  BY WordReaches DEF IInv
<1> QED BY <1>1, Inductive, PTL

(* An interaction that reaches the guest names a control that was enabled  *)
(* in the render it names, and the shell had received that render.         *)
THEOREM ClicksReach == Spec => []ClicksReachLiveControls
<1>1. IInv => ClicksReachLiveControls
  BY DEF IInv, TreesInv
<1> QED BY <1>1, Inductive, PTL

(* An effect leaves the frame only after the host received and activated   *)
(* the component's interface.                                              *)
THEOREM EffectsFollow == Spec => []EffectsFollowActivation
<1>1. IInv => EffectsFollowActivation
  BY DEF IInv, ActivationInv
<1> QED BY <1>1, Inductive, PTL
=============================================================================
