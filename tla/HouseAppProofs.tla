--------------------------- MODULE HouseAppProofs ---------------------------
(* Proofs of the safety properties of HouseApp, for any limits of the host *)
(* and any number of epochs, revisions and calls.                          *)
EXTENDS HouseApp, FiniteSetTheorems, TLAPS

-----------------------------------------------------------------------------
(* Messages, and the two queues. *)

LEMMA Limits ==
    /\ missedHeartbeats \in Nat \ {0} /\ outstandingCalls \in Nat \ {0}
    /\ MaxEpoch \in Nat \ {0} /\ MaxRevision \in Nat \ {0}
    /\ MaxCalls \in Nat /\ MaxQueue \in Nat
BY HouseAppAssumption DEF HouseAppAssumption

LEMMA MessageTypes ==
    /\ NoView \in Views
    /\ \A v \in Views : [kind |-> "load", state |-> v] \in ToFrame
    /\ \A v \in Version : [kind |-> "snapshot", values |-> v] \in ToFrame
    /\ \A r \in 1..MaxRevision : [kind |-> "stale", revision |-> r] \in ToFrame
    /\ \A i \in Calls : [kind |-> "settled", id |-> i] \in ToFrame
    /\ [kind |-> "ping"] \in ToFrame
    /\ [kind |-> "ready"] \in ToHost /\ [kind |-> "crash"] \in ToHost
    /\ [kind |-> "pong"] \in ToHost
    /\ \A i \in Calls : [kind |-> "call", id |-> i] \in ToHost
BY Limits DEF NoView, Views, ToFrame, ToHost

LEMMA Fields ==
    ASSUME NEW m \in ToFrame
    PROVE  /\ m.kind \in {"load", "snapshot", "stale", "settled", "ping"}
           /\ m.kind = "load" => m.state \in Views
           /\ m.kind = "snapshot" => m.values \in Version
           /\ m.kind = "stale" => m.revision \in 1..MaxRevision
           /\ m.kind = "settled" => m.id \in Calls
BY DEF ToFrame

LEMMA StateTypes ==
    ASSUME NEW s \in HomeStates
    PROVE  /\ VersionOf(s) \in Version /\ s.stale \in BOOLEAN
           /\ s.revision \in 1..MaxRevision
           /\ [values |-> VersionOf(s), revision |-> s.revision, stale |-> s.stale] \in Views
BY Limits DEF HomeStates, VersionOf, Version, Views

(* A queue that gets a message, and one that loses its first. *)
LEMMA Queued ==
    ASSUME NEW M, NEW q \in Seq(M), NEW m \in M
    PROVE  Append(q, m) \in Seq(M)
OBVIOUS

LEMMA Taken ==
    ASSUME NEW M, NEW q \in Seq(M), q # <<>>
    PROVE  Tail(q) \in Seq(M) /\ Head(q) \in M
OBVIOUS

-----------------------------------------------------------------------------
(* Type correctness. *)

LEMMA NewFrameType == NewFrame \in Frames /\ [NewFrame EXCEPT !.phase = "removed"] \in Frames
<1>1. NoView \in Views /\ {} \in SUBSET Calls /\ 0 \in 0..MaxCalls
  BY MessageTypes, Limits
<1> QED BY <1>1 DEF NewFrame, Frames

LEMMA SettlesType ==
    ASSUME TypeOK, NEW next \in {"crashed", "disposed"}, Settles(next)
    PROVE  TypeOK'
<1>1. Cardinality({}) = 0 /\ 0 \in 0..(missedHeartbeats - 1)
  BY FS_EmptySet, Limits
<1>2. <<>> \in Seq(ToFrame) /\ <<>> \in Seq(ToHost)
  OBVIOUS
<1>3. /\ {homeState', initialState'} \subseteq HomeStates \cup {None}
      /\ {lifecycle', shownLifecycle'} \subseteq
            {"starting", "loading", "active", "crashed", "disposed"}
      /\ publishedRevision' \in 0..MaxRevision
  BY DEF TypeOK, Settles, stage
<1>4. pendingProbe' \in BOOLEAN /\ missed' \in 0..(missedHeartbeats - 1)
  BY <1>1 DEF Settles
<1>5. calls' \in SUBSET Calls /\ Cardinality(calls') <= outstandingCalls
  BY <1>1, Limits DEF Settles
<1>6. toFrame' \in Seq(ToFrame) /\ toHost' \in Seq(ToHost) /\ frame' \in Frames
  BY <1>2, NewFrameType DEF Settles
<1> QED BY <1>3, <1>4, <1>5, <1>6 DEF TypeOK

(* Publishing changes the queue of the frame and the revision. *)
LEMMA PublishType ==
    ASSUME TypeOK, NEW s \in HomeStates \cup {None}, publishState(s)
    PROVE  toFrame' \in Seq(ToFrame) /\ publishedRevision' \in 0..MaxRevision
<1>1. CASE UNCHANGED <<publishedRevision, toFrame>>
  BY <1>1 DEF TypeOK
<1>2. CASE s # None /\ s.revision >= publishedRevision /\ ~UNCHANGED <<publishedRevision, toFrame>>
  <2>1. /\ s \in HomeStates /\ VersionOf(s) \in Version /\ s.revision \in 1..MaxRevision
    BY <1>2, StateTypes
  <2>2. publishedRevision' = s.revision
    BY <1>2, Zenon DEF publishState
  <2>3. \/ toFrame' = Append(toFrame, [kind |-> "stale", revision |-> s.revision])
        \/ toFrame' = Append(toFrame, [kind |-> "snapshot", values |-> VersionOf(s)])
    BY <1>2, Zenon DEF publishState
  <2>4. /\ [kind |-> "stale", revision |-> s.revision] \in ToFrame
        /\ [kind |-> "snapshot", values |-> VersionOf(s)] \in ToFrame
    BY <2>1, MessageTypes
  <2>5. toFrame \in Seq(ToFrame)
    BY DEF TypeOK
  <2>6. toFrame' \in Seq(ToFrame)
    BY <2>3, <2>4, <2>5, Queued, Zenon
  <2> QED BY <2>1, <2>2, <2>6, Limits
<1> QED BY <1>1, <1>2 DEF publishState

LEMMA FrameBecomesType ==
    ASSUME TypeOK, NEW f \in Frames, FrameBecomes(f),
           toFrame' \in Seq(ToFrame), toHost' \in Seq(ToHost)
    PROVE  TypeOK'
BY DEF TypeOK, FrameBecomes, stage, probe

(* What the frame is after a message of the host. *)
LEMMA ToldType ==
    ASSUME TypeOK, NEW m \in ToFrame
    PROVE  Told(m) \in Frames
<1>1. /\ frame \in Frames /\ frame.state \in Views /\ frame.pending \in SUBSET Calls
  BY DEF TypeOK, Frames
<1>2. CASE m.kind = "load"
  BY <1>1, <1>2, Fields DEF Told, Frames
<1>3. CASE m.kind = "snapshot"
  <2>1. m.values \in Version /\ m.values.revision \in 0..MaxRevision
    BY <1>3, Fields, Limits DEF Version
  <2>2. [values |-> m.values, revision |-> m.values.revision, stale |-> FALSE] \in Views
    BY <2>1 DEF Views
  <2>3. Told(m) = [frame EXCEPT !.state = [values |-> m.values, revision |-> m.values.revision,
                                           stale |-> FALSE]]
    BY <1>3 DEF Told
  <2> QED BY <1>1, <2>2, <2>3 DEF Frames
<1>4. CASE m.kind = "stale"
  <2>1. m.revision \in 0..MaxRevision
    BY <1>4, Fields, Limits
  <2>2. [frame.state EXCEPT !.revision = m.revision, !.stale = TRUE] \in Views
    BY <1>1, <2>1 DEF Views
  <2>3. Told(m) = [frame EXCEPT !.state = [frame.state EXCEPT !.revision = m.revision,
                                                              !.stale = TRUE]]
    BY <1>1, <1>4 DEF Told, Frames
  <2> QED BY <1>1, <2>2, <2>3 DEF Frames
<1>5. CASE m.kind = "settled"
  <2>1. Told(m) = [frame EXCEPT !.pending = frame.pending \ {m.id}]
    BY <1>1, <1>5 DEF Told, Frames
  <2> QED BY <1>1, <2>1 DEF Frames
<1>6. CASE m.kind = "ping"
  BY <1>1, <1>6 DEF Told
<1> QED BY <1>2, <1>3, <1>4, <1>5, <1>6, Fields

(* Every other step of the host, of the stage and of the frame. *)
LEMMA BindsType == TypeOK /\ Binds => TypeOK'
<1> SUFFICES ASSUME TypeOK, Binds PROVE TypeOK'
  OBVIOUS
<1> DEFINE view == IF initialState = None THEN NoView
                   ELSE [values |-> VersionOf(initialState), revision |-> initialState.revision,
                         stale |-> initialState.stale]
<1>1. view \in Views
  BY MessageTypes, StateTypes DEF TypeOK
<1> HIDE DEF view
<1>2. [kind |-> "load", state |-> view] \in ToFrame
  BY <1>1, MessageTypes
<1>3. <<[kind |-> "load", state |-> view]>> \in Seq(ToFrame)
  BY <1>2
<1>4. toFrame' = <<[kind |-> "load", state |-> view]>>
  BY DEF Binds, view
<1> QED BY <1>3, <1>4 DEF TypeOK, Binds, probe

LEMMA HeartbeatType == TypeOK /\ Heartbeat => TypeOK'
<1> SUFFICES ASSUME TypeOK, Heartbeat PROVE TypeOK'
  OBVIOUS
<1>1. CASE Settles("crashed")
  BY <1>1, SettlesType
<1>2. CASE /\ ~MissedTooMany /\ missed' = missed + 1
           /\ UNCHANGED <<stage, lifecycle, publishedRevision, pendingProbe, calls, toFrame,
                          toHost, frame>>
  <2>1. missed' \in 0..(missedHeartbeats - 1)
    BY <1>2, Limits DEF TypeOK, MissedTooMany
  <2> QED BY <1>2, <2>1 DEF TypeOK, stage
<1>3. CASE /\ pendingProbe' = TRUE /\ toFrame' = Append(toFrame, [kind |-> "ping"])
           /\ UNCHANGED <<stage, lifecycle, publishedRevision, missed, calls, toHost, frame>>
  <2>1. toFrame' \in Seq(ToFrame)
    BY <1>3, MessageTypes, Queued, Zenon DEF TypeOK
  <2> QED BY <1>3, <2>1 DEF TypeOK, stage
<1> QED BY <1>1, <1>2, <1>3, Zenon DEF Heartbeat

LEMMA CallsFinite ==
    ASSUME TypeOK
    PROVE  IsFiniteSet(calls) /\ Cardinality(calls) \in Nat
<1>1. IsFiniteSet(1..MaxCalls)
  BY Limits, FS_Interval
<1>2. calls \subseteq 1..MaxCalls
  BY DEF Calls, TypeOK
<1>3. IsFiniteSet(calls)
  BY <1>1, <1>2, FS_Subset
<1> QED BY <1>3, FS_CardinalityType

LEMMA HostHearsType == TypeOK /\ HostHears => TypeOK'
<1> SUFFICES ASSUME TypeOK, HostHears PROVE TypeOK'
  OBVIOUS
<1>0. toFrame \in Seq(ToFrame) /\ toHost \in Seq(ToHost)
  BY DEF TypeOK
<1>a. ASSUME NEW kind, Hears(kind)
      PROVE  toHost' \in Seq(ToHost) /\ Head(toHost) \in ToHost /\ Head(toHost).kind = kind
  BY <1>0, <1>a, Taken DEF Hears
<1>1. CASE HostReady
  BY <1>1, <1>a DEF HostReady, TypeOK, stage, probe
<1>2. CASE HostCrash
  BY <1>2, SettlesType DEF HostCrash
<1>3. CASE HostPong
  <2>1. 0 \in 0..(missedHeartbeats - 1)
    BY Limits
  <2> QED BY <1>3, <1>a, <2>1 DEF HostPong, TypeOK, stage
<1>4. CASE startCall
  <2> DEFINE i == Head(toHost).id
  <2>1. toHost' \in Seq(ToHost) /\ i \in Calls
    BY <1>4, <1>a DEF startCall, ToHost
  <2>2. CASE calls' = calls \cup {i} /\ UNCHANGED toFrame /\ Cardinality(calls) < outstandingCalls
    <3> HIDE DEF i
    <3>1. IsFiniteSet(calls) /\ Cardinality(calls) \in Nat
      BY CallsFinite
    <3>2. Cardinality(calls \cup {i}) <= outstandingCalls
      <4>1. CASE i \in calls
        <5>1. calls \cup {i} = calls
          BY <4>1
        <5> QED BY <2>2, <3>1, <5>1, Limits
      <4>2. CASE i \notin calls
        <5>1. Cardinality(calls \cup {i}) = Cardinality(calls) + 1
          BY <3>1, <4>2, FS_AddElement
        <5> QED BY <2>2, <3>1, <5>1, Limits
      <4> QED BY <4>1, <4>2
    <3>3. calls' \in SUBSET Calls /\ Cardinality(calls') <= outstandingCalls
      BY <2>1, <2>2, <3>2 DEF TypeOK
    <3> QED BY <1>4, <2>1, <2>2, <3>3 DEF startCall, TypeOK, stage, probe
  <2>3. CASE Refuses(i) /\ UNCHANGED calls
    <3>1. [kind |-> "settled", id |-> i] \in ToFrame
      BY <2>1, MessageTypes
    <3>2. toFrame' \in Seq(ToFrame)
      BY <1>0, <2>3, <3>1, Queued, Zenon DEF Refuses
    <3> QED BY <1>4, <2>1, <2>3, <3>2 DEF startCall, TypeOK, stage, probe
  <2> QED BY <1>4, <2>2, <2>3, Zenon DEF startCall
<1> QED BY <1>1, <1>2, <1>3, <1>4 DEF HostHears

LEMMA SettleCallType ==
    ASSUME TypeOK, NEW i \in Calls, settleCall(i)
    PROVE  TypeOK'
<1>1. toFrame' \in Seq(ToFrame)
  BY MessageTypes, Queued, Zenon DEF settleCall, TypeOK
<1>2. IsFiniteSet(calls) /\ i \in calls
  BY CallsFinite DEF settleCall
<1>3. /\ IsFiniteSet(calls \ {i})
      /\ Cardinality(calls \ {i}) = Cardinality(calls) - 1
      /\ Cardinality(calls) \in Nat
  BY <1>2, FS_RemoveElement, FS_CardinalityType
<1>4. calls' \in SUBSET Calls /\ Cardinality(calls') <= outstandingCalls
  <2>1. calls' = calls \ {i} /\ calls \in SUBSET Calls /\ Cardinality(calls) <= outstandingCalls
    BY DEF settleCall, TypeOK
  <2>2. Cardinality(calls) - 1 <= outstandingCalls
    BY <1>3, <2>1, Limits
  <2> QED BY <1>3, <2>1, <2>2
<1> QED BY <1>1, <1>4 DEF settleCall, TypeOK, stage, probe

LEMMA StageType ==
    ASSUME TypeOK, ShowsLifecycle \/ \E s \in HomeStates : HomeReports(s)
    PROVE  TypeOK'
<1>1. CASE ShowsLifecycle
  <2>1. toFrame' \in Seq(ToFrame) /\ publishedRevision' \in 0..MaxRevision
    BY <1>1, PublishType DEF ShowsLifecycle, TypeOK
  <2> QED BY <1>1, <2>1 DEF ShowsLifecycle, TypeOK, probe
<1>2. ASSUME NEW s \in HomeStates, HomeReports(s) PROVE TypeOK'
  <2>1. toFrame' \in Seq(ToFrame) /\ publishedRevision' \in 0..MaxRevision
    BY <1>2, PublishType DEF HomeReports
  <2> QED BY <1>2, <2>1 DEF HomeReports, TypeOK, probe
<1> QED BY <1>1, <1>2

FrameStep ==
    FrameAnnounces \/ FrameHears \/ Verified \/ ready \/ crash \/ HouseCalls \/ HouseFreezes

LEMMA FrameStepType == TypeOK /\ FrameStep => TypeOK'
<1> SUFFICES ASSUME TypeOK, FrameStep PROVE TypeOK'
  OBVIOUS
<1>0. frame \in Frames /\ toFrame \in Seq(ToFrame) /\ toHost \in Seq(ToHost)
  BY DEF TypeOK
<1>a. \A m \in ToHost : Append(toHost, m) \in Seq(ToHost)
  BY <1>0, Queued
<1>b. /\ \A p \in {"announced", "running"} : [frame EXCEPT !.phase = p] \in Frames
      /\ [frame EXCEPT !.readySent = TRUE] \in Frames
      /\ [frame EXCEPT !.frozen = TRUE] \in Frames
  BY <1>0 DEF Frames
<1>1. CASE FrameAnnounces
  BY <1>0, <1>1, <1>b, FrameBecomesType DEF FrameAnnounces
<1>2. CASE FrameHears
  <2>1. Head(toFrame) \in ToFrame /\ toFrame' \in Seq(ToFrame)
    BY <1>0, <1>2, Taken DEF FrameHears
  <2>2. toHost' \in Seq(ToHost)
    BY <1>0, <1>2, <1>a, MessageTypes DEF FrameHears
  <2>3. FrameBecomes(Told(Head(toFrame)))
    BY <1>2 DEF FrameHears
  <2> QED BY <2>1, <2>2, <2>3, ToldType, FrameBecomesType
<1>3. CASE Verified \/ ready \/ crash
  <2>1. toFrame' = toFrame /\ toHost' \in Seq(ToHost)
    BY <1>0, <1>3, <1>a, MessageTypes DEF Verified, ready, crash, Sends
  <2>2. \E f \in Frames : FrameBecomes(f)
    BY <1>3, <1>b DEF Verified, ready, crash
  <2> QED BY <1>0, <2>1, <2>2, FrameBecomesType
<1>4. CASE HouseCalls
  <2> DEFINE i == frame.asked + 1
  <2>1. /\ i \in Calls /\ FrameBecomes([frame EXCEPT !.asked = i, !.pending = @ \cup {i}])
        /\ Sends([kind |-> "call", id |-> i])
    BY <1>4 DEF HouseCalls
  <2>2. i \in 0..MaxCalls /\ frame.pending \in SUBSET Calls
    BY <1>0, <2>1, Limits DEF Calls, Frames
  <2> HIDE DEF i
  <2>3. [frame EXCEPT !.asked = i, !.pending = @ \cup {i}] \in Frames
    BY <1>0, <2>1, <2>2 DEF Frames
  <2>4. toFrame' = toFrame /\ toHost' \in Seq(ToHost)
    BY <2>1, <1>a, MessageTypes DEF Sends
  <2> QED BY <1>0, <2>1, <2>3, <2>4, FrameBecomesType
<1>5. CASE HouseFreezes
  BY <1>0, <1>5, <1>b, FrameBecomesType DEF HouseFreezes
<1> QED BY <1>1, <1>2, <1>3, <1>4, <1>5 DEF FrameStep

LEMMA InitType == Init => TypeOK
<1> SUFFICES ASSUME Init PROVE TypeOK
  OBVIOUS
<1>1. homeState \in HomeStates \cup {None} /\ initialState = homeState
  BY Limits DEF Init, HomeStates
<1>2. publishedRevision \in 0..MaxRevision
  BY <1>1, StateTypes, Limits DEF Init
<1>3. 0 \in 0..(missedHeartbeats - 1) /\ Cardinality({}) <= outstandingCalls
  BY FS_EmptySet, Limits
<1>4. <<>> \in Seq(ToFrame) /\ <<>> \in Seq(ToHost)
  OBVIOUS
<1> QED BY <1>1, <1>2, <1>3, <1>4, NewFrameType DEF Init, TypeOK

LEMMA TypeNext == TypeOK /\ [Next]_vars => TypeOK'
<1> SUFFICES ASSUME TypeOK, [Next]_vars PROVE TypeOK'
  OBVIOUS
<1>1. CASE UNCHANGED vars
  BY <1>1 DEF TypeOK, vars, stage, probe
<1>2. CASE dispose \/ FrameTimeout \/ BootTimeout \/ Navigates
  BY <1>2, SettlesType DEF dispose, FrameTimeout, BootTimeout, Navigates
<1> QED BY <1>1, <1>2, BindsType, HeartbeatType, HostHearsType, SettleCallType, StageType,
           FrameStepType DEF Next, FrameStep

(* Every prop, queue and record of an application has its type, its missed *)
(* probes stay below the limit and its outstanding calls within theirs.    *)
THEOREM TypeCorrect == Spec => []TypeOK
BY InitType, TypeNext, PTL DEF Spec

-----------------------------------------------------------------------------
(* What the house will see. *)

(* The messages that change what miakapp.state shows, and what each makes  *)
(* of it.                                                                  *)
Tells(m) == m.kind \in {"load", "snapshot", "stale"}

Agrees(view, s) ==
    /\ view.revision = s.revision
    /\ view.stale = s.stale
    /\ ~s.stale => view.values = VersionOf(s)

Says(m, s) ==
    \/ m.kind = "load" /\ Agrees(m.state, s)
    \/ m.kind = "snapshot" /\ ~s.stale /\ m.values = VersionOf(s)
    \/ m.kind = "stale" /\ s.stale /\ m.revision = s.revision

(* The last of them on its way to the frame. *)
LastTelling(q, i) ==
    /\ i \in DOMAIN q /\ Tells(q[i])
    /\ \A j \in DOMAIN q : j > i => ~Tells(q[j])

WillAgree(q, view, s) ==
    /\ \A i \in DOMAIN q : LastTelling(q, i) => Says(q[i], s)
    /\ (\A i \in DOMAIN q : ~Tells(q[i])) => Agrees(view, s)

(* The shell rendered the lifecycle, so its effects ran since it changed,  *)
(* and the home's revision is one the host publishes.                      *)
Due ==
    /\ Bridged /\ shownLifecycle = lifecycle
    /\ homeState # None /\ homeState.revision >= publishedRevision

FollowInv == Due => WillAgree(toFrame, frame.state, homeState)

(* The stage shows no lifecycle that is still to come. *)
ShownInv ==
    /\ lifecycle = "starting" => shownLifecycle = "starting"
    /\ lifecycle = "loading" => shownLifecycle \in {"starting", "loading"}

LEMMA Appended ==
    ASSUME NEW M, NEW q \in Seq(M), NEW m \in M
    PROVE  /\ DOMAIN Append(q, m) = DOMAIN q \cup {Len(q) + 1}
           /\ \A i \in DOMAIN q : Append(q, m)[i] = q[i] /\ i < Len(q) + 1
           /\ Append(q, m)[Len(q) + 1] = m
OBVIOUS

LEMMA Popped ==
    ASSUME NEW M, NEW q \in Seq(M), q # <<>>
    PROVE  /\ Head(q) = q[1] /\ 1 \in DOMAIN q
           /\ DOMAIN q \subseteq Nat \ {0}
           /\ \A i \in DOMAIN Tail(q) : i + 1 \in DOMAIN q /\ Tail(q)[i] = q[i + 1]
           /\ \A i \in DOMAIN q \ {1} : i - 1 \in DOMAIN Tail(q) /\ Tail(q)[i - 1] = q[i]
OBVIOUS

(* A message at the end of the queue has the last word if it tells at all. *)
LEMMA AddsTelling ==
    ASSUME NEW q \in Seq(ToFrame), NEW m \in ToFrame, Tells(m), NEW s, Says(m, s), NEW view
    PROVE  WillAgree(Append(q, m), view, s)
<1> DEFINE p == Append(q, m)
           n == Len(q) + 1
<1>1. /\ DOMAIN p = DOMAIN q \cup {n} /\ p[n] = m
      /\ \A i \in DOMAIN q : i < n
  BY Appended
<1> HIDE DEF p, n
<1>2. \A i \in DOMAIN p : LastTelling(p, i) => i = n
  BY <1>1 DEF LastTelling
<1> QED BY <1>1, <1>2 DEF WillAgree, p

LEMMA AddsOther ==
    ASSUME NEW q \in Seq(ToFrame), NEW m \in ToFrame, ~Tells(m), NEW s, NEW view,
           WillAgree(q, view, s)
    PROVE  WillAgree(Append(q, m), view, s)
<1> DEFINE p == Append(q, m)
           n == Len(q) + 1
<1>1. /\ DOMAIN p = DOMAIN q \cup {n} /\ p[n] = m
      /\ \A i \in DOMAIN q : p[i] = q[i]
  BY Appended
<1> HIDE DEF p, n
<1>2. \A i \in DOMAIN p : LastTelling(p, i) => LastTelling(q, i)
  BY <1>1 DEF LastTelling
<1> QED BY <1>1, <1>2 DEF WillAgree, p, LastTelling

(* Taking the first message: it is the last word only if none is left.     *)
LEMMA TakesFirst ==
    ASSUME NEW q \in Seq(ToFrame), q # <<>>, NEW s, NEW view, NEW next,
           WillAgree(q, view, s),
           Tells(Head(q)) /\ Says(Head(q), s) => Agrees(next, s),
           ~Tells(Head(q)) => next = view
    PROVE  WillAgree(Tail(q), next, s)
<1> DEFINE t == Tail(q)
<1>1. /\ Head(q) = q[1] /\ 1 \in DOMAIN q
      /\ DOMAIN q \subseteq Nat \ {0}
      /\ \A i \in DOMAIN t : i + 1 \in DOMAIN q /\ t[i] = q[i + 1]
      /\ \A i \in DOMAIN q \ {1} : i - 1 \in DOMAIN t /\ t[i - 1] = q[i]
      /\ DOMAIN t \subseteq Nat \ {0}
  <2>1. t \in Seq(ToFrame)
    BY Taken
  <2>2. DOMAIN t \subseteq Nat \ {0}
    BY <2>1
  <2> QED BY <2>2, Popped
<1> HIDE DEF t
<1>2. ASSUME NEW i \in DOMAIN t, LastTelling(t, i) PROVE Says(t[i], s)
  <2>1. i + 1 \in DOMAIN q /\ t[i] = q[i + 1] /\ Tells(q[i + 1]) /\ i \in Nat \ {0}
    BY <1>1, <1>2 DEF LastTelling
  <2>2. ASSUME NEW j \in DOMAIN q, j > i + 1 PROVE ~Tells(q[j])
    <3>1. j - 1 \in DOMAIN t /\ t[j - 1] = q[j] /\ j - 1 > i
      BY <1>1, <2>1, <2>2
    <3> QED BY <1>2, <3>1 DEF LastTelling
  <2>3. LastTelling(q, i + 1)
    BY <2>1, <2>2 DEF LastTelling
  <2> QED BY <2>1, <2>3 DEF WillAgree
<1>3. ASSUME \A i \in DOMAIN t : ~Tells(t[i]) PROVE Agrees(next, s)
  <2>1. \A i \in DOMAIN q \ {1} : ~Tells(q[i])
    BY <1>1, <1>3
  <2>2. CASE Tells(q[1])
    <3>1. LastTelling(q, 1)
      BY <1>1, <2>1, <2>2 DEF LastTelling
    <3> QED BY <1>1, <2>2, <3>1 DEF WillAgree
  <2>3. CASE ~Tells(q[1])
    <3>1. Agrees(view, s)
      BY <2>1, <2>3 DEF WillAgree
    <3> QED BY <1>1, <2>3, <3>1
  <2> QED BY <2>2, <2>3
<1> QED BY <1>2, <1>3 DEF WillAgree, t

(* Publishing a state the host takes makes it the last word. *)
LEMMA Publishes ==
    ASSUME TypeOK, NEW s \in HomeStates, publishState(s), s # None, Bridged,
           s.revision >= publishedRevision, NEW view
    PROVE  WillAgree(toFrame', view, s)
<1>0. /\ toFrame \in Seq(ToFrame) /\ VersionOf(s) \in Version /\ s.stale \in BOOLEAN
      /\ s.revision \in 1..MaxRevision
  BY StateTypes DEF TypeOK
<1>1. CASE s.stale
  <2> DEFINE m == [kind |-> "stale", revision |-> s.revision]
  <2>1. m \in ToFrame /\ Tells(m) /\ Says(m, s)
    BY <1>0, <1>1, MessageTypes DEF Tells, Says
  <2>2. toFrame' = Append(toFrame, m)
    BY <1>1 DEF publishState
  <2> HIDE DEF m
  <2> QED BY <1>0, <2>1, <2>2, AddsTelling
<1>2. CASE ~s.stale
  <2> DEFINE m == [kind |-> "snapshot", values |-> VersionOf(s)]
  <2>1. m \in ToFrame /\ Tells(m) /\ Says(m, s)
    BY <1>0, <1>2, MessageTypes DEF Tells, Says
  <2>2. toFrame' = Append(toFrame, m)
    BY <1>2 DEF publishState
  <2> HIDE DEF m
  <2> QED BY <1>0, <2>1, <2>2, AddsTelling
<1> QED BY <1>1, <1>2

(* A message that was heard shows the state it told. *)
LEMMA ToldAgrees ==
    ASSUME TypeOK, NEW m \in ToFrame
    PROVE  /\ \A s \in HomeStates : Tells(m) /\ Says(m, s) => Agrees(Told(m).state, s)
           /\ ~Tells(m) => Told(m).state = frame.state
<1>1. frame \in Frames /\ frame.state \in Views
  BY DEF TypeOK, Frames
<1>2. CASE m.kind = "load"
  <2>1. Told(m).state = m.state
    BY <1>1, <1>2 DEF Told, Frames
  <2> QED BY <1>2, <2>1 DEF Tells, Says
<1>3. CASE m.kind = "snapshot"
  <2>1. Told(m).state = [values |-> m.values, revision |-> m.values.revision, stale |-> FALSE]
    BY <1>1, <1>3 DEF Told, Frames
  <2>2. ASSUME NEW s \in HomeStates, Says(m, s) PROVE Agrees(Told(m).state, s)
    <3>1. s.stale = FALSE /\ m.values = VersionOf(s)
      BY <1>3, <2>2, StateTypes DEF Says
    <3>2. m.values.revision = s.revision
      BY <3>1 DEF VersionOf
    <3>3. /\ Told(m).state.values = m.values /\ Told(m).state.revision = m.values.revision
          /\ Told(m).state.stale = FALSE
      BY <2>1
    <3> QED BY <3>1, <3>2, <3>3 DEF Agrees
  <2> QED BY <1>3, <2>2 DEF Tells
<1>4. CASE m.kind = "stale"
  <2>1. Told(m).state = [frame.state EXCEPT !.revision = m.revision, !.stale = TRUE]
    BY <1>1, <1>4 DEF Told, Frames
  <2>2. Told(m).state.revision = m.revision /\ Told(m).state.stale = TRUE
    BY <1>1, <2>1 DEF Views
  <2>3. ASSUME NEW s \in HomeStates, Says(m, s) PROVE Agrees(Told(m).state, s)
    BY <1>4, <2>2, <2>3 DEF Says, Agrees
  <2> QED BY <1>4, <2>3 DEF Tells
<1>5. CASE m.kind \in {"settled", "ping"}
  <2>1. Told(m).state = frame.state
    BY <1>1, <1>5 DEF Told, Frames
  <2> QED BY <1>5, <2>1 DEF Tells
<1> QED BY <1>2, <1>3, <1>4, <1>5, Fields

LEMMA ShownNext == TypeOK /\ ShownInv /\ [Next]_vars => ShownInv'
<1> SUFFICES ASSUME TypeOK, ShownInv, [Next]_vars PROVE ShownInv'
  OBVIOUS
<1>1. CASE UNCHANGED <<lifecycle, shownLifecycle>>
  BY <1>1 DEF ShownInv
<1>2. ASSUME NEW next \in {"crashed", "disposed"}, Settles(next) PROVE ShownInv'
  BY <1>2 DEF Settles, ShownInv
<1>3. CASE Binds
  BY <1>3 DEF Binds, ShownInv
<1>4. CASE HostReady
  BY <1>4 DEF HostReady, ShownInv
<1>5. CASE ShowsLifecycle
  BY <1>5 DEF ShowsLifecycle, ShownInv
<1> QED BY <1>1, <1>2, <1>3, <1>4, <1>5, Zenon
        DEF Next, vars, stage, dispose, FrameTimeout, BootTimeout, Navigates, Heartbeat,
            HostHears, HostCrash, HostPong, startCall, settleCall, HomeReports, FrameBecomes,
            FrameAnnounces, FrameHears, Verified, ready, crash, HouseCalls, HouseFreezes

(* Steps that neither change what is due nor the view, and send nothing    *)
(* that tells.                                                             *)
SameWord ==
    /\ UNCHANGED <<homeState, shownLifecycle, lifecycle, publishedRevision>>
    /\ frame'.state = frame.state
    /\ \/ UNCHANGED toFrame
       \/ \E m \in ToFrame : ~Tells(m) /\ toFrame' = Append(toFrame, m)

LEMMA SameWordFollows ==
    ASSUME TypeOK, FollowInv, SameWord
    PROVE  FollowInv'
<1>1. Due' <=> Due
  BY DEF SameWord, Due, Bridged
<1>2. ASSUME Due PROVE WillAgree(toFrame', frame'.state, homeState')
  BY <1>2, AddsOther DEF FollowInv, SameWord, TypeOK
<1> QED BY <1>1, <1>2 DEF FollowInv

LEMMA FollowNext == TypeOK /\ ShownInv /\ FollowInv /\ [Next]_vars => FollowInv'
<1> SUFFICES ASSUME TypeOK, ShownInv, FollowInv, [Next]_vars PROVE FollowInv'
  OBVIOUS
<1>0. /\ frame \in Frames /\ toFrame \in Seq(ToFrame) /\ toHost \in Seq(ToHost)
      /\ [kind |-> "ping"] \in ToFrame /\ ~Tells([kind |-> "ping"])
      /\ \A i \in Calls : [kind |-> "settled", id |-> i] \in ToFrame
      /\ \A i : ~Tells([kind |-> "settled", id |-> i])
  BY MessageTypes DEF TypeOK, Tells
<1>1. CASE UNCHANGED vars
  BY <1>1 DEF vars, stage, FollowInv, Due, Bridged
<1>2. ASSUME NEW next \in {"crashed", "disposed"}, Settles(next) PROVE FollowInv'
  BY <1>2 DEF Settles, FollowInv, Due, Bridged
<1>3. CASE Binds
  BY <1>3 DEF Binds, ShownInv, FollowInv, Due
<1>4. CASE Heartbeat /\ ~Settles("crashed")
  <2>1. SameWord
    BY <1>0, <1>4 DEF Heartbeat, SameWord, stage
  <2> QED BY <2>1, SameWordFollows
<1>5. CASE HostReady
  <2>1. CASE lifecycle = "active"
    <3>1. SameWord
      BY <1>5, <2>1 DEF HostReady, SameWord, stage
    <3> QED BY <3>1, SameWordFollows
  <2>2. CASE lifecycle = "loading"
    BY <1>5, <2>2 DEF HostReady, ShownInv, FollowInv, Due, stage
  <2> QED BY <1>5, <2>1, <2>2 DEF HostReady, Hears, Bridged
<1>6. CASE HostPong
  <2>1. SameWord
    BY <1>6 DEF HostPong, SameWord, stage
  <2> QED BY <2>1, SameWordFollows
<1>7. CASE startCall
  <2>1. Head(toHost).id \in Calls
    BY <1>0, <1>7, Taken DEF startCall, Hears, ToHost
  <2>2. SameWord
    BY <1>0, <1>7, <2>1 DEF startCall, Refuses, SameWord, stage
  <2> QED BY <2>2, SameWordFollows
<1>8. ASSUME NEW i \in Calls, settleCall(i) PROVE FollowInv'
  <2>1. SameWord
    BY <1>0, <1>8 DEF settleCall, SameWord, stage
  <2> QED BY <2>1, SameWordFollows
<1>9. ASSUME NEW s \in HomeStates, HomeReports(s) PROVE FollowInv'
  <2>1. SUFFICES ASSUME Due' PROVE WillAgree(toFrame', frame'.state, homeState')
    BY DEF FollowInv
  <2>2. /\ homeState' = s /\ publishState(s) /\ UNCHANGED <<lifecycle, frame>>
    BY <1>9 DEF HomeReports
  <2>3. s # None /\ Bridged /\ s.revision >= publishedRevision'
    BY <2>1, <2>2 DEF Due, Bridged
  <2>4. s.revision >= publishedRevision
    BY <2>2, <2>3 DEF publishState
  <2> QED BY <2>2, <2>3, <2>4, Publishes
<1>10. CASE ShowsLifecycle
  <2>1. SUFFICES ASSUME Due' PROVE WillAgree(toFrame', frame'.state, homeState')
    BY DEF FollowInv
  <2>2. publishState(homeState) /\ UNCHANGED <<homeState, lifecycle, frame>>
    BY <1>10 DEF ShowsLifecycle
  <2>3. homeState # None /\ Bridged /\ homeState.revision >= publishedRevision'
    BY <2>1, <2>2 DEF Due, Bridged
  <2>4. homeState.revision >= publishedRevision /\ homeState \in HomeStates
    <3>1. homeState \in HomeStates
      BY <2>3 DEF TypeOK
    <3>2. homeState.revision >= publishedRevision
      BY <2>2, <2>3 DEF publishState
    <3> QED BY <3>1, <3>2
  <2>5. \A view : WillAgree(toFrame', view, homeState)
    BY <2>2, <2>3, <2>4, Publishes
  <2> QED BY <2>2, <2>5
<1>11. CASE FrameHears
  <2> DEFINE m == Head(toFrame)
  <2>1. /\ toFrame # <<>> /\ toFrame' = Tail(toFrame) /\ frame' = Told(m)
        /\ UNCHANGED <<homeState, shownLifecycle, lifecycle, publishedRevision>>
    BY <1>11 DEF FrameHears, FrameBecomes, stage
  <2>2. m \in ToFrame
    BY <1>0, <2>1, Taken
  <2>3. /\ \A s \in HomeStates : Tells(m) /\ Says(m, s) => Agrees(Told(m).state, s)
        /\ ~Tells(m) => Told(m).state = frame.state
    BY <2>2, ToldAgrees
  <2>4. Due => WillAgree(Tail(toFrame), Told(m).state, homeState)
    <3> SUFFICES ASSUME Due PROVE WillAgree(Tail(toFrame), Told(m).state, homeState)
      OBVIOUS
    <3>1. homeState \in HomeStates /\ WillAgree(toFrame, frame.state, homeState)
      BY DEF Due, TypeOK, FollowInv
    <3> QED BY <1>0, <2>1, <2>3, <3>1, TakesFirst
  <2>5. Due' <=> Due
    BY <2>1 DEF Due, Bridged
  <2> QED BY <2>1, <2>4, <2>5 DEF FollowInv
<1>12. CASE FrameAnnounces \/ Verified \/ ready \/ crash \/ HouseCalls \/ HouseFreezes
  <2>1. UNCHANGED toFrame
    BY <1>12 DEF FrameAnnounces, Verified, ready, crash, HouseCalls, HouseFreezes, Sends
  <2>2. /\ UNCHANGED <<homeState, shownLifecycle, lifecycle, publishedRevision>>
        /\ frame'.state = frame.state
    BY <1>0, <1>12 DEF FrameAnnounces, Verified, ready, crash, HouseCalls, HouseFreezes,
                       FrameBecomes, Frames, stage
  <2> QED BY <2>1, <2>2, SameWordFollows DEF SameWord
<1> QED BY <1>1, <1>2, <1>3, <1>4, <1>5, <1>6, <1>7, <1>8, <1>9, <1>10, <1>11, <1>12, Zenon
        DEF Next, dispose, FrameTimeout, BootTimeout, Navigates, HostHears, HostCrash

(* Once the messages on their way have arrived, the house sees the state   *)
(* of its home, whenever the home changed while the application opened,    *)
(* verified its artifact, or ran.                                          *)
THEOREM HouseSeesHome == Spec => []HouseFollowsHome
<1>1. Init => ShownInv /\ FollowInv
  BY DEF Init, ShownInv, FollowInv, Due, Bridged
<1>2. FollowInv => HouseFollowsHome
  BY DEF FollowInv, HouseFollowsHome, Quiet, Due, WillAgree, Agrees
<1> QED BY <1>1, <1>2, TypeCorrect, ShownNext, FollowNext, PTL DEF Spec
=============================================================================
