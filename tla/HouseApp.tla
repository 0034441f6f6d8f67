------------------------------ MODULE HouseApp ------------------------------
(***************************************************************************)
(* A home's own application, from its mount to its end: the stage of the   *)
(* shell that mounts it (src/app/house-shell.tsx), the host that watches   *)
(* it (mountHouseApp of component-runtime/src/app-host.ts), the bootstrap  *)
(* in its sandboxed frame (app-bootstrap.ts), and the house code, which is *)
(* external.  Host and bootstrap talk over the two directions of a         *)
(* MessageChannel, which keep their order.                                 *)
(*                                                                         *)
(* A change of the home's state makes React render and run the effects of  *)
(* the stage before the next event; the lifecycle a host reports is        *)
(* rendered in a task of its own, later.                                   *)
(*                                                                         *)
(* A definition whose name begins with Wrong is a deliberately faulty      *)
(* variant of the one after it, for checking that a property can fail.     *)
(***************************************************************************)
EXTENDS Naturals, Sequences, FiniteSets

CONSTANTS
    None,
    missedHeartbeats, outstandingCalls,   \* APP_LIMITS
    MaxEpoch,      \* bound: relay epochs, one more than its restarts
    MaxRevision,   \* bound: revisions of the home's state in an epoch
    MaxCalls,      \* bound: calls the house makes
    MaxQueue       \* bound: messages on their way to the frame when the home changes

ASSUME HouseAppAssumption ==
    /\ {missedHeartbeats, outstandingCalls, MaxEpoch, MaxRevision} \subseteq Nat \ {0}
    /\ MaxCalls \in Nat /\ MaxQueue \in Nat

VARIABLES
    homeState,          \* the stage's prop: the home's state, or None
    shownLifecycle,     \* the lifecycle the stage's last commit shows
    initialState,       \* homeState when the application was mounted, until it is sent
    lifecycle,
    publishedRevision,
    pendingProbe,       \* a ping is not answered yet
    missed,
    calls,              \* the calls that are passed on and not settled
    toFrame, toHost,
    frame               \* the bootstrap and its house

stage == <<homeState, shownLifecycle, initialState>>
probe == <<pendingProbe, missed>>
vars  == <<stage, lifecycle, publishedRevision, probe, calls, toFrame, toHost, frame>>

Calls == 1..MaxCalls
Ended == lifecycle \in {"crashed", "disposed"}

(* The channel is open, and with it the heartbeat runs. *)
Bridged == lifecycle \in {"loading", "active"}

(* The values of the home at a revision of a relay epoch. *)
Version == [epoch: 1..MaxEpoch, revision: 1..MaxRevision]

HomeStates == [epoch: 1..MaxEpoch, revision: 1..MaxRevision, stale: BOOLEAN]

(* What miakapp.state shows the house; values of None are no values yet. *)
Views == [values: Version \cup {None}, revision: 0..MaxRevision, stale: BOOLEAN]
NoView == [values |-> None, revision |-> 0, stale |-> TRUE]

VersionOf(s) == [epoch |-> s.epoch, revision |-> s.revision]

ToFrame ==
    [kind: {"load"}, state: Views] \cup [kind: {"snapshot"}, values: Version]
        \cup [kind: {"stale"}, revision: 1..MaxRevision]
        \cup [kind: {"settled"}, id: Calls] \cup [kind: {"ping"}]
ToHost == [kind: {"ready", "crash", "pong"}] \cup [kind: {"call"}, id: Calls]

(* verifying: app.load was taken and its digest is computed; running: the  *)
(* house's script is in the document.                                      *)
Frames == [phase: {"opening", "announced", "verifying", "running", "removed"},
           readySent: BOOLEAN, state: Views, pending: SUBSET Calls, asked: 0..MaxCalls,
           frozen: BOOLEAN]

NewFrame == [phase |-> "opening", readySent |-> FALSE, state |-> NoView,
             pending |-> {}, asked |-> 0, frozen |-> FALSE]

TypeOK ==
    /\ {homeState, initialState} \subseteq HomeStates \cup {None}
    /\ {lifecycle, shownLifecycle} \subseteq
          {"starting", "loading", "active", "crashed", "disposed"}
    /\ publishedRevision \in 0..MaxRevision
    /\ pendingProbe \in BOOLEAN /\ missed \in 0..(missedHeartbeats - 1)
    /\ calls \in SUBSET Calls /\ Cardinality(calls) <= outstandingCalls
    /\ toFrame \in Seq(ToFrame) /\ toHost \in Seq(ToHost)
    /\ frame \in Frames

Init ==
    /\ homeState \in [epoch: {1}, revision: 1..MaxRevision, stale: BOOLEAN] \cup {None}
    /\ initialState = homeState
    /\ lifecycle = "starting" /\ shownLifecycle = "starting"
    /\ publishedRevision = IF initialState = None THEN 0 ELSE initialState.revision
    /\ pendingProbe = FALSE /\ missed = 0 /\ calls = {}
    /\ toFrame = <<>> /\ toHost = <<>> /\ frame = NewFrame

-----------------------------------------------------------------------------
(* The host: mountHouseApp. *)

(* settle and cleanup: timers, calls, the port and the frame are gone. *)
Settles(next) ==
    /\ lifecycle' = next
    /\ pendingProbe' = FALSE /\ missed' = 0 /\ calls' = {}
    /\ toFrame' = <<>> /\ toHost' = <<>>
    /\ frame' = [NewFrame EXCEPT !.phase = "removed"]
    /\ UNCHANGED <<stage, publishedRevision>>

dispose        == ~Ended /\ Settles("disposed")
FrameTimeout   == lifecycle = "starting" /\ Settles("crashed")
BootTimeout    == lifecycle = "loading" /\ Settles("crashed")

(* The frame loads another document than the bootstrap. *)
Navigates == ~Ended /\ frame.phase # "opening" /\ Settles("crashed")

(* The frame has announced itself: bind, and load at once. *)
Binds ==
    /\ lifecycle = "starting" /\ frame.phase = "announced"
    /\ lifecycle' = "loading"
    /\ toFrame' = <<[kind |-> "load", state |->
            IF initialState = None THEN NoView
            ELSE [values |-> VersionOf(initialState), revision |-> initialState.revision,
                  stale |-> initialState.stale]]>>
    /\ initialState' = None
    /\ UNCHANGED <<homeState, shownLifecycle, publishedRevision, probe, calls, toHost,
                   frame>>

(* A probe that is not answered is repeated. *)
WrongHeartbeat ==
    /\ Bridged /\ Len(toFrame) <= MaxQueue
    /\ pendingProbe' = TRUE /\ toFrame' = Append(toFrame, [kind |-> "ping"])
    /\ UNCHANGED <<stage, lifecycle, publishedRevision, missed, calls, toHost, frame>>

(* A count that is one short. *)
WrongMissedTooMany == missed >= missedHeartbeats

MissedTooMany == missed + 1 >= missedHeartbeats

Heartbeat ==
    /\ Bridged
    /\ \/ /\ pendingProbe /\ MissedTooMany
          /\ Settles("crashed")
       \/ /\ pendingProbe /\ ~MissedTooMany
          /\ missed' = missed + 1
          /\ UNCHANGED <<stage, lifecycle, publishedRevision, pendingProbe, calls,
                         toFrame, toHost, frame>>
       \/ /\ ~pendingProbe
          /\ pendingProbe' = TRUE /\ toFrame' = Append(toFrame, [kind |-> "ping"])
          /\ UNCHANGED <<stage, lifecycle, publishedRevision, missed, calls, toHost, frame>>

(* The next message of the frame is m, and is taken. *)
Hears(kind) ==
    /\ Bridged /\ toHost # <<>> /\ Head(toHost).kind = kind
    /\ toHost' = Tail(toHost)

HostReady ==
    /\ Hears("ready")
    /\ lifecycle' = "active"
    /\ UNCHANGED <<stage, publishedRevision, probe, calls, toFrame, frame>>

HostCrash == Bridged /\ toHost # <<>> /\ Head(toHost).kind = "crash" /\ Settles("crashed")

HostPong ==
    /\ Hears("pong")
    /\ pendingProbe' = FALSE /\ missed' = 0
    /\ UNCHANGED <<stage, lifecycle, publishedRevision, calls, toFrame, frame>>

(* A call over the limit is dropped. *)
WrongRefuses(i) == UNCHANGED toFrame

(* A call over the limit is answered at once, as busy. *)
Refuses(i) == toFrame' = Append(toFrame, [kind |-> "settled", id |-> i])

(* A call of the house, which need not be ready yet. *)
startCall ==
    LET i == Head(toHost).id IN
    /\ Hears("call")
    /\ \/ /\ Cardinality(calls) < outstandingCalls
          /\ calls' = calls \cup {i}
          /\ UNCHANGED toFrame
       \/ /\ Cardinality(calls) >= outstandingCalls
          /\ Refuses(i)
          /\ UNCHANGED calls
    /\ UNCHANGED <<stage, lifecycle, publishedRevision, probe, frame>>

(* The shell's call() answers, refuses, or gives up when its time is over. *)
settleCall(i) ==
    /\ i \in calls
    /\ calls' = calls \ {i}
    /\ toFrame' = Append(toFrame, [kind |-> "settled", id |-> i])
    /\ UNCHANGED <<stage, lifecycle, publishedRevision, probe, toHost, frame>>

HostHears == HostReady \/ HostCrash \/ HostPong \/ startCall

-----------------------------------------------------------------------------
(* The stage: HouseAppStage. *)

(* Its session is there as soon as the frame is bound. *)
publishState(s) ==
    IF s # None /\ Bridged /\ s.revision >= publishedRevision
    THEN /\ publishedRevision' = s.revision
         /\ toFrame' = Append(toFrame,
                IF s.stale THEN [kind |-> "stale", revision |-> s.revision]
                ELSE [kind |-> "snapshot", values |-> VersionOf(s)])
    ELSE UNCHANGED <<publishedRevision, toFrame>>

(* What the shell learns of the home next: its first state, a later one of *)
(* the same epoch, that the connection is lost, or after a restart of the  *)
(* relay a state whose revisions begin again.                              *)
Follows(s) ==
    \/ homeState = None /\ s.epoch = 1
    \/ homeState # None /\ ~s.stale /\ s.epoch = homeState.epoch
       /\ s.revision >= homeState.revision
    \/ homeState # None /\ s = [homeState EXCEPT !.stale = TRUE]
    \/ homeState # None /\ homeState.stale /\ ~s.stale /\ s.epoch = homeState.epoch + 1

HomeReports(s) ==
    /\ ~Ended /\ Len(toFrame) < MaxQueue
    /\ s # homeState /\ Follows(s)
    /\ homeState' = s
    /\ publishState(s)
    /\ UNCHANGED <<shownLifecycle, initialState, lifecycle, probe, calls, toHost, frame>>

(* The effect that publishes does not depend on the lifecycle. *)
WrongShowsLifecycle ==
    /\ shownLifecycle # lifecycle
    /\ shownLifecycle' = lifecycle
    /\ UNCHANGED <<homeState, initialState, lifecycle, publishedRevision, probe, calls,
                   toFrame, toHost, frame>>

(* A new lifecycle is rendered, and the state is published once more. *)
ShowsLifecycle ==
    /\ shownLifecycle # lifecycle
    /\ shownLifecycle' = lifecycle
    /\ publishState(homeState)
    /\ UNCHANGED <<homeState, initialState, lifecycle, probe, calls, toHost, frame>>

-----------------------------------------------------------------------------
(* The frame: the bootstrap, and the house it runs. *)

FrameBecomes(f) ==
    /\ frame' = f
    /\ UNCHANGED <<stage, lifecycle, publishedRevision, probe, calls>>

FrameAnnounces ==
    /\ frame.phase = "opening"
    /\ FrameBecomes([frame EXCEPT !.phase = "announced"])
    /\ UNCHANGED <<toFrame, toHost>>

Sends(m) == toHost' = Append(toHost, m) /\ UNCHANGED toFrame

(* What a message of the host makes of miakapp.state and of the calls. *)
Told(m) ==
    CASE m.kind = "load" -> [frame EXCEPT !.phase = "verifying", !.state = m.state]
      [] m.kind = "snapshot" ->
            [frame EXCEPT !.state = [values |-> m.values, revision |-> m.values.revision,
                                     stale |-> FALSE]]
      [] m.kind = "stale" ->
            [frame EXCEPT !.state = [@ EXCEPT !.revision = m.revision, !.stale = TRUE]]
      [] m.kind = "settled" -> [frame EXCEPT !.pending = @ \ {m.id}]
      [] m.kind = "ping" -> frame

FrameHears ==
    /\ toFrame # <<>> /\ ~frame.frozen
    /\ FrameBecomes(Told(Head(toFrame)))
    /\ toFrame' = Tail(toFrame)
    /\ toHost' = IF Head(toFrame).kind = "ping" THEN Append(toHost, [kind |-> "pong"])
                 ELSE toHost

(* The digest is there: the script is installed, or the artifact refused. *)
Verified ==
    /\ frame.phase = "verifying" /\ ~frame.readySent
    /\ \/ /\ FrameBecomes([frame EXCEPT !.phase = "running"])
          /\ UNCHANGED <<toFrame, toHost>>
       \/ /\ FrameBecomes([frame EXCEPT !.readySent = TRUE])
          /\ Sends([kind |-> "crash"])

Runs == frame.phase = "running" /\ ~frame.frozen

(* The house calls ready(), or its script is loaded; nothing if it crashed. *)
ready ==
    /\ Runs /\ ~frame.readySent
    /\ FrameBecomes([frame EXCEPT !.readySent = TRUE])
    /\ Sends([kind |-> "ready"])

(* An error of the house before it is ready; later ones are its own. *)
crash ==
    /\ Runs /\ ~frame.readySent
    /\ FrameBecomes([frame EXCEPT !.readySent = TRUE])
    /\ Sends([kind |-> "crash"])

HouseCalls ==
    LET i == frame.asked + 1 IN
    /\ Runs /\ i \in Calls
    /\ FrameBecomes([frame EXCEPT !.asked = i, !.pending = @ \cup {i}])
    /\ Sends([kind |-> "call", id |-> i])

(* The house spins. *)
HouseFreezes ==
    /\ Runs
    /\ FrameBecomes([frame EXCEPT !.frozen = TRUE])
    /\ UNCHANGED <<toFrame, toHost>>

-----------------------------------------------------------------------------
Next ==
    \/ dispose \/ FrameTimeout \/ BootTimeout \/ Navigates \/ Binds \/ Heartbeat
    \/ HostHears \/ \E i \in Calls : settleCall(i)
    \/ \E s \in HomeStates : HomeReports(s)
    \/ ShowsLifecycle
    \/ FrameAnnounces \/ FrameHears \/ Verified \/ ready \/ crash
    \/ HouseCalls \/ HouseFreezes

(* Timers that are armed fire, messages are delivered to a frame that does *)
(* not spin, and a call that was passed on comes to an end.                *)
Fairness ==
    /\ WF_vars(FrameTimeout) /\ WF_vars(BootTimeout) /\ WF_vars(Heartbeat)
    /\ WF_vars(HostHears) /\ WF_vars(FrameHears)
    /\ \A i \in Calls : WF_vars(settleCall(i))

Spec == Init /\ [][Next]_vars /\ Fairness

-----------------------------------------------------------------------------
(* Safety. *)

(* Nothing that could change what the house sees is on its way. *)
Quiet == /\ Bridged /\ toFrame = <<>> /\ shownLifecycle = lifecycle

(* The house sees the home as the shell does once messages have arrived,   *)
(* whenever the home changed: while the frame opened, between bind and the *)
(* digest, or across a lost connection.  After a restart of the relay that *)
(* only holds once the new epoch's revision has caught up, see the README. *)
HouseFollowsHome ==
    Quiet /\ homeState # None /\ homeState.revision >= publishedRevision =>
        /\ frame.state.revision = homeState.revision
        /\ frame.state.stale = homeState.stale
        /\ ~homeState.stale => frame.state.values = VersionOf(homeState)

(* Progress. *)

(* A house that does not become ready, or stops answering, is removed: the *)
(* frame timer, the boot timer and the heartbeat leave no gap.             *)
SilentHouseIsRemoved ==
    (lifecycle \in {"starting", "loading"} \/ frame.frozen)
        ~> (Ended \/ (lifecycle = "active" /\ ~frame.frozen))

(* A call of the house is answered, at the limit of outstanding calls and  *)
(* before the house is ready as well, unless the house itself is gone.     *)
CallsAreAnswered ==
    \A i \in Calls : (i \in frame.pending) ~> (i \notin frame.pending \/ frame.frozen)
=============================================================================
