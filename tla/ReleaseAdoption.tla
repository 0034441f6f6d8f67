--------------------------- MODULE ReleaseAdoption ---------------------------
(***************************************************************************)
(* How the tabs of one browser adopt the interface a home publishes        *)
(* (src/app/component-release.ts over component-runtime/src/release-state. *)
(* ts and artifact-cache.ts).  An attempt is one call of activate: it      *)
(* reads the live pointer, accepts it in the release ledger, loads the     *)
(* artifact from the cache or the network, and marks it known good or      *)
(* falls back.  Attempts of all tabs, and an attempt the shell has given   *)
(* up together with its successor, share the ledger and the cache in       *)
(* IndexedDB, whose readwrite transactions are serialized.                 *)
(*                                                                         *)
(* The publishing side is PublishedInterface, which ComponentPublication   *)
(* implements: the live pointer may move at any time.                      *)
(*                                                                         *)
(* A definition whose name begins with Wrong is a deliberately faulty      *)
(* variant of the one after it, for checking that a property can fail.     *)
(***************************************************************************)
EXTENDS Naturals

CONSTANTS
    Home, Digests, Bindings, None,
    Attempts,        \* concurrent calls of activate
    Denied,          \* quarantinedDigests of the coordinators
    MaxGeneration    \* bound: greatest generation published

Generations == 1..MaxGeneration

ASSUME AdoptionAssumption ==
    /\ None \notin Digests \cup Bindings
    /\ Denied \subseteq Digests
    /\ MaxGeneration \in Nat

VARIABLES
    released, live, quarantined,   \* the publishing side
    everLive,    \* history: every pointer that was ever live
    highest,     \* highest_accepted
    good,        \* last_known_good
    cache,       \* [Digests -> what the artifact cache holds]
    attempt,     \* [Attempts -> the local variables of a call of activate]
    verified     \* history: pointers whose bytes some attempt has verified

Publication == INSTANCE PublishedInterface WITH Homes <- {Home}

ledger    == <<highest, good>>
published == <<released, live, quarantined, everLive>>
vars      == <<published, ledger, cache, attempt, verified>>

Pointers  == [gen: Generations, digest: Digests, binding: Bindings]
NoPointer == Publication!Nothing
AnyPointer == Pointers \cup {NoPointer}

Answers == {"active", "unpublished", "unreachable", "refused", "denied", "unloadable"}
Loading == {"get", "evict", "fetch", "put", "mark"}
Steps   == {"read", "accept", "fallback"} \cup Loading

(* candidate is the pointer read, target the one being loaded (candidate or *)
(* fallback), bytes what was loaded, floor history: the generation known    *)
(* good when the attempt began.                                             *)
AttemptRecord ==
    [pc: {"idle"} \cup Steps \cup Answers, candidate: AnyPointer, target: AnyPointer,
     bytes: {"none", "sound", "corrupt"}, floor: Generations \cup {0}]

Idle == [pc |-> "idle", candidate |-> NoPointer, target |-> NoPointer,
         bytes |-> "none", floor |-> 0]

TypeOK ==
    /\ released \in [{Home} -> [Digests -> Bindings \cup {None}]]
    /\ live \in [{Home} -> AnyPointer] /\ quarantined \in SUBSET Digests
    /\ everLive \in SUBSET Pointers
    /\ highest \in AnyPointer /\ good \in AnyPointer
    /\ cache \in [Digests -> {"none", "sound", "corrupt"}]
    /\ attempt \in [Attempts -> AttemptRecord]
    /\ \A a \in Attempts :
          attempt[a].pc \in Steps \ {"read"} => attempt[a].candidate \in Pointers
    /\ \A a \in Attempts :
          attempt[a].pc \in Loading => attempt[a].target \in Pointers
    /\ verified \in SUBSET Pointers

Init ==
    /\ Publication!Init
    /\ everLive = {}
    /\ highest = NoPointer /\ good = NoPointer
    /\ cache = [d \in Digests |-> "none"]
    /\ attempt = [a \in Attempts |-> Idle]
    /\ verified = {}

-----------------------------------------------------------------------------
(* The home publishes. *)
Publish ==
    /\ Publication!Next
    /\ everLive' = everLive \cup ({live'[Home]} \ {NoPointer})
    /\ UNCHANGED <<ledger, cache, attempt, verified>>

At(a, pc) == attempt[a].pc = pc
Goes(a, pc) == attempt' = [attempt EXCEPT ![a] = [@ EXCEPT !.pc = pc]]

(* Attempt a sets out to load p. *)
Loads(a, p) == attempt' = [attempt EXCEPT ![a] = [@ EXCEPT !.pc = "get", !.target = p]]

(* Attempt a holds these bytes and goes on at pc. *)
Holds(a, bytes, pc) == attempt' = [attempt EXCEPT ![a] = [@ EXCEPT !.pc = pc, !.bytes = bytes]]

Begin(a) ==
    /\ attempt[a].pc \in {"idle"} \cup Answers
    /\ attempt' = [attempt EXCEPT ![a] = [Idle EXCEPT !.pc = "read", !.floor = good.gen]]
    /\ UNCHANGED <<published, ledger, cache, verified>>

(* The resident route answers with the pointer live at that moment; by the *)
(* time the answer is used another one may be live.                        *)
ReadPointer(a) ==
    /\ At(a, "read")
    /\ \/ /\ live[Home] = NoPointer
          /\ Goes(a, "unpublished")
       \/ /\ live[Home] # NoPointer
          /\ attempt' = [attempt EXCEPT ![a] =
                [@ EXCEPT !.pc = "accept", !.candidate = live[Home]]]
       \/ Goes(a, "unreachable")
    /\ UNCHANGED <<published, ledger, cache, verified>>

-----------------------------------------------------------------------------
(* The ledger. *)

WrongContradictsFloor(p) == p.gen <= highest.gen

(* A pointer below the accepted generation, or another one of the same. *)
ContradictsFloor(p) ==
    \/ p.gen < highest.gen
    \/ p.gen = highest.gen /\ p # highest

acceptReleaseCandidate(a) ==
    LET p == attempt[a].candidate IN
    /\ At(a, "accept")
    /\ \/ /\ ContradictsFloor(p)
          /\ Goes(a, "refused") /\ UNCHANGED highest
       \/ /\ ~ContradictsFloor(p) /\ p.digest \in Denied
          /\ Goes(a, "denied") /\ UNCHANGED highest
       \/ /\ ~ContradictsFloor(p) /\ p.digest \notin Denied
          /\ highest' = p
          /\ Loads(a, p)
    /\ UNCHANGED <<published, good, cache, verified>>

WrongMarkReleaseActive(a) ==
    LET p == attempt[a].candidate IN
    /\ At(a, "mark")
    /\ good' = p /\ Goes(a, "active")
    /\ UNCHANGED <<published, highest, cache, verified>>

markReleaseActive(a) ==
    LET p == attempt[a].candidate IN
    /\ At(a, "mark")
    /\ \/ p # highest /\ Goes(a, "refused") /\ UNCHANGED good
       \/ p = highest /\ good' = p /\ Goes(a, "active")
    /\ UNCHANGED <<published, highest, cache, verified>>

(* The candidate could not be loaded.  The ledger is read outside the      *)
(* transaction that accepted the candidate, so it may have moved.          *)
automaticFallback(a) ==
    LET p == attempt[a].candidate IN
    /\ At(a, "fallback")
    /\ \/ p # highest /\ Goes(a, "refused")
       \/ /\ p = highest
          /\ good = NoPointer \/ good = p \/ good.digest \in Denied
          /\ Goes(a, "unloadable")
       \/ /\ p = highest
          /\ good # NoPointer /\ good # p /\ good.digest \notin Denied
          /\ Loads(a, good)
    /\ UNCHANGED <<published, ledger, cache, verified>>

-----------------------------------------------------------------------------
(* Loading: loadVerifiedArtifact of the target. *)

(* Where a load that succeeded, or failed, leads. *)
Loaded(a) == IF attempt[a].target = attempt[a].candidate THEN "mark" ELSE "active"
NotLoaded(a) == IF attempt[a].target = attempt[a].candidate THEN "fallback" ELSE "unloadable"

WrongGetCached(a) ==
    LET d == attempt[a].target.digest IN
    /\ At(a, "get")
    /\ \/ /\ cache[d] # "none"
          /\ Holds(a, cache[d], Loaded(a))
          /\ verified' = verified \cup {attempt[a].target}
       \/ Goes(a, "fetch") /\ UNCHANGED verified
    /\ UNCHANGED <<published, ledger, cache>>

(* Cached bytes are verified again; a cache that fails counts as empty. *)
GetCached(a) ==
    LET d == attempt[a].target.digest IN
    /\ At(a, "get")
    /\ \/ /\ cache[d] = "sound"
          /\ Holds(a, "sound", Loaded(a))
          /\ verified' = verified \cup {attempt[a].target}
       \/ cache[d] = "corrupt" /\ Goes(a, "evict") /\ UNCHANGED verified
       \/ Goes(a, "fetch") /\ UNCHANGED verified
    /\ UNCHANGED <<published, ledger, cache>>

(* The corrupt bytes are deleted, unless the cache fails. *)
EvictCorrupt(a) ==
    LET d == attempt[a].target.digest IN
    /\ At(a, "evict")
    /\ cache' \in {[cache EXCEPT ![d] = "none"], cache}
    /\ Goes(a, "fetch")
    /\ UNCHANGED <<published, ledger, verified>>

(* The network delivers the released bytes, or nothing that verifies. *)
Fetch(a) ==
    /\ At(a, "fetch")
    /\ \/ /\ Holds(a, "sound", "put")
          /\ verified' = verified \cup {attempt[a].target}
       \/ Goes(a, NotLoaded(a)) /\ UNCHANGED verified
    /\ UNCHANGED <<published, ledger, cache>>

Put(a) ==
    LET d == attempt[a].target.digest IN
    /\ At(a, "put")
    /\ cache' \in {[cache EXCEPT ![d] = "sound"], cache}
    /\ Goes(a, Loaded(a))
    /\ UNCHANGED <<published, ledger, verified>>

(* The browser evicts cached bytes, or its storage damages them. *)
CacheDecays ==
    /\ \E d \in Digests :
          /\ cache[d] # "none"
          /\ cache' \in {[cache EXCEPT ![d] = "none"], [cache EXCEPT ![d] = "corrupt"]}
    /\ UNCHANGED <<published, ledger, attempt, verified>>

(* The tab is closed or reloaded. *)
Closed(a) ==
    /\ attempt[a].pc \in Steps
    /\ attempt' = [attempt EXCEPT ![a] = Idle]
    /\ UNCHANGED <<published, ledger, cache, verified>>

-----------------------------------------------------------------------------
Load(a) == GetCached(a) \/ EvictCorrupt(a) \/ Fetch(a) \/ Put(a)

Next ==
    \/ Publish \/ CacheDecays
    \/ \E a \in Attempts :
          \/ Begin(a) \/ ReadPointer(a) \/ Load(a) \/ Closed(a)
          \/ acceptReleaseCandidate(a) \/ markReleaseActive(a) \/ automaticFallback(a)

Spec == Init /\ [][Next]_vars

-----------------------------------------------------------------------------
(* Safety. *)

(* An attempt that begins after a release became known good never ends     *)
(* with an older one: not by a pointer read before, not by a fallback, and *)
(* however many tabs accept and mark releases meanwhile.                   *)
NeverBelowKnownGood ==
    \A a \in Attempts : At(a, "active") => attempt[a].target.gen >= attempt[a].floor

(* What is run is sound, and what is known good was verified by a tab:     *)
(* neither a damaged cache nor two tabs that repair it at once, nor an     *)
(* attempt overtaken between its load and its mark, changes that.          *)
OnlyVerifiedRuns ==
    /\ \A a \in Attempts : At(a, "active") =>
          attempt[a].bytes = "sound" /\ attempt[a].target \in verified
    /\ good # NoPointer => good \in verified

(* The floor of the ledger is a pointer the home did publish, and not one  *)
(* ahead of the live pointer, so a resident whose home publishes nothing   *)
(* new is never refused: only an attempt the home has overtaken since it   *)
(* read the pointer is, whatever the other tabs do.                        *)
RefusedOnlyIfOvertaken ==
    \A a \in Attempts : At(a, "refused") => attempt[a].candidate.gen < live[Home].gen

-----------------------------------------------------------------------------
Ledger == INSTANCE AdoptedRelease

(* The ledger implements AdoptedRelease: no interleaving of accepting,     *)
(* loading, marking and falling back lowers the accepted generation,       *)
(* replaces the release of a generation, or calls a release known good     *)
(* that is not the accepted one.                                           *)
ImplementsAdoptedRelease == Ledger!Spec
=============================================================================
