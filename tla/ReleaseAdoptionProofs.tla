----------------------- MODULE ReleaseAdoptionProofs -----------------------
(* Proofs of the safety properties of ReleaseAdoption and of the           *)
(* refinement of AdoptedRelease, for any number of attempts, releases and  *)
(* generations.                                                            *)
EXTENDS ReleaseAdoption, TLAPS

-----------------------------------------------------------------------------
(* The inductive invariant. *)

(* No order of acceptances and marks writes a record that the ledger itself *)
(* would refuse to read: the browser would be locked out of the home.      *)
LedgerStaysReadable ==
    /\ good.gen <= highest.gen
    /\ good.gen = highest.gen => good = highest

(* Where pointers come from: the home publishes one pointer per generation, *)
(* and the ledger only holds pointers that were live.                      *)
Provenance ==
    /\ \A p, q \in everLive : p.gen = q.gen => p = q
    /\ \A p \in everLive : p.gen <= live[Home].gen
    /\ {live[Home], highest, good} \subseteq everLive \cup {NoPointer}
    /\ good # NoPointer => good \in verified

(* What is true of an attempt at each of its steps. *)
Attempted(r) ==
    /\ {r.candidate, r.target} \subseteq everLive \cup {NoPointer}
    /\ r.floor <= good.gen
    /\ r.pc \in Loading \cup {"fallback"} => r.candidate.gen <= highest.gen
    /\ r.pc \in Loading \cup {"active"} => r.target.gen >= r.floor
    /\ r.pc \in {"put", "mark", "active"} => r.bytes = "sound" /\ r.target \in verified
    /\ r.pc = "mark" => r.target = r.candidate
    /\ r.pc = "refused" => r.candidate.gen < live[Home].gen

WellFormed(r) ==
    /\ r \in AttemptRecord
    /\ r.pc \in Steps \ {"read"} => r.candidate \in Pointers
    /\ r.pc \in Loading => r.target \in Pointers

IInv ==
    /\ TypeOK /\ Provenance /\ LedgerStaysReadable
    /\ \A a \in Attempts : Attempted(attempt[a])

-----------------------------------------------------------------------------
(* Pointers and records. *)

LEMMA PointerTypes ==
    /\ NoPointer.gen = 0 /\ NoPointer \notin Pointers
    /\ \A p \in AnyPointer : p.gen \in Nat /\ (p \in Pointers <=> p # NoPointer)
    /\ \A p \in Pointers : p.gen \in Generations /\ p.gen >= 1 /\ p.digest \in Digests
BY AdoptionAssumption
DEF NoPointer, Publication!Nothing, AnyPointer, Pointers, Generations

LEMMA IdleFormed == WellFormed(Idle)
BY DEF WellFormed, Idle, AttemptRecord, Steps, Answers, Loading, AnyPointer

LEMMA TypeOfAttempts ==
    ASSUME TypeOK
    PROVE  \A a \in Attempts : WellFormed(attempt[a])
BY DEF TypeOK, WellFormed

(* A step of attempt a leaves it in the record r. *)
LEMMA ReplacedTypes ==
    ASSUME TypeOK, NEW a \in Attempts, NEW r, WellFormed(r),
           attempt' = [attempt EXCEPT ![a] = r]
    PROVE  /\ attempt' \in [Attempts -> AttemptRecord]
           /\ \A b \in Attempts : attempt'[b].pc \in Steps \ {"read"}
                                    => attempt'[b].candidate \in Pointers
           /\ \A b \in Attempts : attempt'[b].pc \in Loading
                                    => attempt'[b].target \in Pointers
BY DEF TypeOK, WellFormed

LEMMA Replaced ==
    ASSUME TypeOK, NEW a \in Attempts, NEW r, WellFormed(r),
           attempt' = [attempt EXCEPT ![a] = r],
           Attempted(r)',
           \A q \in AttemptRecord : Attempted(q) => Attempted(q)',
           \A b \in Attempts : Attempted(attempt[b])
    PROVE  \A b \in Attempts : Attempted(attempt[b])'
<1> TAKE b \in Attempts
<1>1. CASE b = a
  <2>1. attempt'[b] = r
    BY <1>1 DEF TypeOK
  <2> QED BY <2>1 DEF Attempted
<1>2. CASE b # a
  <2>1. attempt'[b] = attempt[b] /\ attempt[b] \in AttemptRecord
    BY <1>2 DEF TypeOK
  <2>2. PICK q \in AttemptRecord : q = attempt[b]
    BY <2>1
  <2>3. Attempted(q)
    BY <2>2
  <2>4. Attempted(q)'
    BY <2>3
  <2> QED BY <2>1, <2>2, <2>4 DEF Attempted
<1> QED BY <1>1, <1>2

(* What holds of an attempt keeps holding while the home, the ledger and   *)
(* the cache move on without it.                                           *)
LEMMA Persists ==
    ASSUME TypeOK, TypeOK',
           everLive \subseteq everLive', verified \subseteq verified',
           good.gen <= good'.gen, highest.gen <= highest'.gen,
           live[Home].gen <= live'[Home].gen,
           NEW q \in AttemptRecord, Attempted(q)
    PROVE  Attempted(q)'
<1>1. /\ good.gen \in Nat /\ good'.gen \in Nat
      /\ highest.gen \in Nat /\ highest'.gen \in Nat
      /\ live[Home].gen \in Nat /\ live'[Home].gen \in Nat
  BY PointerTypes DEF TypeOK
<1>2. q.candidate.gen \in Nat /\ q.target.gen \in Nat /\ q.floor \in Nat
  BY PointerTypes DEF AttemptRecord, Generations
<1> QED BY <1>1, <1>2 DEF Attempted

-----------------------------------------------------------------------------
(* The home publishes. *)

LEMMA PublicationTypes ==
    ASSUME TypeOK, Publication!Next
    PROVE  /\ released' \in [{Home} -> [Digests -> Bindings \cup {None}]]
           /\ live' \in [{Home} -> AnyPointer] /\ quarantined' \in SUBSET Digests
           /\ \/ live'[Home] = live[Home]
              \/ live'[Home] \in Pointers /\ live'[Home].gen > live[Home].gen
<1> USE DEF TypeOK
<1>1. ASSUME NEW h \in {Home}, NEW d \in Digests, NEW b \in Bindings,
             Publication!Release(h, d, b)
      PROVE  /\ released' \in [{Home} -> [Digests -> Bindings \cup {None}]]
             /\ live' = live /\ quarantined' = quarantined
  BY <1>1 DEF Publication!Release
<1>2. ASSUME NEW h \in {Home}, NEW d \in Digests, NEW g \in Generations,
             Publication!Activate(h, d, g)
      PROVE  /\ released' = released /\ quarantined' = quarantined
             /\ live' \in [{Home} -> AnyPointer]
             /\ live'[Home] \in Pointers /\ live'[Home].gen > live[Home].gen
  <2> DEFINE p == [gen |-> g, digest |-> d, binding |-> released[h][d]]
  <2>1. p \in Pointers /\ p.gen = g
    BY <1>2 DEF Publication!Activate, Pointers
  <2>2. live' = [live EXCEPT ![h] = p] /\ g > live[h].gen
    BY <1>2 DEF Publication!Activate
  <2> HIDE DEF p
  <2> QED BY <1>2, <2>1, <2>2 DEF Publication!Activate, AnyPointer
<1>3. ASSUME NEW d \in Digests, Publication!Quarantine(d)
      PROVE  released' = released /\ live' = live /\ quarantined' \in SUBSET Digests
  BY <1>3 DEF Publication!Quarantine
<1> QED BY <1>1, <1>2, <1>3, Zenon DEF Publication!Next

LEMMA PublishKeeps ==
    ASSUME IInv, Publish
    PROVE  IInv'
<1> USE DEF IInv
<1>1. /\ Publication!Next
      /\ everLive' = everLive \cup ({live'[Home]} \ {NoPointer})
      /\ highest' = highest /\ good' = good /\ cache' = cache
      /\ attempt' = attempt /\ verified' = verified
  BY DEF Publish, ledger
<1>2. /\ live' \in [{Home} -> AnyPointer]
      /\ \/ live'[Home] = live[Home]
         \/ live'[Home] \in Pointers /\ live'[Home].gen > live[Home].gen
  BY <1>1, PublicationTypes
<1>3. /\ live[Home] \in AnyPointer /\ live'[Home] \in AnyPointer
      /\ everLive \in SUBSET Pointers
  BY <1>2 DEF TypeOK
<1>4. TypeOK'
  BY <1>1, <1>3, PublicationTypes DEF TypeOK, AnyPointer
<1>5. \A p \in everLive : p.gen \in Nat /\ p.gen <= live[Home].gen
  BY <1>3, PointerTypes DEF Provenance, AnyPointer
<1>6. live[Home].gen \in Nat /\ live'[Home].gen \in Nat
  BY <1>3, PointerTypes
<1>7. live[Home].gen <= live'[Home].gen
  BY <1>2, <1>6
<1>8. Provenance'
  <2>1. CASE live'[Home] = live[Home]
    <3>1. everLive' = everLive
      BY <1>1, <2>1 DEF Provenance
    <3> QED BY <1>1, <2>1, <3>1 DEF Provenance
  <2>2. CASE live'[Home] \in Pointers /\ live'[Home].gen > live[Home].gen
    <3>1. everLive' = everLive \cup {live'[Home]}
      BY <1>1, <2>2, PointerTypes
    <3>2. \A p \in everLive : p.gen < live'[Home].gen
      BY <1>5, <1>6, <2>2
    <3>3. \A p \in everLive' : p.gen <= live'[Home].gen
      BY <3>1, <3>2, <1>5, <1>6
    <3>4. ASSUME NEW p \in everLive', NEW q \in everLive', p.gen = q.gen
          PROVE  p = q
      BY <3>1, <3>2, <3>4, <1>5, <1>6 DEF Provenance
    <3>5. {live'[Home], highest', good'} \subseteq everLive' \cup {NoPointer}
      BY <1>1, <3>1 DEF Provenance
    <3> QED BY <1>1, <3>3, <3>4, <3>5 DEF Provenance
  <2> QED BY <1>2, <2>1, <2>2
<1>9. LedgerStaysReadable'
  BY <1>1 DEF LedgerStaysReadable
<1>10. \A q \in AttemptRecord : Attempted(q) => Attempted(q)'
  <2>1. highest.gen <= highest'.gen /\ good.gen <= good'.gen
    BY <1>1, PointerTypes DEF TypeOK
  <2>2. everLive \subseteq everLive' /\ verified \subseteq verified'
    BY <1>1
  <2> QED BY <1>4, <1>7, <2>1, <2>2, Persists
<1>11. \A a \in Attempts : Attempted(attempt[a])'
  <2> TAKE a \in Attempts
  <2>1. PICK q \in AttemptRecord : q = attempt[a]
    BY DEF TypeOK
  <2>2. Attempted(q)'
    BY <1>10, <2>1
  <2> QED BY <1>1, <2>1, <2>2 DEF Attempted
<1> QED BY <1>4, <1>8, <1>9, <1>11

-----------------------------------------------------------------------------
(* An attempt moves. *)

LEMMA AttemptMoves ==
    ASSUME IInv, NEW a \in Attempts, NEW r, WellFormed(r),
           attempt' = [attempt EXCEPT ![a] = r],
           UNCHANGED published,
           {highest', good'} \subseteq everLive \cup {NoPointer},
           good' # NoPointer => good' \in verified',
           highest.gen <= highest'.gen, good.gen <= good'.gen,
           LedgerStaysReadable',
           cache' \in [Digests -> {"none", "sound", "corrupt"}],
           verified \subseteq verified', verified' \in SUBSET Pointers,
           Attempted(r)'
    PROVE  IInv'
<1> USE DEF IInv
<1>1. /\ released' = released /\ live' = live /\ quarantined' = quarantined
      /\ everLive' = everLive
  BY DEF published
<1>2. everLive \in SUBSET Pointers
  BY DEF TypeOK
<1>3. highest' \in AnyPointer /\ good' \in AnyPointer
  BY <1>2 DEF AnyPointer
<1>4. TypeOK'
  BY <1>1, <1>3, ReplacedTypes DEF TypeOK
<1>5. Provenance'
  BY <1>1 DEF Provenance
<1>6. live[Home].gen \in Nat
  BY PointerTypes DEF TypeOK
<1>7. \A q \in AttemptRecord : Attempted(q) => Attempted(q)'
  BY <1>1, <1>4, <1>6, Persists
<1>8. \A b \in Attempts : Attempted(attempt[b])'
  BY <1>7, Replaced
<1> QED BY <1>4, <1>5, <1>8

(* The steps that leave the ledger alone. *)
LEMMA AttemptMovesOnly ==
    ASSUME IInv, NEW a \in Attempts, NEW r, WellFormed(r),
           attempt' = [attempt EXCEPT ![a] = r],
           UNCHANGED published, UNCHANGED ledger,
           cache' \in [Digests -> {"none", "sound", "corrupt"}],
           verified \subseteq verified', verified' \in SUBSET Pointers,
           Attempted(r)'
    PROVE  IInv'
<1>1. highest' = highest /\ good' = good
  BY DEF ledger
<1>2. /\ {highest', good'} \subseteq everLive \cup {NoPointer}
      /\ good' # NoPointer => good' \in verified'
  BY <1>1 DEF IInv, Provenance
<1>3. highest.gen <= highest'.gen /\ good.gen <= good'.gen
  BY <1>1, PointerTypes DEF IInv, TypeOK
<1>4. LedgerStaysReadable'
  BY <1>1 DEF IInv, LedgerStaysReadable
<1> QED BY <1>2, <1>3, <1>4, AttemptMoves

(* What is known of the record of an attempt before its step. *)
LEMMA Before ==
    ASSUME IInv, NEW a \in Attempts
    PROVE  /\ attempt[a] \in AttemptRecord
           /\ WellFormed(attempt[a]) /\ Attempted(attempt[a])
           /\ cache \in [Digests -> {"none", "sound", "corrupt"}]
           /\ verified \in SUBSET Pointers /\ everLive \in SUBSET Pointers
           /\ good \in AnyPointer /\ highest \in AnyPointer
           /\ live[Home] \in AnyPointer
           /\ good.gen \in Nat /\ highest.gen \in Nat /\ live[Home].gen \in Nat
BY TypeOfAttempts, PointerTypes DEF IInv, TypeOK, WellFormed

(* Moving on without loading anything, to an answer or to a network step. *)
LEMMA GoesKeeps ==
    ASSUME IInv, NEW a \in Attempts,
           NEW pc \in Answers \cup {"fallback", "fetch", "evict"}, Goes(a, pc),
           pc \in {"fallback", "fetch", "evict"} => attempt[a].pc \in Loading,
           pc = "active" => attempt[a].pc \in {"put", "mark"},
           pc = "refused" => attempt[a].candidate.gen < live[Home].gen,
           UNCHANGED <<published, ledger, verified>>,
           cache' \in [Digests -> {"none", "sound", "corrupt"}]
    PROVE  IInv'
<1>0. PICK r \in AttemptRecord : r = [attempt[a] EXCEPT !.pc = pc]
  BY Before DEF AttemptRecord, Answers, Steps, Loading
<1>1. /\ r.pc = pc
      /\ r.candidate = attempt[a].candidate /\ r.target = attempt[a].target
      /\ r.bytes = attempt[a].bytes /\ r.floor = attempt[a].floor
  BY <1>0, Before DEF AttemptRecord
<1>2. attempt' = [attempt EXCEPT ![a] = r]
  BY <1>0 DEF Goes
<1>3. WellFormed(r)
  BY <1>1, Before DEF WellFormed, Steps, Loading, Answers
<1>4. /\ everLive' = everLive /\ live' = live /\ highest' = highest
      /\ good' = good /\ verified' = verified
  BY DEF published, ledger
<1>5. Attempted(r)'
  BY <1>1, <1>4, Before DEF Attempted, Loading, Answers
<1>6. /\ verified \subseteq verified' /\ verified' \in SUBSET Pointers
      /\ UNCHANGED published /\ UNCHANGED ledger
  BY <1>4, Before
<1> QED BY <1>2, <1>3, <1>5, <1>6, AttemptMovesOnly

(* Setting out to load p, a pointer at or above the floor of the attempt. *)
LEMMA LoadsType ==
    ASSUME IInv, NEW a \in Attempts, NEW p \in everLive, Loads(a, p),
           attempt[a].candidate \in Pointers
    PROVE  \E r \in AttemptRecord :
              /\ attempt' = [attempt EXCEPT ![a] = r] /\ WellFormed(r)
              /\ r.pc = "get" /\ r.target = p
              /\ r.candidate = attempt[a].candidate /\ r.floor = attempt[a].floor
<1>1. p \in Pointers
  BY Before
<1>2. PICK r \in AttemptRecord : r = [attempt[a] EXCEPT !.pc = "get", !.target = p]
  BY <1>1, Before DEF AttemptRecord, AnyPointer, Steps, Loading
<1>3. /\ r.pc = "get" /\ r.target = p
      /\ r.candidate = attempt[a].candidate /\ r.floor = attempt[a].floor
  BY <1>2, Before DEF AttemptRecord
<1>4. WellFormed(r)
  BY <1>1, <1>3 DEF WellFormed
<1> QED BY <1>2, <1>3, <1>4 DEF Loads

(* Holding bytes that verify is the way to the mark, or to a fallback run. *)
LEMMA HoldsKeeps ==
    ASSUME IInv, NEW a \in Attempts, NEW pc \in {"put", "mark", "active"},
           Holds(a, "sound", pc), attempt[a].pc \in Loading,
           verified' = verified \cup {attempt[a].target},
           pc = "mark" => attempt[a].target = attempt[a].candidate,
           UNCHANGED <<published, ledger, cache>>
    PROVE  IInv'
<1>0. PICK r \in AttemptRecord : r = [attempt[a] EXCEPT !.pc = pc, !.bytes = "sound"]
  BY Before DEF AttemptRecord, Steps, Loading, Answers
<1>1. /\ r.pc = pc /\ r.bytes = "sound"
      /\ r.candidate = attempt[a].candidate /\ r.target = attempt[a].target
      /\ r.floor = attempt[a].floor
  BY <1>0, Before DEF AttemptRecord
<1>2. attempt' = [attempt EXCEPT ![a] = r]
  BY <1>0 DEF Holds
<1>3. r.target \in Pointers /\ r.candidate \in Pointers
  BY <1>1, Before DEF WellFormed, Steps, Loading
<1>4. WellFormed(r)
  BY <1>1, <1>3 DEF WellFormed
<1>5. /\ everLive' = everLive /\ live' = live /\ highest' = highest
      /\ good' = good /\ cache' = cache
  BY DEF published, ledger
<1>6. r.target \in verified'
  BY <1>1
<1>7. Attempted(r)'
  BY <1>1, <1>5, <1>6, Before DEF Attempted, Loading
<1>8. /\ verified \subseteq verified' /\ verified' \in SUBSET Pointers
      /\ UNCHANGED published /\ UNCHANGED ledger
      /\ cache' \in [Digests -> {"none", "sound", "corrupt"}]
  BY <1>1, <1>3, <1>5, Before
<1> QED BY <1>2, <1>4, <1>7, <1>8, AttemptMovesOnly

-----------------------------------------------------------------------------
(* The actions. *)

LEMMA BeginKeeps ==
    ASSUME IInv, NEW a \in Attempts, Begin(a)
    PROVE  IInv'
<1>0. good.gen \in Generations \cup {0}
  BY Before, PointerTypes DEF AnyPointer
<1>1. PICK r \in AttemptRecord : r = [Idle EXCEPT !.pc = "read", !.floor = good.gen]
  BY <1>0 DEF Idle, AttemptRecord, Steps, AnyPointer
<1>2. /\ r.pc = "read" /\ r.floor = good.gen
      /\ r.candidate = NoPointer /\ r.target = NoPointer
  BY <1>1 DEF Idle
<1>3. attempt' = [attempt EXCEPT ![a] = r] /\ good' = good
      /\ UNCHANGED published /\ UNCHANGED ledger /\ cache' = cache /\ verified' = verified
  BY <1>1 DEF Begin, ledger
<1>4. WellFormed(r)
  BY <1>2 DEF WellFormed, Loading
<1>5. Attempted(r)'
  BY <1>2, <1>3, Before DEF Attempted, Loading
<1> QED BY <1>3, <1>4, <1>5, Before, AttemptMovesOnly

LEMMA ClosedKeeps ==
    ASSUME IInv, NEW a \in Attempts, Closed(a)
    PROVE  IInv'
<1>1. PICK r : r = Idle
  OBVIOUS
<1>2. /\ WellFormed(r) /\ r.pc = "idle" /\ r.floor = 0
      /\ r.candidate = NoPointer /\ r.target = NoPointer
  BY <1>1, IdleFormed DEF Idle
<1>3. attempt' = [attempt EXCEPT ![a] = r] /\ good' = good
      /\ UNCHANGED published /\ UNCHANGED ledger /\ cache' = cache /\ verified' = verified
  BY <1>1 DEF Closed, ledger
<1>4. Attempted(r)'
  BY <1>2, <1>3, Before DEF Attempted, Loading
<1> QED BY <1>2, <1>3, <1>4, Before, AttemptMovesOnly

LEMMA ReadPointerKeeps ==
    ASSUME IInv, NEW a \in Attempts, ReadPointer(a)
    PROVE  IInv'
<1>1. /\ attempt[a].pc = "read" /\ cache' = cache
      /\ UNCHANGED published /\ UNCHANGED ledger /\ verified' = verified
  BY DEF ReadPointer, At
<1>2. ASSUME NEW pc \in {"unpublished", "unreachable"}, Goes(a, pc)
      PROVE  IInv'
  BY <1>1, <1>2, Before, GoesKeeps DEF Answers
<1>3. CASE /\ live[Home] # NoPointer
           /\ attempt' = [attempt EXCEPT ![a] =
                             [@ EXCEPT !.pc = "accept", !.candidate = live[Home]]]
  <2>0. live[Home] \in Pointers /\ live[Home] \in everLive
    BY <1>3, Before, PointerTypes DEF IInv, Provenance
  <2>1. PICK r \in AttemptRecord :
            r = [attempt[a] EXCEPT !.pc = "accept", !.candidate = live[Home]]
    BY <2>0, Before DEF AttemptRecord, AnyPointer, Steps
  <2>2. /\ r.pc = "accept" /\ r.candidate = live[Home]
        /\ r.target = attempt[a].target /\ r.floor = attempt[a].floor
    BY <2>1, Before DEF AttemptRecord
  <2>3. attempt' = [attempt EXCEPT ![a] = r]
    BY <1>3, <2>1
  <2>4. WellFormed(r)
    BY <2>0, <2>2 DEF WellFormed, Loading
  <2>5. everLive' = everLive /\ good' = good
    BY <1>1 DEF published, ledger
  <2>6. Attempted(r)'
    BY <2>0, <2>2, <2>5, Before DEF Attempted, Loading
  <2> QED BY <1>1, <2>3, <2>4, <2>6, Before, AttemptMovesOnly
<1> QED BY <1>2, <1>3 DEF ReadPointer

LEMMA GetCachedKeeps ==
    ASSUME IInv, NEW a \in Attempts, GetCached(a)
    PROVE  IInv'
<1>1. /\ attempt[a].pc = "get" /\ cache' = cache
      /\ UNCHANGED published /\ UNCHANGED ledger
  BY DEF GetCached, At
<1>2. ASSUME NEW pc \in {"evict", "fetch"}, Goes(a, pc), verified' = verified
      PROVE  IInv'
  BY <1>1, <1>2, Before, GoesKeeps DEF Loading, Answers
<1>3. CASE /\ Holds(a, "sound", Loaded(a))
           /\ verified' = verified \cup {attempt[a].target}
  <2>1. /\ Loaded(a) \in {"put", "mark", "active"}
        /\ Loaded(a) = "mark" => attempt[a].target = attempt[a].candidate
    BY DEF Loaded
  <2> QED BY <1>1, <1>3, <2>1, HoldsKeeps DEF Loading
<1> QED BY <1>2, <1>3 DEF GetCached

LEMMA EvictCorruptKeeps ==
    ASSUME IInv, NEW a \in Attempts, EvictCorrupt(a)
    PROVE  IInv'
<1>1. /\ attempt[a].pc = "evict" /\ Goes(a, "fetch")
      /\ UNCHANGED published /\ UNCHANGED ledger /\ verified' = verified
  BY DEF EvictCorrupt, At
<1>2. cache' \in [Digests -> {"none", "sound", "corrupt"}]
  BY Before DEF EvictCorrupt
<1> QED BY <1>1, <1>2, GoesKeeps DEF Loading, Answers

LEMMA FetchKeeps ==
    ASSUME IInv, NEW a \in Attempts, Fetch(a)
    PROVE  IInv'
<1>1. /\ attempt[a].pc = "fetch" /\ cache' = cache
      /\ UNCHANGED published /\ UNCHANGED ledger
  BY DEF Fetch, At
<1>2. CASE /\ Holds(a, "sound", "put")
           /\ verified' = verified \cup {attempt[a].target}
  BY <1>1, <1>2, HoldsKeeps DEF Loading
<1>3. CASE Goes(a, NotLoaded(a)) /\ verified' = verified
  <2>1. NotLoaded(a) \in {"fallback", "unloadable"}
    BY DEF NotLoaded
  <2> QED BY <1>1, <1>3, <2>1, Before, GoesKeeps DEF Loading, Answers
<1> QED BY <1>2, <1>3 DEF Fetch

LEMMA PutKeeps ==
    ASSUME IInv, NEW a \in Attempts, Put(a)
    PROVE  IInv'
<1>1. /\ attempt[a].pc = "put" /\ Goes(a, Loaded(a))
      /\ UNCHANGED published /\ UNCHANGED ledger /\ verified' = verified
  BY DEF Put, At
<1>2. cache' \in [Digests -> {"none", "sound", "corrupt"}]
  BY Before DEF Put
<1>3. CASE Loaded(a) = "active"
  BY <1>1, <1>2, <1>3, GoesKeeps DEF Loading, Answers
<1>4. CASE Loaded(a) = "mark" /\ attempt[a].target = attempt[a].candidate
  <2>1. PICK r \in AttemptRecord : r = [attempt[a] EXCEPT !.pc = "mark"]
    BY Before DEF AttemptRecord, Steps, Loading
  <2>2. /\ r.pc = "mark" /\ r.bytes = attempt[a].bytes /\ r.floor = attempt[a].floor
        /\ r.candidate = attempt[a].candidate /\ r.target = attempt[a].target
    BY <2>1, Before DEF AttemptRecord
  <2>3. attempt' = [attempt EXCEPT ![a] = r]
    BY <1>1, <1>4, <2>1 DEF Goes
  <2>4. WellFormed(r)
    BY <1>1, <2>2, Before DEF WellFormed, Steps, Loading
  <2>5. everLive' = everLive /\ good' = good /\ highest' = highest
    BY <1>1 DEF published, ledger
  <2>6. Attempted(r)'
    BY <1>1, <1>4, <2>2, <2>5, Before DEF Attempted, Loading
  <2> QED BY <1>1, <1>2, <2>3, <2>4, <2>6, Before, AttemptMovesOnly
<1> QED BY <1>3, <1>4 DEF Loaded

LEMMA CacheDecaysKeeps ==
    ASSUME IInv, CacheDecays
    PROVE  IInv'
<1>1. /\ UNCHANGED <<released, live, quarantined, everLive>>
      /\ UNCHANGED <<highest, good>> /\ UNCHANGED <<attempt, verified>>
  BY DEF CacheDecays, published, ledger
<1>2. cache' \in [Digests -> {"none", "sound", "corrupt"}]
  BY DEF CacheDecays, IInv, TypeOK
<1> QED BY <1>1, <1>2 DEF IInv, TypeOK, Provenance, LedgerStaysReadable, Attempted

-----------------------------------------------------------------------------
(* The actions on the ledger. *)

(* A pointer that contradicts the ledger has been overtaken by the home. *)
LEMMA Overtaken ==
    ASSUME IInv, NEW p \in everLive,
           p # highest, p.gen <= highest.gen
    PROVE  p.gen < live[Home].gen
<1>1. p \in Pointers /\ p.gen \in Nat /\ p.gen >= 1
  BY PointerTypes DEF IInv, TypeOK, Generations
<1>2. highest.gen \in Nat /\ live[Home].gen \in Nat
  BY PointerTypes DEF IInv, TypeOK
<1>3. highest # NoPointer
  BY <1>1, <1>2, PointerTypes
<1>4. highest \in everLive
  BY <1>3 DEF IInv, Provenance
<1>5. p.gen # highest.gen /\ highest.gen <= live[Home].gen
  BY <1>4 DEF IInv, Provenance
<1> QED BY <1>1, <1>2, <1>5

(* The candidate of an attempt that has one was published. *)
LEMMA CandidateLive ==
    ASSUME IInv, NEW a \in Attempts, attempt[a].pc \in Steps \ {"read"}
    PROVE  attempt[a].candidate \in everLive /\ attempt[a].candidate \in Pointers
BY Before, PointerTypes DEF WellFormed, Attempted

LEMMA AcceptKeeps ==
    ASSUME IInv, NEW a \in Attempts, acceptReleaseCandidate(a)
    PROVE  IInv'
<1>0. PICK p : p = attempt[a].candidate
  OBVIOUS
<1>1. /\ attempt[a].pc = "accept" /\ good' = good /\ cache' = cache
      /\ UNCHANGED published /\ verified' = verified
  BY DEF acceptReleaseCandidate, At
<1>2. p \in everLive /\ p \in Pointers /\ p.gen \in Nat /\ p.gen >= 1
  BY <1>0, <1>1, CandidateLive, PointerTypes DEF Steps, Generations
<1>3. CASE ContradictsFloor(p) /\ Goes(a, "refused") /\ highest' = highest
  <2>1. p.gen < live[Home].gen
    BY <1>2, <1>3, Overtaken, Before DEF ContradictsFloor
  <2> QED BY <1>0, <1>1, <1>3, <2>1, Before, GoesKeeps DEF Answers, ledger
<1>4. CASE Goes(a, "denied") /\ highest' = highest
  BY <1>1, <1>4, Before, GoesKeeps DEF Answers, ledger
<1>5. CASE ~ContradictsFloor(p) /\ highest' = p /\ Loads(a, p)
  <2>1. PICK r \in AttemptRecord :
           /\ attempt' = [attempt EXCEPT ![a] = r] /\ WellFormed(r)
           /\ r.pc = "get" /\ r.target = p
           /\ r.candidate = p /\ r.floor = attempt[a].floor
    BY <1>0, <1>2, <1>5, LoadsType
  <2>2. highest.gen <= p.gen /\ (highest.gen = p.gen => highest = p)
    BY <1>2, <1>5, Before DEF ContradictsFloor
  <2>3. good.gen <= highest.gen /\ (good.gen = highest.gen => good = highest)
    BY DEF IInv, LedgerStaysReadable
  <2>4. LedgerStaysReadable'
    BY <1>1, <1>2, <1>5, <2>2, <2>3, Before DEF LedgerStaysReadable
  <2>5. everLive' = everLive
    BY <1>1 DEF published
  <2>6. r.floor <= good.gen /\ r.floor \in Nat
    BY <2>1, Before DEF Attempted, AttemptRecord, Generations
  <2>7. Attempted(r)'
    BY <1>1, <1>2, <1>5, <2>1, <2>2, <2>3, <2>5, <2>6, Before DEF Attempted
  <2>8. /\ {highest', good'} \subseteq everLive \cup {NoPointer}
        /\ good' # NoPointer => good' \in verified'
    BY <1>1, <1>2, <1>5 DEF IInv, Provenance
  <2>9. highest.gen <= highest'.gen /\ good.gen <= good'.gen
    BY <1>1, <1>5, <2>2, Before
  <2> QED BY <1>1, <2>1, <2>4, <2>7, <2>8, <2>9, Before, AttemptMoves
<1> QED BY <1>0, <1>3, <1>4, <1>5 DEF acceptReleaseCandidate

LEMMA MarkKeeps ==
    ASSUME IInv, NEW a \in Attempts, markReleaseActive(a)
    PROVE  IInv'
<1>0. PICK p : p = attempt[a].candidate
  OBVIOUS
<1>1. /\ attempt[a].pc = "mark" /\ highest' = highest /\ cache' = cache
      /\ UNCHANGED published /\ verified' = verified
  BY DEF markReleaseActive, At
<1>2. /\ p \in everLive /\ p \in Pointers /\ p.gen \in Nat
      /\ p.gen <= highest.gen /\ attempt[a].target = p /\ p \in verified
  BY <1>0, <1>1, CandidateLive, Before, PointerTypes
  DEF Steps, Loading, Generations, Attempted
<1>3. CASE p # highest /\ Goes(a, "refused") /\ good' = good
  <2>1. p.gen < live[Home].gen
    BY <1>2, <1>3, Overtaken
  <2> QED BY <1>0, <1>1, <1>3, <2>1, Before, GoesKeeps DEF Answers, ledger
<1>4. CASE p = highest /\ good' = p /\ Goes(a, "active")
  <2>1. PICK r \in AttemptRecord : r = [attempt[a] EXCEPT !.pc = "active"]
    BY Before DEF AttemptRecord, Answers
  <2>2. /\ r.pc = "active" /\ r.bytes = attempt[a].bytes /\ r.floor = attempt[a].floor
        /\ r.candidate = p /\ r.target = p
    BY <1>0, <1>2, <2>1, Before DEF AttemptRecord
  <2>3. attempt' = [attempt EXCEPT ![a] = r]
    BY <1>4, <2>1 DEF Goes
  <2>4. WellFormed(r)
    BY <2>2 DEF WellFormed, Steps, Loading
  <2>5. good.gen <= highest.gen
    BY DEF IInv, LedgerStaysReadable
  <2>6. r.floor <= good.gen /\ r.floor \in Nat
    BY <2>2, Before DEF Attempted, AttemptRecord, Generations
  <2>7. everLive' = everLive /\ live' = live
    BY <1>1 DEF published
  <2>8. p.gen >= r.floor /\ r.bytes = "sound" /\ r.floor <= p.gen
    BY <1>1, <1>2, <1>4, <2>2, <2>5, <2>6, Before DEF Attempted
  <2>9. Attempted(r)'
    BY <1>1, <1>2, <1>4, <2>2, <2>7, <2>8 DEF Attempted, Loading
  <2>10. LedgerStaysReadable'
    BY <1>1, <1>2, <1>4 DEF LedgerStaysReadable
  <2>11. /\ {highest', good'} \subseteq everLive \cup {NoPointer}
         /\ good' # NoPointer => good' \in verified'
    BY <1>1, <1>2, <1>4
  <2>12. highest.gen <= highest'.gen /\ good.gen <= good'.gen
    BY <1>1, <1>4, <2>5, Before
  <2> QED BY <1>1, <2>3, <2>4, <2>9, <2>10, <2>11, <2>12, Before, AttemptMoves
<1> QED BY <1>0, <1>3, <1>4 DEF markReleaseActive

LEMMA FallbackKeeps ==
    ASSUME IInv, NEW a \in Attempts, automaticFallback(a)
    PROVE  IInv'
<1>0. PICK p : p = attempt[a].candidate
  OBVIOUS
<1>1. /\ attempt[a].pc = "fallback" /\ cache' = cache
      /\ UNCHANGED published /\ UNCHANGED ledger /\ verified' = verified
  BY DEF automaticFallback, At
<1>2. p \in everLive /\ p \in Pointers /\ p.gen <= highest.gen
  BY <1>0, <1>1, CandidateLive, Before DEF Steps, Attempted
<1>3. CASE p # highest /\ Goes(a, "refused")
  <2>1. p.gen < live[Home].gen
    BY <1>2, <1>3, Overtaken
  <2> QED BY <1>0, <1>1, <1>3, <2>1, Before, GoesKeeps DEF Answers
<1>4. CASE Goes(a, "unloadable")
  BY <1>1, <1>4, Before, GoesKeeps DEF Answers
<1>5. CASE good # NoPointer /\ Loads(a, good)
  <2>0. PICK g : g = good
    OBVIOUS
  <2>1. g \in everLive /\ g.gen \in Nat
    BY <1>5, <2>0, Before DEF IInv, Provenance
  <2>2. PICK r \in AttemptRecord :
           /\ attempt' = [attempt EXCEPT ![a] = r] /\ WellFormed(r)
           /\ r.pc = "get" /\ r.target = g
           /\ r.candidate = p /\ r.floor = attempt[a].floor
    BY <1>0, <1>2, <1>5, <2>0, <2>1, LoadsType
  <2>3. r.floor <= g.gen /\ r.floor \in Nat
    BY <2>0, <2>2, Before DEF Attempted, AttemptRecord, Generations
  <2>4. everLive' = everLive /\ good' = good /\ highest' = highest
    BY <1>1 DEF published, ledger
  <2>5. Attempted(r)'
    BY <1>2, <2>0, <2>1, <2>2, <2>3, <2>4 DEF Attempted
  <2> QED BY <1>1, <2>2, <2>5, Before, AttemptMovesOnly
<1> QED BY <1>0, <1>3, <1>4, <1>5 DEF automaticFallback

-----------------------------------------------------------------------------
(* The theorems. *)

LEMMA InitEstablishes == Init => IInv
<1> SUFFICES ASSUME Init PROVE IInv
  OBVIOUS
<1>1. /\ released = [h \in {Home} |-> [d \in Digests |-> None]]
      /\ live = [h \in {Home} |-> NoPointer] /\ quarantined = {}
      /\ everLive = {} /\ highest = NoPointer /\ good = NoPointer
      /\ cache = [d \in Digests |-> "none"] /\ verified = {}
      /\ attempt = [a \in Attempts |-> Idle]
  BY DEF Init, Publication!Init, NoPointer
<1>2. TypeOK
  BY <1>1, IdleFormed DEF TypeOK, WellFormed, AnyPointer
<1>3. Provenance /\ LedgerStaysReadable
  BY <1>1, PointerTypes DEF Provenance, LedgerStaysReadable
<1>4. \A a \in Attempts : Attempted(attempt[a])
  BY <1>1, PointerTypes DEF Attempted, Idle, Loading
<1> QED BY <1>2, <1>3, <1>4 DEF IInv

LEMMA NextPreserves == IInv /\ [Next]_vars => IInv'
<1> SUFFICES ASSUME IInv, [Next]_vars PROVE IInv'
  OBVIOUS
<1>1. CASE Publish
  BY <1>1, PublishKeeps
<1>2. CASE CacheDecays
  BY <1>2, CacheDecaysKeeps
<1>3. ASSUME NEW a \in Attempts,
             \/ Begin(a) \/ ReadPointer(a) \/ Load(a) \/ Closed(a)
             \/ acceptReleaseCandidate(a) \/ markReleaseActive(a) \/ automaticFallback(a)
      PROVE  IInv'
  BY <1>3, BeginKeeps, ReadPointerKeeps, GetCachedKeeps, EvictCorruptKeeps,
     FetchKeeps, PutKeeps, ClosedKeeps, AcceptKeeps, MarkKeeps, FallbackKeeps, Zenon
  DEF Load
<1>4. CASE UNCHANGED vars
  BY <1>4 DEF vars, published, ledger, IInv, TypeOK, Provenance,
     LedgerStaysReadable, Attempted
<1> QED BY <1>1, <1>2, <1>3, <1>4, Zenon DEF Next

(* The inductive invariant holds in every reachable state. *)
LEMMA Invariance == Spec => []IInv
BY InitEstablishes, NextPreserves, PTL DEF Spec

(* Every reachable state is well typed: an attempt that got as far as the  *)
(* ledger has a pointer, and one that loads has a target.                  *)
THEOREM TypeCorrect == Spec => []TypeOK
<1>1. IInv => TypeOK
  BY DEF IInv
<1> QED BY <1>1, Invariance, PTL

(* However many tabs adopt releases, an attempt that began after a release *)
(* became known good does not run an older one.                            *)
THEOREM NoRollback == Spec => []NeverBelowKnownGood
<1>1. IInv => NeverBelowKnownGood
  BY DEF IInv, Attempted, NeverBelowKnownGood, At
<1> QED BY <1>1, Invariance, PTL

(* Whatever is run, and whatever is called known good, was verified.       *)
THEOREM VerifiedOnly == Spec => []OnlyVerifiedRuns
<1>1. IInv => OnlyVerifiedRuns
  BY DEF IInv, Provenance, Attempted, OnlyVerifiedRuns, At
<1> QED BY <1>1, Invariance, PTL

(* The ledger refuses only what the home has overtaken, and never writes a *)
(* record that it could not read.                                          *)
THEOREM NeverLockedOut == Spec => [](RefusedOnlyIfOvertaken /\ LedgerStaysReadable)
<1>1. IInv => RefusedOnlyIfOvertaken /\ LedgerStaysReadable
  BY DEF IInv, Attempted, RefusedOnlyIfOvertaken, At
<1> QED BY <1>1, Invariance, PTL

-----------------------------------------------------------------------------
(* The refinement. *)

LEMMA StepsRefine ==
    ASSUME IInv, [Next]_vars
    PROVE  [Ledger!Next]_<<highest, good>>
<1>1. CASE UNCHANGED <<highest, good>>
  BY <1>1
<1>2. ASSUME NEW a \in Attempts, acceptReleaseCandidate(a)
      PROVE  [Ledger!Next]_<<highest, good>>
  <2>0. PICK p : p = attempt[a].candidate
    OBVIOUS
  <2>1. attempt[a].pc = "accept" /\ good' = good
    BY <1>2 DEF acceptReleaseCandidate, At
  <2>2. p \in Pointers /\ p.gen \in Nat
    BY <2>0, <2>1, CandidateLive, PointerTypes DEF Steps, Generations
  <2>3. CASE highest' = highest
    BY <2>1, <2>3
  <2>4. CASE ~ContradictsFloor(p) /\ highest' = p
    <3>1. CASE p.gen = highest.gen
      BY <2>1, <2>4, <3>1 DEF ContradictsFloor
    <3>2. CASE p.gen # highest.gen
      <4>1. p.gen > highest.gen
        BY <2>2, <2>4, <3>2, Before DEF ContradictsFloor
      <4>2. Ledger!Accept(p)
        BY <2>1, <2>4, <4>1 DEF Ledger!Accept
      <4> QED BY <2>2, <4>2 DEF Ledger!Next
    <3> QED BY <3>1, <3>2
  <2> QED BY <1>2, <2>0, <2>3, <2>4 DEF acceptReleaseCandidate
<1>3. ASSUME NEW a \in Attempts, markReleaseActive(a)
      PROVE  [Ledger!Next]_<<highest, good>>
  <2>0. PICK p : p = attempt[a].candidate
    OBVIOUS
  <2>1. attempt[a].pc = "mark" /\ highest' = highest
    BY <1>3 DEF markReleaseActive, At
  <2>2. p \in Pointers
    BY <2>0, <2>1, CandidateLive DEF Steps, Loading
  <2>3. CASE good' = good
    BY <2>1, <2>3
  <2>4. CASE p = highest /\ good' = p
    <3>1. highest # NoPointer
      BY <2>2, <2>4, PointerTypes
    <3>2. Ledger!Confirm
      BY <2>1, <2>4, <3>1 DEF Ledger!Confirm
    <3> QED BY <3>2 DEF Ledger!Next
  <2> QED BY <1>3, <2>0, <2>3, <2>4 DEF markReleaseActive
<1>4. CASE Publish
  BY <1>1, <1>4 DEF Publish, ledger
<1>5. CASE CacheDecays
  BY <1>1, <1>5 DEF CacheDecays, ledger
<1>6. ASSUME NEW a \in Attempts,
             \/ Begin(a) \/ ReadPointer(a) \/ Load(a) \/ Closed(a)
             \/ automaticFallback(a)
      PROVE  UNCHANGED ledger
  BY <1>6, Zenon
  DEF Begin, ReadPointer, Load, GetCached, EvictCorrupt, Fetch, Put, Closed,
      automaticFallback
<1>7. CASE UNCHANGED vars
  BY <1>1, <1>7 DEF vars, ledger
<1>8. ASSUME UNCHANGED ledger PROVE [Ledger!Next]_<<highest, good>>
  BY <1>8 DEF ledger
<1> QED BY <1>2, <1>3, <1>4, <1>5, <1>6, <1>7, <1>8, Zenon DEF Next

(* The ledger that the tabs share implements the abstract one: the accepted *)
(* release only moves to a greater generation, and the known good one only *)
(* to the release accepted at that moment.                                 *)
THEOREM RefinesLedger == Spec => ImplementsAdoptedRelease
<1>1. Init => Ledger!Init
  BY DEF Init, Ledger!Init
<1> QED BY <1>1, StepsRefine, Invariance, PTL
        DEF Spec, ImplementsAdoptedRelease, Ledger!Spec
=============================================================================
