------------------------------ MODULE Admission ------------------------------
(***************************************************************************)
(* Admission and audit of control-plane requests (control-plane/src/       *)
(* admission.ts) around one sensitive operation, the creation of a home    *)
(* (store.ts, createHome), as the request handler of api.ts drives it.     *)
(*                                                                         *)
(* A request opens its admission: one transaction charges a fixed-window   *)
(* bucket per budget and writes an unfinished record into a ring of audit  *)
(* slots.  It charges more budgets once the caller is known, creates the   *)
(* home and finishes its record with what became of it.  Buckets live in a *)
(* table of fixed size: subjects whose fingerprints select the same slot   *)
(* share it.                                                               *)
(*                                                                         *)
(* Each Firestore transaction is one step; the clock it uses was read in an*)
(* earlier one.  A commit whose acknowledgement is lost leaves the request *)
(* in place, so the closure runs again.  A definition whose name begins    *)
(* with Wrong is a deliberately faulty variant of the one after it.        *)
(***************************************************************************)
EXTENDS Integers, FiniteSets

CONSTANTS
    Requests,       \* requests; each draws one audit event identifier
    Homes,          \* home identifiers
    Subjects,       \* what a budget is counted for: all, a source, a user
    HomeOf, UserOf, SourceOf,  \* [Requests -> Homes], and twice Subjects
    Everyone,       \* the subject "global" of the audit budget
    SlotOf,         \* [Budgets -> [Subjects -> Nat]]: bucket of a fingerprint
    Maximum,        \* [Budgets -> Nat]: charges a window allows
    Window,         \* [Budgets -> Nat]: length of a window, in clock ticks
    AuditSlots,     \* auditSlots: length of the ring
    Retention,      \* auditRetentionMilliseconds, in clock ticks
    Deadline,       \* timeoutSeconds of the function, in clock ticks
    MaxOwnedHomes,
    None,
    MaxClock,       \* bound: last clock tick explored
    MaxLostAcks     \* bound: commits whose acknowledgement is lost

Budgets == {"audit.events", "source.operations", "home.create.actor", "home.create.source"}
AtOpen   == {"audit.events", "source.operations"}
AtCreate == Budgets \ AtOpen

Slots == 0..(AuditSlots - 1)
BucketSlots == {SlotOf[b][s] : b \in Budgets, s \in Subjects}

Bucket == [subject: Subjects, start: Nat, used: Nat \ {0}, saturated: BOOLEAN]
Record == [event: Requests, status: {"pending", "ok", "denied", "outcome_unknown"},
           created: Nat, updated: Nat]

ASSUME AdmissionAssumption ==
    /\ HomeOf \in [Requests -> Homes]
    /\ UserOf \in [Requests -> Subjects] /\ SourceOf \in [Requests -> Subjects]
    /\ Everyone \in Subjects
    /\ SlotOf \in [Budgets -> [Subjects -> Nat]]
    /\ Maximum \in [Budgets -> Nat \ {0}] /\ Window \in [Budgets -> Nat \ {0}]
    /\ AuditSlots \in Nat \ {0} /\ MaxOwnedHomes \in Nat
    /\ Deadline \in Nat /\ Retention \in Nat /\ Deadline < Retention
    /\ None \notin Requests \cup Bucket \cup Record
    /\ MaxClock \in Nat \ {0} /\ MaxLostAcks \in Nat

VARIABLES
    clock,        \* the control plane's clock
    bucket,       \* controlAdmissionBuckets, by budget and slot
    audit,        \* controlAudit: the ring of records
    next,         \* next_slot of the ring's state document
    home,         \* homes/{h} and controlHomes/{h}: the request that created it
    owned,        \* controlOwners/{u}: owned_home_count
    call,         \* where a request is in its handler
    arrived,      \* when it arrived
    granted,      \* history: charges committed, by budget, subject and window
    recorded,     \* history: audit records written, by audit window
    unacked,      \* history: creations and completions not acknowledged
    lostAcks      \* acknowledgements still to lose

ledger    == <<bucket, audit, next, granted, recorded>>
directory == <<home, owned, unacked>>
vars      == <<clock, ledger, directory, call, arrived, lostAcks>>

Outcomes == {"ok", "denied", "outcome_unknown"}

CallRecord ==
    [pc: {"new", "closed"}]
    \cup [pc: {"open"}, at: Nat]
    \cup [pc: {"route", "create"}, slot: Slots]
    \cup [pc: {"consume"}, slot: Slots, at: Nat]
    \cup [pc: {"settle"}, slot: Slots, outcome: Outcomes]
    \cup [pc: {"finish"}, slot: Slots, at: Nat, outcome: Outcomes]

InFlight(r)  == call[r].pc \notin {"new", "closed"}
HasTicket(r) == InFlight(r) /\ call[r].pc # "open"

WindowStart(b, t) == t - (t % Window[b])

Init ==
    /\ clock = 1
    /\ bucket = [b \in Budgets |-> [n \in BucketSlots |-> None]]
    /\ audit = [n \in Slots |-> None] /\ next = 0
    /\ home = [h \in Homes |-> None] /\ owned = [u \in Subjects |-> 0]
    /\ call = [r \in Requests |-> [pc |-> "new"]]
    /\ arrived = [r \in Requests |-> 0]
    /\ granted = [b \in Budgets |-> [s \in Subjects |-> [t \in 0..MaxClock |-> 0]]]
    /\ recorded = [t \in 0..MaxClock |-> 0]
    /\ unacked = {} /\ lostAcks = MaxLostAcks

-----------------------------------------------------------------------------
(* #evaluateBucket: what a charge of budget b by request r meets at `now'. *)

Subject(b, r) ==
    CASE b = "audit.events"      -> Everyone
      [] b = "home.create.actor" -> UserOf[r]
      [] OTHER                   -> SourceOf[r]

Found(b, r) == bucket[b][SlotOf[b][Subject(b, r)]]

(* A bucket of any other window is begun afresh. *)
WrongUnused(b, r, now) == Found(b, r) = None \/ Found(b, r).start # WindowStart(b, now)

(* No bucket, or one whose window is over. *)
Unused(b, r, now) == Found(b, r) = None \/ Found(b, r).start + Window[b] <= now

(* Another subject holds the slot for the rest of its window. *)
Occupied(b, r, now) == ~Unused(b, r, now) /\ Found(b, r).subject # Subject(b, r)

(* The subject's own bucket belongs to a later window than the clock read. *)
Overtaken(b, r, now) ==
    /\ ~Unused(b, r, now) /\ ~Occupied(b, r, now)
    /\ Found(b, r).start # WindowStart(b, now)

Exhausted(b, r, now) ==
    /\ ~Unused(b, r, now) /\ ~Occupied(b, r, now)
    /\ Found(b, r).used >= Maximum[b]

Denied(B, r, now) == {b \in B : Occupied(b, r, now) \/ Exhausted(b, r, now)}
Unmarked(B, r, now) == {b \in B : Exhausted(b, r, now) /\ ~Found(b, r).saturated}

(* #writeAllowedBucket *)
Charged(b, r, now) ==
    IF Unused(b, r, now)
    THEN [subject |-> Subject(b, r), start |-> WindowStart(b, now), used |-> 1,
          saturated |-> FALSE]
    ELSE [Found(b, r) EXCEPT !.used = Found(b, r).used + 1]

Marked(b, r) == [Found(b, r) EXCEPT !.saturated = TRUE]

(* Charges the budgets in `charged' and marks those in `marked' saturated. *)
Write(charged, marked, r, now) ==
    /\ bucket' = [b \in Budgets |->
            IF b \in charged \cup marked
            THEN [bucket[b] EXCEPT ![SlotOf[b][Subject(b, r)]] =
                    IF b \in charged THEN Charged(b, r, now)
                    ELSE Marked(b, r)]
            ELSE bucket[b]]
    /\ granted' = [b \in Budgets |-> [s \in Subjects |-> [t \in 0..MaxClock |->
            IF b \in charged /\ s = Subject(b, r) /\ t = WindowStart(b, now)
            THEN granted[b][s][t] + 1 ELSE granted[b][s][t]]]]

-----------------------------------------------------------------------------
(* The audit ring. *)

(* assertAuditRecord: the recorded times are in order. *)
Readable(rec) == rec.created <= rec.updated /\ rec.updated < rec.created + Retention

(* A record may be overwritten however fresh it is. *)
WrongAllocatable(now) == audit[next] = None \/ Readable(audit[next])

(* #allocateAudit takes the next slot unless an unfinished record that has *)
(* not expired is in it.                                                   *)
Allocatable(now) ==
    \/ audit[next] = None
    \/ /\ Readable(audit[next])
       /\ audit[next].status = "pending" => audit[next].created + Retention <= now

(* The ring's position does not wrap. *)
WrongRecordEvent(r, status, now) ==
    /\ audit' = [audit EXCEPT ![next] =
            [event |-> r, status |-> status, created |-> now, updated |-> now]]
    /\ next' = next + 1
    /\ recorded' = [recorded EXCEPT ![WindowStart("audit.events", now)] = @ + 1]

(* #writeAudit *)
RecordEvent(r, status, now) ==
    /\ audit' = [audit EXCEPT ![next] =
            [event |-> r, status |-> status, created |-> now, updated |-> now]]
    /\ next' = (next + 1) % AuditSlots
    /\ recorded' = [recorded EXCEPT ![WindowStart("audit.events", now)] = @ + 1]

-----------------------------------------------------------------------------
(* Life of a request. *)

Goto(r, place) == call' = [call EXCEPT ![r] = place]

Close(r) == Goto(r, [pc |-> "closed"])

(* The transaction commits; the request goes on, or its closure runs again.*)
Commit(r, place) ==
    \/ /\ Goto(r, place)
       /\ UNCHANGED lostAcks
    \/ /\ lostAcks > 0
       /\ lostAcks' = lostAcks - 1
       /\ UNCHANGED call

Settle(r, outcome) ==
    Goto(r, [pc |-> "settle", slot |-> call[r].slot, outcome |-> outcome])

Arrive(r) ==
    /\ call[r].pc = "new"
    /\ Goto(r, [pc |-> "open", at |-> clock])
    /\ arrived' = [arrived EXCEPT ![r] = clock]
    /\ UNCHANGED <<clock, ledger, directory, lostAcks>>

(* A refused admission is recorded if the audit budget allows, or once as  *)
(* the marker of its saturation.                                           *)
Recordable(r, now) ==
    \/ "audit.events" \notin Denied(AtOpen, r, now)
    \/ "audit.events" \in Unmarked(AtOpen, r, now)

(* The transaction of open throws: it has written nothing. *)
OpenAborts(r, now) ==
    \/ \E b \in AtOpen : Overtaken(b, r, now)
    \/ Recordable(r, now) /\ ~Allocatable(now)

OpenTx(r) ==
    LET now == call[r].at
        denied == Denied(AtOpen, r, now)
    IN
    /\ call[r].pc = "open"
    /\ UNCHANGED <<clock, directory, arrived>>
    /\ \/ /\ OpenAborts(r, now)
          /\ Close(r)
          /\ UNCHANGED <<ledger, lostAcks>>
       \/ /\ ~OpenAborts(r, now) /\ denied # {}
          /\ Write({"audit.events"} \ denied, Unmarked(AtOpen, r, now), r, now)
          /\ IF Recordable(r, now) THEN RecordEvent(r, "denied", now)
             ELSE UNCHANGED <<audit, next, recorded>>
          /\ Commit(r, [pc |-> "closed"])
       \/ /\ ~OpenAborts(r, now) /\ denied = {}
          /\ Write(AtOpen, {}, r, now)
          /\ RecordEvent(r, "pending", now)
          /\ Commit(r, [pc |-> "route", slot |-> next])

(* The caller is not authenticated or the request is malformed; or the     *)
(* provider that would tell is not available.                              *)
Reject(r) ==
    /\ call[r].pc = "route"
    /\ \E outcome \in {"denied", "outcome_unknown"} : Settle(r, outcome)
    /\ UNCHANGED <<clock, ledger, directory, arrived, lostAcks>>

BeginConsume(r) ==
    /\ call[r].pc = "route"
    /\ Goto(r, [pc |-> "consume", slot |-> call[r].slot, at |-> clock])
    /\ UNCHANGED <<clock, ledger, directory, arrived, lostAcks>>

(* The ticket's record, as consume and finish look it up. *)
Mine(r) == audit[call[r].slot] # None /\ Readable(audit[call[r].slot])
           /\ audit[call[r].slot].event = r

ConsumeAborts(r, now) ==
    \/ ~Mine(r) \/ audit[call[r].slot].status # "pending"
    \/ \E b \in AtCreate : Overtaken(b, r, now)

ConsumeTx(r) ==
    LET now == call[r].at
        slot == call[r].slot
    IN
    /\ call[r].pc = "consume"
    /\ UNCHANGED <<clock, next, recorded, directory, arrived>>
    /\ \/ /\ ConsumeAborts(r, now)
          /\ Settle(r, "outcome_unknown")
          /\ UNCHANGED <<bucket, granted, audit, lostAcks>>
       \/ /\ ~ConsumeAborts(r, now) /\ Denied(AtCreate, r, now) # {}
          /\ Write({}, Unmarked(AtCreate, r, now), r, now)
          /\ UNCHANGED audit
          /\ Commit(r, [pc |-> "settle", slot |-> slot, outcome |-> "denied"])
       \/ /\ ~ConsumeAborts(r, now) /\ Denied(AtCreate, r, now) = {}
          /\ Write(AtCreate, {}, r, now)
          /\ audit' = [audit EXCEPT ![slot].updated = now]
          /\ Commit(r, [pc |-> "create", slot |-> slot])

(* The history remembers which step of r committed without acknowledgement.*)
Acknowledge(r, step) ==
    unacked' = IF call' = call THEN unacked \cup {<<r, step>>} ELSE unacked

(* createHome *)
CreateTx(r) ==
    LET h == HomeOf[r]
        u == UserOf[r]
        homes == {g \in Homes : home[g] # None /\ UserOf[home[g]] = u}
    IN
    /\ call[r].pc = "create"
    /\ UNCHANGED <<clock, ledger, arrived>>
    /\ \/ /\ home[h] # None
          /\ Settle(r, "denied")
          /\ UNCHANGED <<directory, lostAcks>>
       \/ /\ home[h] = None
          /\ Cardinality(homes) # owned[u] \/ owned[u] >= MaxOwnedHomes
          /\ Settle(r, IF Cardinality(homes) # owned[u] THEN "outcome_unknown" ELSE "denied")
          /\ UNCHANGED <<directory, lostAcks>>
       \/ /\ home[h] = None
          /\ Cardinality(homes) = owned[u] /\ owned[u] < MaxOwnedHomes
          /\ home' = [home EXCEPT ![h] = r]
          /\ owned' = [owned EXCEPT ![u] = @ + 1]
          /\ Commit(r, [pc |-> "settle", slot |-> call[r].slot, outcome |-> "ok"])
          /\ Acknowledge(r, "create")

(* finish reads the clock before its transaction. *)
BeginFinish(r) ==
    /\ call[r].pc = "settle"
    /\ Goto(r, [pc |-> "finish", slot |-> call[r].slot, at |-> clock,
                outcome |-> call[r].outcome])
    /\ UNCHANGED <<clock, ledger, directory, arrived, lostAcks>>

(* A completion that fails is repeated as a refusal. *)
WrongAfterFailure(r) ==
    IF call[r].pc \in {"consume", "create"} THEN Settle(r, "outcome_unknown")
    ELSE IF call[r].pc = "finish" /\ call[r].outcome = "ok" THEN Settle(r, "denied")
    ELSE Close(r)

(* The handler's catch: a dependency that failed leaves the outcome open,  *)
(* and the completion is tried once more; a failure of that ends the       *)
(* request with its record as it is.                                       *)
AfterFailure(r) ==
    IF \/ call[r].pc \in {"consume", "create"}
       \/ call[r].pc = "finish" /\ call[r].outcome = "ok"
    THEN Settle(r, "outcome_unknown")
    ELSE Close(r)

FinishTx(r) ==
    LET rec == audit[call[r].slot]
        outcome == call[r].outcome
    IN
    /\ call[r].pc = "finish"
    /\ UNCHANGED <<clock, bucket, granted, next, recorded, home, owned, arrived>>
    /\ \/ /\ ~Mine(r) \/ rec.status \notin {"pending", outcome}
          /\ AfterFailure(r)
          /\ UNCHANGED <<audit, unacked, lostAcks>>
       \/ /\ Mine(r) /\ rec.status = outcome
          /\ Close(r)
          /\ UNCHANGED <<audit, unacked, lostAcks>>
       \/ /\ Mine(r) /\ rec.status = "pending"
          /\ audit' = [audit EXCEPT ![call[r].slot].status = outcome,
                                    ![call[r].slot].updated = call[r].at]
          /\ Commit(r, [pc |-> "closed"])
          /\ Acknowledge(r, "finish")

(* Firestore gives up on a transaction; nothing more of it is committed. *)
Fail(r) ==
    /\ call[r].pc \in {"open", "consume", "create", "finish"}
    /\ AfterFailure(r)
    /\ UNCHANGED <<clock, ledger, directory, arrived, lostAcks>>

(* The instance dies, or the platform stops the request at its deadline. *)
Crash(r) ==
    /\ InFlight(r)
    /\ Close(r)
    /\ UNCHANGED <<clock, ledger, directory, arrived, lostAcks>>

(* No request outlives its deadline. *)
Tick ==
    /\ clock < MaxClock
    /\ \A r \in Requests : InFlight(r) => clock < arrived[r] + Deadline
    /\ clock' = clock + 1
    /\ UNCHANGED <<ledger, directory, call, arrived, lostAcks>>

Step(r) ==
    \/ Arrive(r) \/ OpenTx(r) \/ Reject(r) \/ BeginConsume(r) \/ ConsumeTx(r)
    \/ CreateTx(r) \/ BeginFinish(r) \/ FinishTx(r) \/ Fail(r) \/ Crash(r)

Next == Tick \/ \E r \in Requests : Step(r)

Spec == Init /\ [][Next]_vars

-----------------------------------------------------------------------------
(* Properties. *)

(* Every document, request and history variable has its type. *)
TypeOK ==
    /\ clock \in 1..MaxClock
    /\ bucket \in [Budgets -> [BucketSlots -> Bucket \cup {None}]]
    /\ audit \in [Slots -> Record \cup {None}] /\ next \in Slots
    /\ home \in [Homes -> Requests \cup {None}]
    /\ owned \in [Subjects -> Nat]
    /\ call \in [Requests -> CallRecord]
    /\ arrived \in [Requests -> Nat]
    /\ granted \in [Budgets -> [Subjects -> [0..MaxClock -> Nat]]]
    /\ recorded \in [0..MaxClock -> Nat]
    /\ unacked \subseteq Requests \X {"create", "finish"} /\ lostAcks \in Nat

(* However requests race across the end of a window with clocks read       *)
(* earlier, share bucket slots and rerun their closures, no subject is     *)
(* charged more often in a window than its limit allows, and the audit     *)
(* grows by at most one record more, the marker of its saturation.         *)
WindowsHold ==
    /\ \A b \in Budgets, s \in Subjects, t \in 0..MaxClock : granted[b][s][t] <= Maximum[b]
    /\ \A t \in 0..MaxClock : recorded[t] <= Maximum["audit.events"] + 1

(* Until its completion commits, the ring keeps the unfinished record that *)
(* a request's ticket names, and no clock finds it expired or unreadable: a*)
(* full ring refuses newcomers instead of taking the slot of a request that*)
(* is under way.                                                           *)
TicketKeepsItsRecord ==
    \A r \in Requests : HasTicket(r) /\ <<r, "finish">> \notin unacked =>
        /\ Mine(r) /\ audit[call[r].slot].status = "pending"
        /\ clock < audit[call[r].slot].created + Retention

(* What the audit says of a request is what became of it: a record says    *)
(* "ok" only if the request created its home, and "denied" only if it did  *)
(* not, unless the acknowledgement of that very creation was lost.         *)
AuditTruthful ==
    \A n \in Slots : audit[n] # None =>
        LET r == audit[n].event IN
        /\ audit[n].status = "ok" => home[HomeOf[r]] = r
        /\ audit[n].status = "denied" => home[HomeOf[r]] # r \/ <<r, "create">> \in unacked
=============================================================================
