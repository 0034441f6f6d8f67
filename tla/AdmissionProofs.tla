--------------------------- MODULE AdmissionProofs ---------------------------
(* Proofs of the safety properties of Admission, for any number of         *)
(* requests, subjects and homes, any assignment of subjects to bucket      *)
(* slots, any limits, windows and ring, and any number of lost             *)
(* acknowledgements.                                                       *)
EXTENDS Admission, TLAPS

-----------------------------------------------------------------------------
(* Windows. *)

LEMMA DivisionWithRemainder ==
    ASSUME NEW t \in Nat, NEW w \in Nat \ {0}
    PROVE  /\ t % w \in 0..(w - 1) /\ t \div w \in Nat
           /\ t = w * (t \div w) + (t % w)
OBVIOUS

LEMMA MultiplesApart ==
    ASSUME NEW p \in Nat, NEW q \in Nat, NEW w \in Nat \ {0}, w * p < w * q
    PROVE  w * p + w <= w * q
<1>1. p < q
  <2> SUFFICES ASSUME q <= p PROVE FALSE
    OBVIOUS
  <2>1. w * (p - q) >= 0
    OBVIOUS
  <2> QED BY <2>1
<1>2. p + 1 <= q
  BY <1>1
<1>3. w * (q - (p + 1)) >= 0
  BY <1>2
<1> QED BY <1>3

LEMMA Multiples ==
    ASSUME NEW t \in Nat, NEW w \in Nat \ {0}
    PROVE  /\ t \div w \in Nat /\ t - (t % w) = w * (t \div w)
           /\ t - (t % w) \in Nat
           /\ t - (t % w) <= t /\ t < (t - (t % w)) + w
<1>1. /\ t % w \in 0..(w - 1) /\ t \div w \in Nat
      /\ t = w * (t \div w) + (t % w)
  BY DivisionWithRemainder
<1>2. w * (t \div w) \in Nat
  BY <1>1
<1> QED BY <1>1, <1>2

(* A window contains its time. *)
LEMMA Windows ==
    ASSUME NEW b \in Budgets, NEW t \in Nat
    PROVE  /\ WindowStart(b, t) \in Nat
           /\ WindowStart(b, t) <= t /\ t < WindowStart(b, t) + Window[b]
<1>1. Window[b] \in Nat \ {0}
  BY AdmissionAssumption
<1> QED BY <1>1, Multiples DEF WindowStart

(* A window that is not over is the window of the clock, or a later one.   *)
LEMMA WindowsApart ==
    ASSUME NEW b \in Budgets, NEW x \in Nat, NEW t \in Nat,
           t < WindowStart(b, x) + Window[b]
    PROVE  WindowStart(b, t) <= WindowStart(b, x)
<1> DEFINE w == Window[b]
<1>1. w \in Nat \ {0}
  BY AdmissionAssumption
<1>2. PICK p \in Nat : WindowStart(b, x) = w * p
  BY <1>1, Multiples DEF WindowStart
<1>3. PICK q \in Nat : WindowStart(b, t) = w * q
  BY <1>1, Multiples DEF WindowStart
<1>4. /\ WindowStart(b, t) \in Nat /\ WindowStart(b, x) \in Nat
      /\ WindowStart(b, t) <= t
  BY Windows
<1>5. CASE w * p < w * q
  <2>1. w * p + w <= w * q
    <3> HIDE DEF w
    <3> QED BY <1>1, <1>5, MultiplesApart
  <2> QED BY <1>1, <1>2, <1>3, <1>4, <2>1
<1>6. CASE ~ (w * p < w * q)
  BY <1>2, <1>3, <1>4, <1>6
<1> QED BY <1>5, <1>6

-----------------------------------------------------------------------------
(* Buckets. *)

LEMMA Subjected ==
    ASSUME NEW b \in Budgets, NEW r \in Requests
    PROVE  Subject(b, r) \in Subjects /\ SlotOf[b][Subject(b, r)] \in BucketSlots
<1>1. Subject(b, r) \in Subjects
  BY AdmissionAssumption DEF Subject, Budgets
<1> QED BY <1>1 DEF BucketSlots

LEMMA FoundType ==
    ASSUME TypeOK, NEW b \in Budgets, NEW r \in Requests
    PROVE  Found(b, r) \in Bucket \cup {None}
BY Subjected DEF Found, TypeOK

LEMMA ChargedType ==
    ASSUME TypeOK, NEW b \in Budgets, NEW r \in Requests, NEW now \in Nat
    PROVE  /\ Charged(b, r, now) \in Bucket
           /\ Charged(b, r, now).saturated =
                IF Unused(b, r, now) THEN FALSE ELSE Found(b, r).saturated
           /\ Charged(b, r, now).start =
                IF Unused(b, r, now) THEN WindowStart(b, now) ELSE Found(b, r).start
           /\ Charged(b, r, now).used =
                IF Unused(b, r, now) THEN 1 ELSE Found(b, r).used + 1
           /\ Charged(b, r, now).subject =
                IF Unused(b, r, now) THEN Subject(b, r) ELSE Found(b, r).subject
<1>1. WindowStart(b, now) \in Nat
  BY Windows
<1>2. Subject(b, r) \in Subjects
  BY Subjected
<1>3. CASE Unused(b, r, now)
  BY <1>1, <1>2, <1>3 DEF Charged, Bucket
<1>4. CASE ~Unused(b, r, now)
  <2>1. Found(b, r) \in Bucket
    BY <1>4, FoundType DEF Unused
  <2> QED BY <1>4, <2>1 DEF Charged, Bucket
<1> QED BY <1>3, <1>4

LEMMA MarkedType ==
    ASSUME NEW b \in Budgets, NEW r \in Requests, Found(b, r) \in Bucket
    PROVE  /\ Marked(b, r) \in Bucket
           /\ Marked(b, r).saturated = TRUE
           /\ Marked(b, r).start = Found(b, r).start
           /\ Marked(b, r).used = Found(b, r).used
           /\ Marked(b, r).subject = Found(b, r).subject
BY DEF Bucket, Marked

(* A transaction of r may write these budgets: none that is charged is     *)
(* refused, and none that is marked lacks a bucket.                        *)
Chargeable(b, r, now) ==
    ~Occupied(b, r, now) /\ ~Exhausted(b, r, now) /\ ~Overtaken(b, r, now)

Proper(charged, marked, r, now) ==
    /\ charged \in SUBSET Budgets /\ marked \in SUBSET Budgets
    /\ \A b \in charged : Chargeable(b, r, now)
    /\ \A b \in marked : /\ Exhausted(b, r, now) /\ ~Overtaken(b, r, now)
                         /\ ~Found(b, r).saturated

(* What Write does to each bucket, and to the history. *)
LEMMA Written ==
    ASSUME TypeOK, NEW r \in Requests, NEW now \in Nat, NEW charged, NEW marked,
           Proper(charged, marked, r, now), Write(charged, marked, r, now)
    PROVE  /\ bucket' \in [Budgets -> [BucketSlots -> Bucket \cup {None}]]
           /\ granted' \in [Budgets -> [Subjects -> [0..MaxClock -> Nat]]]
           /\ \A b \in Budgets, n \in BucketSlots :
                bucket'[b][n] = IF n # SlotOf[b][Subject(b, r)] THEN bucket[b][n]
                                ELSE IF b \in charged THEN Charged(b, r, now)
                                ELSE IF b \in marked THEN Marked(b, r)
                                ELSE bucket[b][n]
           /\ \A b \in Budgets, s \in Subjects, t \in 0..MaxClock :
                granted'[b][s][t] =
                    IF b \in charged /\ s = Subject(b, r) /\ t = WindowStart(b, now)
                    THEN granted[b][s][t] + 1 ELSE granted[b][s][t]
<1>1. \A b \in Budgets : /\ bucket[b] \in [BucketSlots -> Bucket \cup {None}]
                         /\ granted[b] \in [Subjects -> [0..MaxClock -> Nat]]
                         /\ Subject(b, r) \in Subjects
                         /\ SlotOf[b][Subject(b, r)] \in BucketSlots
  BY Subjected DEF TypeOK
<1>2. \A b \in charged : b \in Budgets /\ Charged(b, r, now) \in Bucket
  BY ChargedType DEF Proper
<1>3. \A b \in marked : /\ b \in Budgets
                        /\ Marked(b, r) \in Bucket
  <2> SUFFICES ASSUME NEW b \in marked
               PROVE  /\ b \in Budgets
                      /\ Marked(b, r) \in Bucket
    OBVIOUS
  <2>1. b \in Budgets /\ Found(b, r) \in Bucket
    BY FoundType DEF Proper, Exhausted, Unused
  <2> QED BY <2>1, MarkedType
<1>4. \A b \in Budgets :
        bucket'[b] = IF b \in charged \cup marked
                     THEN [bucket[b] EXCEPT ![SlotOf[b][Subject(b, r)]] =
                             IF b \in charged THEN Charged(b, r, now)
                             ELSE Marked(b, r)]
                     ELSE bucket[b]
  BY DEF Write
<1>6. \A b \in Budgets, n \in BucketSlots :
        bucket'[b][n] = IF n # SlotOf[b][Subject(b, r)] THEN bucket[b][n]
                        ELSE IF b \in charged THEN Charged(b, r, now)
                        ELSE IF b \in marked THEN Marked(b, r)
                        ELSE bucket[b][n]
  BY <1>1, <1>4
<1>7. bucket' \in [Budgets -> [BucketSlots -> Bucket \cup {None}]]
  <2>1. bucket' = [b \in Budgets |-> bucket'[b]]
    BY DEF Write
  <2>2. ASSUME NEW b \in Budgets
        PROVE  bucket'[b] \in [BucketSlots -> Bucket \cup {None}]
    <3> DEFINE n == SlotOf[b][Subject(b, r)]
               C == Charged(b, r, now)
               M == Marked(b, r)
    <3>1. /\ b \in charged => C \in Bucket
          /\ b \in marked => M \in Bucket
          /\ bucket[b] \in [BucketSlots -> Bucket \cup {None}]
          /\ bucket'[b] = IF b \in charged \cup marked
                          THEN [bucket[b] EXCEPT ![n] = IF b \in charged THEN C ELSE M]
                          ELSE bucket[b]
      BY <1>1, <1>2, <1>3, <1>4
    <3> QED
      <4> HIDE DEF n, C, M
      <4> QED BY <3>1
  <2> QED BY <2>1, <2>2
<1>8. \A b \in Budgets, s \in Subjects, t \in 0..MaxClock :
        granted'[b][s][t] =
            IF b \in charged /\ s = Subject(b, r) /\ t = WindowStart(b, now)
            THEN granted[b][s][t] + 1 ELSE granted[b][s][t]
  BY DEF Write
<1>9. granted' \in [Budgets -> [Subjects -> [0..MaxClock -> Nat]]]
  <2> DEFINE G(b, s, t) == IF b \in charged /\ s = Subject(b, r) /\ t = WindowStart(b, now)
                           THEN granted[b][s][t] + 1 ELSE granted[b][s][t]
  <2>1. ASSUME NEW b \in Budgets, NEW s \in Subjects, NEW t \in 0..MaxClock
        PROVE  G(b, s, t) \in Nat
    <3>1. granted[b] \in [Subjects -> [0..MaxClock -> Nat]]
      BY DEF TypeOK
    <3>2. granted[b][s] \in [0..MaxClock -> Nat]
      BY <3>1
    <3>3. granted[b][s][t] \in Nat
      BY <3>2
    <3> QED BY <3>3
  <2>2. granted' = [b \in Budgets |-> [s \in Subjects |-> [t \in 0..MaxClock |-> G(b, s, t)]]]
    BY DEF Write
  <2> HIDE DEF G
  <2> QED BY <2>1, <2>2
<1> QED BY <1>6, <1>7, <1>8, <1>9

-----------------------------------------------------------------------------
(* The inductive invariants. *)

(* A subject's window is charged no more often than its bucket says; the   *)
(* windows that begin after the one in the slot are not charged at all.    *)
Within(B, s, t, charges, limit) ==
    /\ charges <= limit
    /\ B = None => charges = 0
    /\ B # None /\ t > B.start => charges = 0
    /\ B # None /\ t = B.start => charges <= IF B.subject = s THEN B.used ELSE 0

Counted(b, s, t) ==
    Within(bucket[b][SlotOf[b][s]], s, t, granted[b][s][t], Maximum[b])

BucketsCount == \A b \in Budgets, s \in Subjects, t \in 0..MaxClock : Counted(b, s, t)

(* Every record was charged, but for the marker of a saturated window.     *)
AuditBucket == bucket["audit.events"][SlotOf["audit.events"][Everyone]]

Audited(B, t, records, charges) ==
    /\ records <= charges + 1
    /\ B = None => records = 0
    /\ B # None /\ t > B.start => records = 0
    /\ B # None /\ t = B.start /\ ~B.saturated => records <= charges

AuditCounted(t) ==
    Audited(AuditBucket, t, recorded[t], granted["audit.events"][Everyone][t])

AuditCounts == \A t \in 0..MaxClock : AuditCounted(t)

WindowsInv == TypeOK /\ BucketsCount /\ AuditCounts

(* A request works by clocks read in its lifetime. *)
Timely(r) ==
    InFlight(r) =>
        /\ arrived[r] <= clock /\ clock <= arrived[r] + Deadline
        /\ call[r].pc = "open" => call[r].at = arrived[r]
        /\ call[r].pc \in {"consume", "finish"} =>
                arrived[r] <= call[r].at /\ call[r].at <= clock

(* The record of a ticket was written when its request arrived. *)
TicketHeld(r) ==
    HasTicket(r) /\ <<r, "finish">> \notin unacked =>
        LET rec == audit[call[r].slot] IN
        /\ rec # None
        /\ rec.event = r /\ rec.status = "pending" /\ rec.created = arrived[r]
        /\ arrived[r] <= rec.updated /\ rec.updated <= clock

TicketsInv == TypeOK /\ \A r \in Requests : Timely(r) /\ TicketHeld(r)

(* Windows begin at multiples of their length. *)
WindowsAligned ==
    \A b \in Budgets, n \in BucketSlots : bucket[b][n] # None =>
        \E x \in Nat : bucket[b][n].start = WindowStart(b, x)

Created(r) == home[HomeOf[r]] = r
Repeated(r) == <<r, "create">> \in unacked

(* What a request has done by its place in the handler. *)
Advanced(r) ==
    /\ call[r].pc \in {"new", "open", "route", "consume"} => ~Created(r)
    /\ call[r].pc = "create" => ~Created(r) \/ Repeated(r)
    /\ call[r].pc \in {"settle", "finish"} =>
            /\ call[r].outcome = "ok" => Created(r)
            /\ call[r].outcome = "denied" => ~Created(r) \/ Repeated(r)

(* A refusal of r is final: a rerun of its closure meets it again. *)
Refused(r) ==
    \/ call[r].pc \in {"settle", "finish", "closed"}
    \/ call[r].pc = "open" /\ \E b \in AtOpen : ~Chargeable(b, r, call[r].at)

Faithful(r) == Refused(r) /\ (~Created(r) \/ Repeated(r))

RecordTruthful(rec) ==
    /\ rec.status = "ok" => Created(rec.event)
    /\ rec.status = "denied" => Faithful(rec.event)

TruthInv ==
    /\ TypeOK /\ WindowsAligned
    /\ \A r \in Requests : Advanced(r)
    /\ \A n \in Slots : audit[n] # None => RecordTruthful(audit[n])

-----------------------------------------------------------------------------
(* Types. *)

(* Which fields a request's place has. *)
LEMMA Places ==
    ASSUME NEW c \in CallRecord
    PROVE  /\ c.pc \in {"new", "closed", "open", "route", "create", "consume", "settle", "finish"}
           /\ c.pc \in {"open", "consume", "finish"} => c.at \in Nat
           /\ c.pc \in {"route", "create", "consume", "settle", "finish"} => c.slot \in Slots
           /\ c.pc \in {"settle", "finish"} => c.outcome \in Outcomes
BY DEF CallRecord

LEMMA NewPlaces ==
    /\ [pc |-> "closed"] \in CallRecord
    /\ \A t \in Nat : [pc |-> "open", at |-> t] \in CallRecord
    /\ \A n \in Slots :
         /\ [pc |-> "route", slot |-> n] \in CallRecord
         /\ [pc |-> "create", slot |-> n] \in CallRecord
         /\ \A t \in Nat : [pc |-> "consume", slot |-> n, at |-> t] \in CallRecord
         /\ \A o \in Outcomes :
              /\ [pc |-> "settle", slot |-> n, outcome |-> o] \in CallRecord
              /\ \A t \in Nat :
                   [pc |-> "finish", slot |-> n, at |-> t, outcome |-> o] \in CallRecord
BY DEF CallRecord

LEMMA Goes ==
    ASSUME TypeOK, NEW r \in Requests, NEW place \in CallRecord, Goto(r, place)
    PROVE  /\ call' \in [Requests -> CallRecord] /\ call'[r] = place
           /\ \A q \in Requests \ {r} : call'[q] = call[q]
BY DEF TypeOK, Goto

LEMMA Commits ==
    ASSUME TypeOK, NEW r \in Requests, NEW place \in CallRecord, Commit(r, place)
    PROVE  /\ call' \in [Requests -> CallRecord] /\ lostAcks' \in Nat
           /\ call'[r] = place \/ call' = call
           /\ \A q \in Requests \ {r} : call'[q] = call[q]
<1>1. CASE Goto(r, place) /\ UNCHANGED lostAcks
  BY <1>1, Goes DEF TypeOK
<1>2. CASE lostAcks > 0 /\ lostAcks' = lostAcks - 1 /\ UNCHANGED call
  BY <1>2 DEF TypeOK
<1> QED BY <1>1, <1>2 DEF Commit

LEMMA Settles ==
    ASSUME TypeOK, NEW r \in Requests, NEW outcome \in Outcomes, Settle(r, outcome),
           call[r].slot \in Slots
    PROVE  /\ call' \in [Requests -> CallRecord]
           /\ call'[r] = [pc |-> "settle", slot |-> call[r].slot, outcome |-> outcome]
           /\ \A q \in Requests \ {r} : call'[q] = call[q]
BY Goes, NewPlaces DEF Settle

LEMMA Closes ==
    ASSUME TypeOK, NEW r \in Requests, Close(r)
    PROVE  /\ call' \in [Requests -> CallRecord] /\ call'[r] = [pc |-> "closed"]
           /\ \A q \in Requests \ {r} : call'[q] = call[q]
BY Goes, NewPlaces DEF Close

(* After a failure a request settles for an unknown outcome or ends. *)
LEMMA AfterFailures ==
    ASSUME TypeOK, NEW r \in Requests, AfterFailure(r),
           call[r].pc \in {"open", "consume", "create", "finish"}
    PROVE  /\ call' \in [Requests -> CallRecord]
           /\ \/ call'[r] = [pc |-> "closed"]
              \/ /\ call[r].pc # "open"
                 /\ call'[r] = [pc |-> "settle", slot |-> call[r].slot,
                                outcome |-> "outcome_unknown"]
           /\ \A q \in Requests \ {r} : call'[q] = call[q]
<1>1. CASE Close(r)
  BY <1>1, Closes
<1>2. CASE /\ Settle(r, "outcome_unknown")
           /\ call[r].pc \in {"consume", "create", "finish"}
  <2>1. call[r].slot \in Slots
    BY <1>2, Places DEF TypeOK
  <2> QED BY <1>2, <2>1, Settles DEF Outcomes
<1> QED BY <1>1, <1>2 DEF AfterFailure

LEMMA Recorded ==
    ASSUME TypeOK, NEW r \in Requests, NEW now \in Nat,
           NEW status \in {"pending", "ok", "denied", "outcome_unknown"},
           RecordEvent(r, status, now)
    PROVE  /\ audit' \in [Slots -> Record \cup {None}] /\ next' \in Slots
           /\ recorded' \in [0..MaxClock -> Nat]
           /\ audit'[next] = [event |-> r, status |-> status, created |-> now, updated |-> now]
           /\ \A n \in Slots \ {next} : audit'[n] = audit[n]
           /\ \A t \in 0..MaxClock :
                recorded'[t] = IF t = WindowStart("audit.events", now)
                               THEN recorded[t] + 1 ELSE recorded[t]
<1> DEFINE rec == [event |-> r, status |-> status, created |-> now, updated |-> now]
<1>1. rec \in Record
  BY DEF Record
<1>2. audit' = [audit EXCEPT ![next] = rec]
  BY DEF RecordEvent
<1>3. /\ audit \in [Slots -> Record \cup {None}] /\ next \in Slots
      /\ recorded \in [0..MaxClock -> Nat]
  BY DEF TypeOK
<1>4. next' \in Slots
  <2>1. next \in Nat /\ AuditSlots \in Nat \ {0}
    BY <1>3, AdmissionAssumption DEF Slots
  <2>2. (next + 1) % AuditSlots \in 0..(AuditSlots - 1)
    BY <2>1, DivisionWithRemainder
  <2> QED BY <2>2 DEF RecordEvent, Slots
<1>5. recorded' = [recorded EXCEPT ![WindowStart("audit.events", now)] = @ + 1]
  BY DEF RecordEvent
<1>6. recorded' \in [0..MaxClock -> Nat]
  <2> DEFINE w == WindowStart("audit.events", now)
  <2>1. recorded' = [recorded EXCEPT ![w] = recorded[w] + 1]
    BY <1>5
  <2>2. CASE w \in 0..MaxClock
    BY <1>3, <2>1, <2>2
  <2>3. CASE w \notin 0..MaxClock
    <3> HIDE DEF w
    <3> QED BY <1>3, <2>1, <2>3
  <2> QED BY <2>2, <2>3
<1> QED BY <1>1, <1>2, <1>3, <1>4, <1>5, <1>6

LEMMA OpenProper ==
    ASSUME NEW r \in Requests, NEW now \in Nat, ~OpenAborts(r, now)
    PROVE  /\ Proper({"audit.events"} \ Denied(AtOpen, r, now), Unmarked(AtOpen, r, now), r, now)
           /\ Denied(AtOpen, r, now) = {} => Proper(AtOpen, {}, r, now)
<1>1. "audit.events" \in AtOpen /\ AtOpen \subseteq Budgets
  BY DEF AtOpen, Budgets
<1>2. \A b \in AtOpen : ~Overtaken(b, r, now)
  BY DEF OpenAborts
<1> QED BY <1>1, <1>2 DEF Proper, Chargeable, Denied, Unmarked

LEMMA ConsumeProper ==
    ASSUME NEW r \in Requests, NEW now \in Nat, ~ConsumeAborts(r, now)
    PROVE  /\ Proper({}, Unmarked(AtCreate, r, now), r, now)
           /\ Denied(AtCreate, r, now) = {} => Proper(AtCreate, {}, r, now)
<1>1. AtCreate \subseteq Budgets
  BY DEF AtCreate
<1>2. \A b \in AtCreate : ~Overtaken(b, r, now)
  BY DEF ConsumeAborts
<1> QED BY <1>1, <1>2 DEF Proper, Chargeable, Denied, Unmarked

(* What a transaction writes to a ticket's record. *)
LEMMA Stamps ==
    ASSUME NEW rec \in Record, NEW t \in Nat, NEW outcome \in Outcomes
    PROVE  /\ [rec EXCEPT !.updated = t] \in Record
           /\ [rec EXCEPT !.updated = t] =
                [event |-> rec.event, status |-> rec.status, created |-> rec.created, updated |-> t]
           /\ [rec EXCEPT !.status = outcome, !.updated = t] \in Record
           /\ [rec EXCEPT !.status = outcome, !.updated = t] =
                [event |-> rec.event, status |-> outcome, created |-> rec.created, updated |-> t]
<1>1. /\ [rec EXCEPT !.updated = t] \in Record
      /\ [rec EXCEPT !.status = outcome, !.updated = t] \in Record
  BY DEF Record, Outcomes
<1>2. [rec EXCEPT !.updated = t] =
        [event |-> rec.event, status |-> rec.status, created |-> rec.created, updated |-> t]
  BY DEF Record
<1>3. [rec EXCEPT !.status = outcome, !.updated = t] =
        [event |-> rec.event, status |-> outcome, created |-> rec.created, updated |-> t]
  <2> DEFINE F == [rec EXCEPT !.status = outcome, !.updated = t]
  <2>1. /\ F.event = rec.event /\ F.status = outcome
        /\ F.created = rec.created /\ F.updated = t
    BY DEF Record
  <2>2. ASSUME NEW f \in Record
        PROVE  f = [event |-> f.event, status |-> f.status,
                    created |-> f.created, updated |-> f.updated]
    BY DEF Record
  <2>3. F = [event |-> F.event, status |-> F.status,
             created |-> F.created, updated |-> F.updated]
    BY <1>1, <2>2
  <2> HIDE DEF F
  <2>4. F = [event |-> rec.event, status |-> outcome, created |-> rec.created, updated |-> t]
    BY <2>1, <2>3
  <2> QED BY <2>4 DEF F
<1> QED BY <1>1, <1>2, <1>3

(* The record of a ticket, and what stamping it does to the ring. *)
LEMMA RecordTouched ==
    ASSUME TypeOK, NEW slot \in Slots, audit[slot] # None, NEW t \in Nat,
           audit' = [audit EXCEPT ![slot].updated = t]
    PROVE  /\ audit' \in [Slots -> Record \cup {None}] /\ audit'[slot] \in Record
           /\ audit'[slot] = [event |-> audit[slot].event, status |-> audit[slot].status,
                              created |-> audit[slot].created, updated |-> t]
           /\ \A n \in Slots \ {slot} : audit'[n] = audit[n]
<1> DEFINE U == [audit[slot] EXCEPT !.updated = t]
<1>1. audit \in [Slots -> Record \cup {None}] /\ audit[slot] \in Record
  BY DEF TypeOK
<1>2. /\ U \in Record
      /\ U = [event |-> audit[slot].event, status |-> audit[slot].status,
              created |-> audit[slot].created, updated |-> t]
  BY <1>1, Stamps DEF Outcomes
<1>3. audit' = [audit EXCEPT ![slot] = U]
  BY <1>1
<1> HIDE DEF U
<1> QED BY <1>1, <1>2, <1>3

LEMMA RecordFinished ==
    ASSUME TypeOK, NEW slot \in Slots, audit[slot] # None, NEW t \in Nat,
           NEW outcome \in Outcomes,
           audit' = [audit EXCEPT ![slot].status = outcome, ![slot].updated = t]
    PROVE  /\ audit' \in [Slots -> Record \cup {None}] /\ audit'[slot] \in Record
           /\ audit'[slot] = [event |-> audit[slot].event, status |-> outcome,
                              created |-> audit[slot].created, updated |-> t]
           /\ \A n \in Slots \ {slot} : audit'[n] = audit[n]
<1> DEFINE F == [audit[slot] EXCEPT !.status = outcome, !.updated = t]
<1>1. audit \in [Slots -> Record \cup {None}] /\ audit[slot] \in Record
  BY DEF TypeOK
<1>2. /\ F \in Record
      /\ F = [event |-> audit[slot].event, status |-> outcome,
              created |-> audit[slot].created, updated |-> t]
  BY <1>1, Stamps
<1>3. audit' = [audit EXCEPT ![slot] = F]
  BY <1>1
<1> HIDE DEF F
<1> QED BY <1>1, <1>2, <1>3

LEMMA TypeInit == Init => TypeOK
<1> SUFFICES ASSUME Init PROVE TypeOK
  OBVIOUS
<1>1. 0 \in Slots /\ 1 \in 1..MaxClock /\ 0 \in Nat
  BY AdmissionAssumption DEF Slots
<1>2. [pc |-> "new"] \in CallRecord
  BY DEF CallRecord
<1> QED BY <1>1, <1>2, AdmissionAssumption DEF Init, TypeOK

LEMMA TypeStep ==
    ASSUME TypeOK, NEW r \in Requests, Step(r)
    PROVE  TypeOK'
<1> USE DEF ledger, directory
<1>0. /\ clock \in Nat /\ call[r] \in CallRecord
      /\ audit \in [Slots -> Record \cup {None}]
  BY AdmissionAssumption DEF TypeOK
<1>1. CASE Arrive(r)
  <2>1. [pc |-> "open", at |-> clock] \in CallRecord
    BY <1>0, NewPlaces
  <2>2. call' \in [Requests -> CallRecord]
    BY <1>1, <2>1, Goes DEF Arrive
  <2>3. arrived' \in [Requests -> Nat]
    BY <1>0, <1>1 DEF Arrive, TypeOK
  <2> QED BY <1>1, <2>2, <2>3 DEF Arrive, TypeOK
<1>2. CASE OpenTx(r)
  <2> DEFINE now == call[r].at
             denied == Denied(AtOpen, r, now)
  <2>1. now \in Nat
    BY <1>0, <1>2, Places DEF OpenTx
  <2>2. CASE Close(r) /\ UNCHANGED <<ledger, lostAcks>>
    BY <1>2, <2>2, Closes DEF OpenTx, TypeOK
  <2>3. CASE /\ ~OpenAborts(r, now)
             /\ Write({"audit.events"} \ denied, Unmarked(AtOpen, r, now), r, now)
             /\ IF Recordable(r, now) THEN RecordEvent(r, "denied", now)
                ELSE UNCHANGED <<audit, next, recorded>>
             /\ Commit(r, [pc |-> "closed"])
    <3>1. /\ bucket' \in [Budgets -> [BucketSlots -> Bucket \cup {None}]]
          /\ granted' \in [Budgets -> [Subjects -> [0..MaxClock -> Nat]]]
      BY <2>1, <2>3, OpenProper, Written
    <3>2. /\ audit' \in [Slots -> Record \cup {None}] /\ next' \in Slots
          /\ recorded' \in [0..MaxClock -> Nat]
      <4>1. CASE RecordEvent(r, "denied", now)
        BY <2>1, <4>1, Recorded
      <4>2. CASE UNCHANGED <<audit, next, recorded>>
        BY <4>2 DEF TypeOK
      <4> QED BY <2>3, <4>1, <4>2
    <3>3. call' \in [Requests -> CallRecord] /\ lostAcks' \in Nat
      BY <2>3, Commits, NewPlaces
    <3> QED BY <1>2, <3>1, <3>2, <3>3 DEF OpenTx, TypeOK
  <2>4. CASE /\ ~OpenAborts(r, now) /\ denied = {}
             /\ Write(AtOpen, {}, r, now)
             /\ RecordEvent(r, "pending", now)
             /\ Commit(r, [pc |-> "route", slot |-> next])
    <3>1. /\ bucket' \in [Budgets -> [BucketSlots -> Bucket \cup {None}]]
          /\ granted' \in [Budgets -> [Subjects -> [0..MaxClock -> Nat]]]
      BY <2>1, <2>4, OpenProper, Written
    <3>2. /\ audit' \in [Slots -> Record \cup {None}] /\ next' \in Slots
          /\ recorded' \in [0..MaxClock -> Nat]
      BY <2>1, <2>4, Recorded
    <3>3. call' \in [Requests -> CallRecord] /\ lostAcks' \in Nat
      <4>1. [pc |-> "route", slot |-> next] \in CallRecord
        BY NewPlaces DEF TypeOK
      <4> QED BY <2>4, <4>1, Commits
    <3> QED BY <1>2, <3>1, <3>2, <3>3 DEF OpenTx, TypeOK
  <2> QED BY <1>2, <2>2, <2>3, <2>4 DEF OpenTx
<1>3. CASE Reject(r)
  <2>1. PICK outcome \in {"denied", "outcome_unknown"} : Settle(r, outcome)
    BY <1>3 DEF Reject
  <2>2. call' \in [Requests -> CallRecord]
    BY <1>0, <1>3, <2>1, Places, Settles DEF Reject, Outcomes
  <2> QED BY <1>3, <2>2 DEF Reject, TypeOK
<1>4. CASE BeginConsume(r)
  <2>1. call' \in [Requests -> CallRecord]
    BY <1>0, <1>4, Places, NewPlaces, Goes DEF BeginConsume
  <2> QED BY <1>4, <2>1 DEF BeginConsume, TypeOK
<1>5. CASE ConsumeTx(r)
  <2> DEFINE now == call[r].at
             slot == call[r].slot
  <2>1. now \in Nat /\ slot \in Slots
    BY <1>0, <1>5, Places DEF ConsumeTx
  <2>2. CASE /\ Settle(r, "outcome_unknown")
             /\ UNCHANGED <<bucket, granted, audit, lostAcks>>
    BY <1>5, <2>1, <2>2, Settles DEF ConsumeTx, TypeOK, Outcomes
  <2>3. CASE /\ ~ConsumeAborts(r, now)
             /\ Write({}, Unmarked(AtCreate, r, now), r, now)
             /\ UNCHANGED audit
             /\ Commit(r, [pc |-> "settle", slot |-> slot, outcome |-> "denied"])
    <3>1. /\ bucket' \in [Budgets -> [BucketSlots -> Bucket \cup {None}]]
          /\ granted' \in [Budgets -> [Subjects -> [0..MaxClock -> Nat]]]
      BY <2>1, <2>3, ConsumeProper, Written
    <3>2. call' \in [Requests -> CallRecord] /\ lostAcks' \in Nat
      <4>1. [pc |-> "settle", slot |-> slot, outcome |-> "denied"] \in CallRecord
        BY <2>1, NewPlaces DEF Outcomes
      <4> QED BY <2>3, <4>1, Commits
    <3> QED BY <1>5, <2>3, <3>1, <3>2 DEF ConsumeTx, TypeOK
  <2>4. CASE /\ ~ConsumeAborts(r, now) /\ Denied(AtCreate, r, now) = {}
             /\ Write(AtCreate, {}, r, now)
             /\ audit' = [audit EXCEPT ![slot].updated = now]
             /\ Commit(r, [pc |-> "create", slot |-> slot])
    <3>1. /\ bucket' \in [Budgets -> [BucketSlots -> Bucket \cup {None}]]
          /\ granted' \in [Budgets -> [Subjects -> [0..MaxClock -> Nat]]]
      BY <2>1, <2>4, ConsumeProper, Written
    <3>2. audit' \in [Slots -> Record \cup {None}]
      BY <2>1, <2>4, RecordTouched DEF ConsumeAborts, Mine
    <3>3. call' \in [Requests -> CallRecord] /\ lostAcks' \in Nat
      BY <2>1, <2>4, Commits, NewPlaces
    <3> QED BY <1>5, <2>4, <3>1, <3>2, <3>3 DEF ConsumeTx, TypeOK
  <2> QED BY <1>5, <2>2, <2>3, <2>4 DEF ConsumeTx
<1>6. CASE CreateTx(r)
  <2>1. call[r].slot \in Slots /\ HomeOf[r] \in Homes /\ UserOf[r] \in Subjects
    BY <1>0, <1>6, Places, AdmissionAssumption DEF CreateTx
  <2>2. CASE /\ \E outcome \in {"denied", "outcome_unknown"} : Settle(r, outcome)
             /\ UNCHANGED <<directory, lostAcks>>
    <3>1. call' \in [Requests -> CallRecord]
      BY <2>1, <2>2, Settles DEF Outcomes
    <3> QED BY <1>6, <2>2, <3>1 DEF CreateTx, TypeOK
  <2>3. CASE /\ home' = [home EXCEPT ![HomeOf[r]] = r]
             /\ owned' = [owned EXCEPT ![UserOf[r]] = @ + 1]
             /\ Commit(r, [pc |-> "settle", slot |-> call[r].slot, outcome |-> "ok"])
             /\ Acknowledge(r, "create")
    <3>1. call' \in [Requests -> CallRecord] /\ lostAcks' \in Nat
      BY <2>1, <2>3, Commits, NewPlaces DEF Outcomes
    <3>2. home' \in [Homes -> Requests \cup {None}] /\ owned' \in [Subjects -> Nat]
      BY <2>1, <2>3 DEF TypeOK
    <3>3. unacked' \subseteq Requests \X {"create", "finish"}
      BY <2>3 DEF TypeOK, Acknowledge
    <3> QED BY <1>6, <3>1, <3>2, <3>3 DEF CreateTx, TypeOK
  <2> QED BY <1>6, <2>2, <2>3 DEF CreateTx
<1>7. CASE BeginFinish(r)
  <2>1. call' \in [Requests -> CallRecord]
    BY <1>0, <1>7, Places, NewPlaces, Goes DEF BeginFinish
  <2> QED BY <1>7, <2>1 DEF BeginFinish, TypeOK
<1>8. CASE FinishTx(r)
  <2>1. call[r].at \in Nat /\ call[r].slot \in Slots /\ call[r].outcome \in Outcomes
    BY <1>0, <1>8, Places DEF FinishTx
  <2>2. CASE AfterFailure(r) /\ UNCHANGED <<audit, unacked, lostAcks>>
    BY <1>8, <2>2, AfterFailures DEF FinishTx, TypeOK
  <2>3. CASE Close(r) /\ UNCHANGED <<audit, unacked, lostAcks>>
    BY <1>8, <2>3, Closes DEF FinishTx, TypeOK
  <2>4. CASE /\ Mine(r)
             /\ audit' = [audit EXCEPT ![call[r].slot].status = call[r].outcome,
                                       ![call[r].slot].updated = call[r].at]
             /\ Commit(r, [pc |-> "closed"])
             /\ Acknowledge(r, "finish")
    <3>1. call' \in [Requests -> CallRecord] /\ lostAcks' \in Nat
      BY <2>4, Commits, NewPlaces
    <3>2. audit' \in [Slots -> Record \cup {None}]
      BY <2>1, <2>4, RecordFinished DEF Mine
    <3>3. unacked' \subseteq Requests \X {"create", "finish"}
      BY <2>4 DEF TypeOK, Acknowledge
    <3> QED BY <1>8, <3>1, <3>2, <3>3 DEF FinishTx, TypeOK
  <2> QED BY <1>8, <2>2, <2>3, <2>4 DEF FinishTx
<1>9. CASE Fail(r)
  BY <1>9, AfterFailures DEF Fail, TypeOK
<1>10. CASE Crash(r)
  BY <1>10, Closes DEF Crash, TypeOK
<1> QED BY <1>1, <1>2, <1>3, <1>4, <1>5, <1>6, <1>7, <1>8, <1>9, <1>10 DEF Step

LEMMA TypeNext == TypeOK /\ [Next]_vars => TypeOK'
<1> SUFFICES ASSUME TypeOK, [Next]_vars PROVE TypeOK'
  OBVIOUS
<1>1. CASE Tick
  BY <1>1, AdmissionAssumption DEF Tick, TypeOK, ledger, directory
<1>2. CASE UNCHANGED vars
  BY <1>2 DEF vars, TypeOK, ledger, directory
<1> QED BY <1>1, <1>2, TypeStep DEF Next

(* Every document, request and history variable has its type. *)
THEOREM TypeCorrect == Spec => []TypeOK
BY TypeInit, TypeNext, PTL DEF Spec

-----------------------------------------------------------------------------
(* No window is charged beyond its limit. *)

LEMMA Budgeted ==
    ASSUME TypeOK, NEW b \in Budgets, NEW s \in Subjects
    PROVE  /\ Window[b] \in Nat \ {0} /\ Maximum[b] \in Nat \ {0}
           /\ SlotOf[b][s] \in BucketSlots
           /\ bucket[b][SlotOf[b][s]] \in Bucket \cup {None}
           /\ \A t \in 0..MaxClock : granted[b][s][t] \in Nat
<1>1. /\ granted[b] \in [Subjects -> [0..MaxClock -> Nat]]
      /\ bucket[b] \in [BucketSlots -> Bucket \cup {None}]
  BY DEF TypeOK
<1>2. granted[b][s] \in [0..MaxClock -> Nat]
  BY <1>1
<1>3. Window[b] \in Nat \ {0} /\ Maximum[b] \in Nat \ {0}
  BY AdmissionAssumption
<1>4. SlotOf[b][s] \in BucketSlots
  BY AdmissionAssumption DEF BucketSlots
<1>5. bucket[b][SlotOf[b][s]] \in Bucket \cup {None}
  BY <1>1, <1>4
<1>6. \A t \in 0..MaxClock : granted[b][s][t] \in Nat
  BY <1>2
<1> QED BY <1>3, <1>4, <1>5, <1>6

(* A window that is begun is later than the one whose bucket it takes over.*)
LEMMA BegunLater ==
    ASSUME TypeOK, NEW b \in Budgets, NEW r \in Requests, NEW now \in Nat,
           Unused(b, r, now), Found(b, r) # None
    PROVE  Found(b, r).start < WindowStart(b, now)
<1>1. Found(b, r) \in Bucket /\ Found(b, r).start \in Nat
  BY FoundType DEF Bucket
<1>2. Window[b] \in Nat
  BY AdmissionAssumption
<1> QED BY <1>1, <1>2, Windows DEF Unused

LEMMA WriteKeepsCount ==
    ASSUME TypeOK, BucketsCount, NEW r \in Requests, NEW now \in Nat,
           NEW charged, NEW marked,
           Proper(charged, marked, r, now), Write(charged, marked, r, now),
           NEW b \in Budgets, NEW s \in Subjects, NEW t \in 0..MaxClock
    PROVE  Counted(b, s, t)'
<1> DEFINE n == SlotOf[b][s]
           B == bucket[b][n]
           W == WindowStart(b, now)
<1>1. /\ Maximum[b] \in Nat \ {0} /\ n \in BucketSlots
      /\ B \in Bucket \cup {None} /\ granted[b][s][t] \in Nat
      /\ Subject(b, r) \in Subjects /\ W \in Nat
  BY Budgeted, Subjected, Windows
<1>2. Within(B, s, t, granted[b][s][t], Maximum[b])
  BY DEF BucketsCount, Counted
<1> SUFFICES Within(bucket'[b][n], s, t, granted'[b][s][t], Maximum[b])
  BY DEF Counted
<1>3. /\ bucket'[b][n] = IF n # SlotOf[b][Subject(b, r)] THEN B
                         ELSE IF b \in charged THEN Charged(b, r, now)
                         ELSE IF b \in marked THEN Marked(b, r)
                         ELSE B
      /\ granted'[b][s][t] = IF b \in charged /\ s = Subject(b, r) /\ t = W
                             THEN granted[b][s][t] + 1 ELSE granted[b][s][t]
  BY <1>1, Written
<1>4. n = SlotOf[b][Subject(b, r)] => Found(b, r) = B
  BY DEF Found
<1>5. B # None => B.start \in Nat /\ B.used \in Nat
  BY <1>1 DEF Bucket
<1>6. None \notin Bucket
  BY AdmissionAssumption
<1>7. CASE n # SlotOf[b][Subject(b, r)]
  BY <1>2, <1>3, <1>7 DEF Within
<1>8. CASE n = SlotOf[b][Subject(b, r)] /\ b \notin charged
  <2>1. CASE b \in marked
    <3>1. B \in Bucket
      BY <1>1, <1>4, <1>8, <2>1 DEF Proper, Exhausted, Unused
    <3>2. /\ bucket'[b][n] \in Bucket
          /\ bucket'[b][n].start = B.start /\ bucket'[b][n].used = B.used
          /\ bucket'[b][n].subject = B.subject
      BY <1>3, <1>4, <1>8, <2>1, <3>1, MarkedType
    <3> QED BY <1>2, <1>3, <1>6, <1>8, <3>1, <3>2 DEF Within
  <2>2. CASE b \notin marked
    BY <1>2, <1>3, <1>8, <2>2 DEF Within
  <2> QED BY <2>1, <2>2
<1>9. CASE n = SlotOf[b][Subject(b, r)] /\ b \in charged
  <2> DEFINE C == Charged(b, r, now)
  <2>1. bucket'[b][n] = C /\ C \in Bucket /\ C # None
    BY <1>3, <1>6, <1>9, ChargedType
  <2>2. Chargeable(b, r, now)
    BY <1>9 DEF Proper
  <2>3. CASE Unused(b, r, now)
    <3>1. C.start = W /\ C.used = 1 /\ C.subject = Subject(b, r)
      BY <2>3, ChargedType
    <3>2. B # None => B.start < W
      BY <1>4, <1>9, <2>3, BegunLater
    <3>3. t >= W => granted[b][s][t] = 0
      BY <1>1, <1>2, <1>5, <3>2 DEF Within
    <3> HIDE DEF C, W, B
    <3> QED BY <1>1, <1>2, <1>3, <2>1, <3>1, <3>3 DEF Within
  <2>4. CASE ~Unused(b, r, now)
    <3>1. /\ B \in Bucket /\ B.start = W /\ B.subject = Subject(b, r)
          /\ B.used < Maximum[b]
      BY <1>1, <1>4, <1>5, <1>9, <2>2, <2>4
         DEF Chargeable, Occupied, Overtaken, Exhausted, Unused
    <3>2. /\ C.start = B.start /\ C.used = B.used + 1 /\ C.subject = B.subject
      BY <1>4, <1>9, <2>4, ChargedType
    <3> HIDE DEF C, W, B
    <3> QED BY <1>1, <1>2, <1>3, <1>5, <1>6, <2>1, <3>1, <3>2 DEF Within
  <2> QED BY <2>3, <2>4
<1> QED BY <1>7, <1>8, <1>9

LEMMA WriteKeepsCounts ==
    ASSUME TypeOK, BucketsCount, NEW r \in Requests, NEW now \in Nat,
           NEW charged, NEW marked,
           Proper(charged, marked, r, now), Write(charged, marked, r, now)
    PROVE  BucketsCount'
BY WriteKeepsCount DEF BucketsCount

(* A record is written exactly when its budget is charged or marked. *)
LEMMA WriteKeepsAuditCounts ==
    ASSUME TypeOK, BucketsCount, AuditCounts, NEW r \in Requests, NEW now \in Nat,
           NEW charged, NEW marked,
           Proper(charged, marked, r, now), Write(charged, marked, r, now),
           \A t \in 0..MaxClock :
               recorded'[t] = IF /\ "audit.events" \in charged \cup marked
                                 /\ t = WindowStart("audit.events", now)
                              THEN recorded[t] + 1 ELSE recorded[t]
    PROVE  AuditCounts'
<1> SUFFICES ASSUME NEW t \in 0..MaxClock PROVE AuditCounted(t)'
  BY DEF AuditCounts
<1> DEFINE b == "audit.events"
           n == SlotOf[b][Everyone]
           B == bucket[b][n]
           W == WindowStart(b, now)
           g == granted[b][Everyone][t]
<1>1. b \in Budgets /\ Everyone \in Subjects /\ Subject(b, r) = Everyone
  BY AdmissionAssumption DEF Budgets, Subject
<1>2. /\ n \in BucketSlots /\ B \in Bucket \cup {None} /\ g \in Nat
      /\ W \in Nat /\ recorded[t] \in Nat /\ Found(b, r) = B
  <2>1. n \in BucketSlots /\ B \in Bucket \cup {None} /\ g \in Nat
    BY <1>1, Budgeted
  <2>2. W \in Nat
    BY <1>1, Windows
  <2>3. Found(b, r) = B
    BY <1>1 DEF Found
  <2> QED BY <2>1, <2>2, <2>3 DEF TypeOK
<1>3. Audited(B, t, recorded[t], g)
  BY DEF AuditCounts, AuditCounted, AuditBucket
<1>4. /\ bucket'[b][n] = IF b \in charged THEN Charged(b, r, now)
                         ELSE IF b \in marked THEN Marked(b, r)
                         ELSE B
      /\ granted'[b][Everyone][t] = IF b \in charged /\ t = W THEN g + 1 ELSE g
      /\ recorded'[t] = IF b \in charged \cup marked /\ t = W
                        THEN recorded[t] + 1 ELSE recorded[t]
  <2>1. bucket'[b][n] = IF n # SlotOf[b][Subject(b, r)] THEN bucket[b][n]
                        ELSE IF b \in charged THEN Charged(b, r, now)
                        ELSE IF b \in marked THEN Marked(b, r)
                        ELSE bucket[b][n]
    <3> HIDE DEF b, n
    <3> QED BY <1>1, <1>2, Written
  <2>2. granted'[b][Everyone][t] =
            IF b \in charged /\ Everyone = Subject(b, r) /\ t = WindowStart(b, now)
            THEN granted[b][Everyone][t] + 1 ELSE granted[b][Everyone][t]
    <3> HIDE DEF b, n
    <3> QED BY <1>1, <1>2, Written
  <2>3. recorded'[t] = IF b \in charged \cup marked /\ t = W
                       THEN recorded[t] + 1 ELSE recorded[t]
    OBVIOUS
  <2> QED BY <1>1, <2>1, <2>2, <2>3
<1>5. B # None => B.start \in Nat /\ B.saturated \in BOOLEAN
  BY <1>2 DEF Bucket
<1>6. None \notin Bucket
  BY AdmissionAssumption
<1> SUFFICES Audited(bucket'[b][n], t, recorded'[t], granted'[b][Everyone][t])
  BY DEF AuditCounted, AuditBucket
<1>7. CASE b \in charged
  <2> DEFINE C == Charged(b, r, now)
  <2>1. bucket'[b][n] = C /\ C \in Bucket /\ C # None
    BY <1>1, <1>4, <1>6, <1>7, ChargedType
  <2>2. CASE Unused(b, r, now)
    <3>1. C.start = W
      BY <1>1, <2>2, ChargedType
    <3>2. B # None => B.start < W
      BY <1>1, <1>2, <2>2, BegunLater
    <3>3. t >= W => recorded[t] = 0
      BY <1>2, <1>3, <1>5, <3>2 DEF Audited
    <3> HIDE DEF C, W, B, g, n, b
    <3> QED BY <1>2, <1>3, <1>4, <1>7, <2>1, <3>1, <3>3 DEF Audited
  <2>3. CASE ~Unused(b, r, now)
    <3>1. Chargeable(b, r, now)
      BY <1>7 DEF Proper
    <3>2. B \in Bucket /\ B # None /\ B.start = W
      BY <1>2, <1>5, <2>3, <3>1 DEF Chargeable, Overtaken, Unused
    <3>3. C.start = Found(b, r).start /\ C.saturated = Found(b, r).saturated
      BY <1>1, <2>3, ChargedType
    <3> HIDE DEF C, W, B, g, n, b
    <3>4. C.start = B.start /\ C.saturated = B.saturated
      BY <1>2, <3>3
    <3> QED BY <1>2, <1>3, <1>4, <1>5, <1>7, <2>1, <3>2, <3>4 DEF Audited
  <2> QED BY <2>2, <2>3
<1>8. CASE b \notin charged /\ b \in marked
  <2>1. /\ B \in Bucket /\ B # None /\ B.start = W /\ ~B.saturated
    BY <1>2, <1>5, <1>8 DEF Proper, Exhausted, Overtaken, Unused
  <2>2. /\ Marked(b, r) \in Bucket /\ Marked(b, r) # None
        /\ Marked(b, r).start = B.start /\ Marked(b, r).saturated
    <3> HIDE DEF W, B, g, n, b
    <3>1. Found(b, r) \in Bucket
      BY <1>2, <2>1
    <3>2. /\ Marked(b, r) \in Bucket /\ Marked(b, r).saturated = TRUE
          /\ Marked(b, r).start = Found(b, r).start
      BY <1>1, <3>1, MarkedType
    <3> QED BY <1>2, <1>6, <3>2
  <2> HIDE DEF W, B, g, n, b
  <2>3. /\ bucket'[b][n] = Marked(b, r) /\ granted'[b][Everyone][t] = g
        /\ recorded'[t] = IF t = W THEN recorded[t] + 1 ELSE recorded[t]
    BY <1>4, <1>8
  <2>4. CASE t = W
    <3>1. recorded[t] <= g
      BY <1>3, <2>1, <2>4 DEF Audited
    <3> QED BY <1>2, <2>1, <2>2, <2>3, <2>4, <3>1 DEF Audited
  <2>5. CASE t # W
    BY <1>2, <1>3, <2>1, <2>2, <2>3, <2>5 DEF Audited
  <2> QED BY <2>4, <2>5
<1>9. CASE b \notin charged /\ b \notin marked
  BY <1>3, <1>4, <1>9 DEF Audited
<1> QED BY <1>7, <1>8, <1>9

LEMMA WindowsInit == Init => WindowsInv
<1> SUFFICES ASSUME Init PROVE BucketsCount /\ AuditCounts
  BY TypeInit DEF WindowsInv
<1>1. ASSUME NEW b \in Budgets, NEW s \in Subjects, NEW t \in 0..MaxClock
      PROVE  Counted(b, s, t)
  <2>1. bucket[b][SlotOf[b][s]] = None /\ granted[b][s][t] = 0 /\ 0 <= Maximum[b]
    BY AdmissionAssumption DEF Init, BucketSlots
  <2> QED BY <2>1 DEF Counted, Within
<1>2. AuditCounts
  <2>1. "audit.events" \in Budgets /\ Everyone \in Subjects
    BY AdmissionAssumption DEF Budgets
  <2>2. AuditBucket = None /\ \A t \in 0..MaxClock :
            recorded[t] = 0 /\ granted["audit.events"][Everyone][t] = 0
    BY <2>1 DEF Init, BucketSlots, AuditBucket
  <2> QED BY <2>2 DEF AuditCounts, AuditCounted, Audited
<1> QED BY <1>1, <1>2 DEF BucketsCount

LEMMA CountsUnchanged ==
    ASSUME WindowsInv, UNCHANGED <<bucket, granted, recorded>>
    PROVE  BucketsCount' /\ AuditCounts'
BY DEF WindowsInv, BucketsCount, Counted, AuditCounts, AuditCounted, AuditBucket

LEMMA WindowsStep ==
    ASSUME WindowsInv, NEW r \in Requests, Step(r)
    PROVE  BucketsCount' /\ AuditCounts'
<1> USE DEF ledger, directory
<1> TypeOK /\ BucketsCount /\ AuditCounts /\ call[r] \in CallRecord
  BY DEF WindowsInv, TypeOK
<1>1. CASE OpenTx(r)
  <2> DEFINE now == call[r].at
             denied == Denied(AtOpen, r, now)
             marked == Unmarked(AtOpen, r, now)
  <2>1. now \in Nat
    BY <1>1, Places DEF OpenTx
  <2>2. CASE UNCHANGED ledger
    BY <2>2, CountsUnchanged
  <2>3. CASE /\ ~OpenAborts(r, now)
             /\ Write({"audit.events"} \ denied, marked, r, now)
             /\ IF Recordable(r, now) THEN RecordEvent(r, "denied", now)
                ELSE UNCHANGED <<audit, next, recorded>>
    <3>1. Proper({"audit.events"} \ denied, marked, r, now)
      BY <2>1, <2>3, OpenProper
    <3>2. Recordable(r, now) <=> "audit.events" \in ({"audit.events"} \ denied) \cup marked
      BY DEF Recordable
    <3>3. \A t \in 0..MaxClock :
            recorded'[t] = IF /\ "audit.events" \in ({"audit.events"} \ denied) \cup marked
                              /\ t = WindowStart("audit.events", now)
                           THEN recorded[t] + 1 ELSE recorded[t]
      <4>1. CASE Recordable(r, now)
        <5>1. RecordEvent(r, "denied", now)
          BY <2>3, <4>1
        <5> HIDE DEF now, denied, marked
        <5>2. \A t \in 0..MaxClock :
                recorded'[t] = IF t = WindowStart("audit.events", now)
                               THEN recorded[t] + 1 ELSE recorded[t]
          BY <2>1, <5>1, Recorded
        <5> QED BY <3>2, <4>1, <5>2
      <4>2. CASE ~Recordable(r, now)
        BY <2>3, <3>2, <4>2
      <4> QED BY <4>1, <4>2
    <3> HIDE DEF now, denied, marked
    <3> QED BY <2>1, <2>3, <3>1, <3>3, WriteKeepsCounts, WriteKeepsAuditCounts
  <2>4. CASE /\ ~OpenAborts(r, now) /\ denied = {}
             /\ Write(AtOpen, {}, r, now)
             /\ RecordEvent(r, "pending", now)
    <3>1. Proper(AtOpen, {}, r, now)
      BY <2>1, <2>4, OpenProper
    <3>2. \A t \in 0..MaxClock :
            recorded'[t] = IF /\ "audit.events" \in AtOpen \cup {}
                              /\ t = WindowStart("audit.events", now)
                           THEN recorded[t] + 1 ELSE recorded[t]
      <4>1. RecordEvent(r, "pending", now)
        BY <2>4
      <4> HIDE DEF now, denied
      <4>2. \A t \in 0..MaxClock :
              recorded'[t] = IF t = WindowStart("audit.events", now)
                             THEN recorded[t] + 1 ELSE recorded[t]
        BY <2>1, <4>1, Recorded
      <4> QED BY <4>2 DEF AtOpen
    <3>3. Write(AtOpen, {}, r, now)
      BY <2>4
    <3> HIDE DEF now, denied
    <3>4. BucketsCount'
      BY <2>1, <3>1, <3>3, WriteKeepsCounts
    <3>5. AuditCounts'
      BY <2>1, <3>1, <3>2, <3>3, WriteKeepsAuditCounts
    <3> QED BY <3>4, <3>5
  <2> QED BY <1>1, <2>2, <2>3, <2>4 DEF OpenTx
<1>2. CASE ConsumeTx(r)
  <2> DEFINE now == call[r].at
             marked == Unmarked(AtCreate, r, now)
  <2>1. now \in Nat /\ UNCHANGED recorded
    BY <1>2, Places DEF ConsumeTx
  <2>2. CASE UNCHANGED <<bucket, granted>>
    BY <2>1, <2>2, CountsUnchanged
  <2>3. CASE ~ConsumeAborts(r, now) /\ Write({}, marked, r, now)
    <3>1. Proper({}, marked, r, now)
      BY <2>1, <2>3, ConsumeProper
    <3>2. "audit.events" \notin {} \cup marked
      BY DEF Unmarked, AtCreate, AtOpen
    <3> HIDE DEF now, marked
    <3> QED BY <2>1, <2>3, <3>1, <3>2, WriteKeepsCounts, WriteKeepsAuditCounts
  <2>4. CASE /\ ~ConsumeAborts(r, now) /\ Denied(AtCreate, r, now) = {}
             /\ Write(AtCreate, {}, r, now)
    <3>1. Proper(AtCreate, {}, r, now)
      BY <2>1, <2>4, ConsumeProper
    <3>2. "audit.events" \notin AtCreate \cup {}
      BY DEF AtCreate, AtOpen
    <3> QED BY <2>1, <2>4, <3>1, <3>2, WriteKeepsCounts, WriteKeepsAuditCounts
  <2> QED BY <1>2, <2>2, <2>3, <2>4 DEF ConsumeTx
<1>3. CASE Step(r) /\ ~OpenTx(r) /\ ~ConsumeTx(r)
  BY <1>3, CountsUnchanged
     DEF Step, Arrive, Reject, BeginConsume, CreateTx, BeginFinish, FinishTx, Fail, Crash
<1> QED BY <1>1, <1>2, <1>3

LEMMA WindowsNext == WindowsInv /\ [Next]_vars => WindowsInv'
<1> SUFFICES ASSUME WindowsInv, [Next]_vars PROVE BucketsCount' /\ AuditCounts'
  BY TypeNext DEF WindowsInv
<1>1. CASE Tick
  BY <1>1, CountsUnchanged DEF Tick, ledger, directory
<1>2. CASE UNCHANGED vars
  BY <1>2, CountsUnchanged DEF vars, ledger, directory
<1> QED BY <1>1, <1>2, WindowsStep DEF Next

LEMMA WindowsInvHolds == WindowsInv => WindowsHold
<1> SUFFICES ASSUME WindowsInv PROVE WindowsHold
  OBVIOUS
<1>1. ASSUME NEW b \in Budgets, NEW s \in Subjects, NEW t \in 0..MaxClock
      PROVE  granted[b][s][t] <= Maximum[b]
  BY DEF WindowsInv, BucketsCount, Counted, Within
<1>2. ASSUME NEW t \in 0..MaxClock
      PROVE  recorded[t] <= Maximum["audit.events"] + 1
  <2> DEFINE g == granted["audit.events"][Everyone][t]
             m == Maximum["audit.events"]
  <2>1. "audit.events" \in Budgets /\ Everyone \in Subjects
    BY AdmissionAssumption DEF Budgets
  <2>2. g \in Nat /\ m \in Nat /\ recorded[t] \in Nat
    BY <2>1, Budgeted DEF WindowsInv, TypeOK
  <2>3. g <= m
    BY <1>1, <2>1
  <2>4. recorded[t] <= g + 1
    BY DEF WindowsInv, AuditCounts, AuditCounted, Audited
  <2> HIDE DEF g, m
  <2>5. recorded[t] <= m + 1
    BY <2>2, <2>3, <2>4
  <2> QED BY <2>5 DEF m
<1> QED BY <1>1, <1>2 DEF WindowsHold

(* However requests race across the end of a window with clocks read       *)
(* earlier, share bucket slots and rerun their closures, no window is      *)
(* charged beyond its limit, nor the audit beyond its own and one marker.  *)
THEOREM WindowsAlwaysHold == Spec => []WindowsHold
<1>1. Spec => []WindowsInv
  BY WindowsInit, WindowsNext, PTL DEF Spec
<1> QED BY <1>1, WindowsInvHolds, PTL

-----------------------------------------------------------------------------
(* A ticket's record stays. *)

LEMMA Clocks ==
    ASSUME TypeOK
    PROVE  /\ clock \in Nat /\ Deadline \in Nat /\ Retention \in Nat /\ Deadline < Retention
           /\ \A q \in Requests : arrived[q] \in Nat
           /\ \A n \in Slots : audit[n] # None =>
                /\ audit[n] \in Record
                /\ audit[n].created \in Nat /\ audit[n].updated \in Nat
BY AdmissionAssumption DEF TypeOK, Record

LEMMA TicketSlot ==
    ASSUME TypeOK, NEW r \in Requests, HasTicket(r)
    PROVE  call[r].slot \in Slots
<1>1. call[r] \in CallRecord
  BY DEF TypeOK
<1> QED BY <1>1, Places DEF HasTicket, InFlight

(* A record in the ring that a request in flight may still complete. *)
Fresh(n, r) ==
    /\ audit[n] # None /\ Readable(audit[n])
    /\ audit[n].event = r /\ audit[n].status = "pending"
    /\ clock < audit[n].created + Retention

LEMMA TicketFresh ==
    ASSUME TicketsInv, NEW r \in Requests, HasTicket(r), <<r, "finish">> \notin unacked
    PROVE  /\ call[r].slot \in Slots /\ Fresh(call[r].slot, r)
<1>1. TypeOK /\ Timely(r) /\ TicketHeld(r) /\ InFlight(r)
  BY DEF TicketsInv, HasTicket
<1>2. call[r].slot \in Slots
  BY <1>1, TicketSlot
<1> QED BY <1>1, <1>2, Clocks DEF Timely, TicketHeld, Fresh, Readable

(* The record that a newcomer overwrites is not fresh. *)
LEMMA AllocatedNotFresh ==
    ASSUME TicketsInv, NEW now \in Nat, now <= clock, Allocatable(now), NEW r \in Requests
    PROVE  ~Fresh(next, r)
<1>1. TypeOK /\ next \in Slots
  BY DEF TicketsInv, TypeOK
<1> QED BY <1>1, Clocks DEF Allocatable, Fresh

(* A step of one request that spares another's fresh record. *)
LEMMA TicketKept ==
    ASSUME TicketsInv, NEW q \in Requests,
           call'[q] = call[q], arrived'[q] = arrived[q], clock' = clock, unacked \subseteq unacked',
           \A n \in Slots : Fresh(n, q) => audit'[n] = audit[n]
    PROVE  Timely(q)' /\ TicketHeld(q)'
<1>1. TypeOK /\ Timely(q) /\ TicketHeld(q)
  BY DEF TicketsInv
<1>2. Timely(q)'
  BY <1>1 DEF Timely, InFlight
<1>3. ASSUME HasTicket(q)', <<q, "finish">> \notin unacked'
      PROVE  HasTicket(q) /\ <<q, "finish">> \notin unacked /\ audit'[call[q].slot] = audit[call[q].slot]
  <2>1. HasTicket(q) /\ <<q, "finish">> \notin unacked
    BY <1>3 DEF HasTicket, InFlight
  <2> QED BY <2>1, TicketFresh
<1>4. TicketHeld(q)'
  BY <1>1, <1>3 DEF TicketHeld
<1> QED BY <1>2, <1>4

(* A step of a request that has, keeps and does not touch its record. *)
LEMMA TicketCarried ==
    ASSUME TicketsInv, NEW r \in Requests, HasTicket(r),
           arrived' = arrived, clock' = clock, unacked \subseteq unacked', audit' = audit,
           \/ call'[r].pc \in {"new", "closed"}
           \/ /\ call'[r].pc # "open" /\ call'[r].slot = call[r].slot
              /\ call'[r].pc \in {"consume", "finish"} =>
                    call'[r].at = clock \/ call'[r] = call[r]
    PROVE  Timely(r)' /\ TicketHeld(r)'
<1>1. TypeOK /\ Timely(r) /\ TicketHeld(r) /\ InFlight(r)
  BY DEF TicketsInv, HasTicket
<1> QED BY <1>1, Clocks DEF Timely, TicketHeld, HasTicket, InFlight

LEMMA TicketsInit == Init => TicketsInv
<1> SUFFICES ASSUME Init PROVE \A r \in Requests : Timely(r) /\ TicketHeld(r)
  BY TypeInit DEF TicketsInv
<1>1. \A r \in Requests : call[r].pc = "new"
  BY DEF Init
<1> QED BY <1>1 DEF Timely, TicketHeld, HasTicket, InFlight

LEMMA TicketsStep ==
    ASSUME TicketsInv, NEW r \in Requests, Step(r)
    PROVE  \A q \in Requests : Timely(q)' /\ TicketHeld(q)'
<1> USE DEF ledger, directory
<1>0. /\ TypeOK /\ call[r] \in CallRecord /\ Timely(r) /\ TicketHeld(r) /\ next \in Slots
      /\ clock \in Nat /\ Deadline \in Nat /\ arrived[r] \in Nat
  BY Clocks DEF TicketsInv, TypeOK
<1> DEFINE Others == /\ \A q \in Requests \ {r} : call'[q] = call[q] /\ arrived'[q] = arrived[q]
                     /\ clock' = clock /\ unacked \subseteq unacked'
                     /\ \A q \in Requests \ {r}, n \in Slots : Fresh(n, q) => audit'[n] = audit[n]
           Own    == Timely(r)' /\ TicketHeld(r)'
<1>1. SUFFICES Others /\ Own
  BY TicketKept
<1>2. CASE Arrive(r)
  <2>1. call'[r] = [pc |-> "open", at |-> clock] /\ arrived'[r] = clock
    BY <1>0, <1>2, Goes, NewPlaces DEF Arrive, TypeOK
  <2>2. Own
    BY <1>0, <1>2, <2>1 DEF Arrive, Timely, TicketHeld, HasTicket, InFlight
  <2>3. Others
    BY <1>0, <1>2, Goes, NewPlaces DEF Arrive, TypeOK
  <2> QED BY <2>2, <2>3
<1>3. CASE OpenTx(r)
  <2> DEFINE now == call[r].at
             denied == Denied(AtOpen, r, now)
  <2>1. /\ now \in Nat /\ now = arrived[r] /\ now <= clock /\ call[r].pc = "open"
        /\ UNCHANGED <<clock, unacked, arrived>>
    BY <1>0, <1>3, Places DEF OpenTx, Timely, InFlight
  <2>2. ASSUME NEW status \in {"pending", "denied"}, RecordEvent(r, status, now), ~OpenAborts(r, now),
               Recordable(r, now)
        PROVE  /\ \A q \in Requests, n \in Slots : Fresh(n, q) => audit'[n] = audit[n]
               /\ audit'[next] = [event |-> r, status |-> status, created |-> now, updated |-> now]
    <3>1. \A q \in Requests : ~Fresh(next, q)
      BY <2>1, <2>2, AllocatedNotFresh DEF OpenAborts
    <3>2. status \in {"pending", "ok", "denied", "outcome_unknown"}
      OBVIOUS
    <3>3. /\ audit'[next] = [event |-> r, status |-> status, created |-> now, updated |-> now]
          /\ \A n \in Slots \ {next} : audit'[n] = audit[n]
      <4> HIDE DEF now
      <4> QED BY <1>0, <2>1, <2>2, <3>2, Recorded
    <3> QED BY <3>1, <3>3
  <2>3. CASE Close(r) /\ UNCHANGED <<ledger, lostAcks>>
    <3>1. Own
      BY <1>0, <2>3, Closes DEF Timely, TicketHeld, HasTicket, InFlight
    <3>2. Others
      BY <1>0, <2>1, <2>3, Closes
    <3> QED BY <3>1, <3>2
  <2>4. CASE /\ ~OpenAborts(r, now)
             /\ IF Recordable(r, now) THEN RecordEvent(r, "denied", now)
                ELSE UNCHANGED <<audit, next, recorded>>
             /\ Commit(r, [pc |-> "closed"])
    <3>1. \A q \in Requests, n \in Slots : Fresh(n, q) => audit'[n] = audit[n]
      BY <2>2, <2>4
    <3>2. /\ call'[r] = [pc |-> "closed"] \/ call'[r] = call[r]
          /\ \A q \in Requests \ {r} : call'[q] = call[q]
      BY <1>0, <2>4, Commits, NewPlaces
    <3>3. Own
      BY <1>0, <2>1, <3>2 DEF Timely, TicketHeld, HasTicket, InFlight
    <3> QED BY <2>1, <3>1, <3>2, <3>3
  <2>5. CASE /\ ~OpenAborts(r, now) /\ denied = {}
             /\ RecordEvent(r, "pending", now)
             /\ Commit(r, [pc |-> "route", slot |-> next])
    <3>1. /\ \A q \in Requests, n \in Slots : Fresh(n, q) => audit'[n] = audit[n]
          /\ audit'[next] = [event |-> r, status |-> "pending", created |-> now, updated |-> now]
      BY <2>2, <2>5 DEF Recordable
    <3>2. /\ call'[r] = [pc |-> "route", slot |-> next] \/ call'[r] = call[r]
          /\ \A q \in Requests \ {r} : call'[q] = call[q]
      BY <1>0, <2>5, Commits, NewPlaces
    <3>3. [event |-> r, status |-> "pending", created |-> now, updated |-> now] # None
      BY <2>1, AdmissionAssumption DEF Record
    <3>4. CASE call'[r] = [pc |-> "route", slot |-> next]
      <4>1. /\ audit'[next] # None /\ audit'[next].event = r /\ audit'[next].status = "pending"
            /\ audit'[next].created = now /\ audit'[next].updated = now
        BY <3>1, <3>3
      <4>2. Own
        BY <1>0, <2>1, <3>4, <4>1 DEF Timely, TicketHeld, HasTicket, InFlight
      <4> QED BY <2>1, <3>1, <3>2, <4>2
    <3>5. CASE call'[r] = call[r]
      <4>1. Own
        BY <1>0, <2>1, <3>5 DEF Timely, TicketHeld, HasTicket, InFlight
      <4> QED BY <2>1, <3>1, <3>2, <4>1
    <3> QED BY <3>2, <3>4, <3>5
  <2> QED BY <1>3, <2>3, <2>4, <2>5 DEF OpenTx
<1>4. CASE Reject(r)
  <2>1. PICK outcome \in {"denied", "outcome_unknown"} : Settle(r, outcome)
    BY <1>4 DEF Reject
  <2>2. HasTicket(r) /\ call[r].slot \in Slots
    BY <1>0, <1>4, TicketSlot DEF Reject, HasTicket, InFlight
  <2>3. /\ call'[r] = [pc |-> "settle", slot |-> call[r].slot, outcome |-> outcome]
        /\ \A q \in Requests \ {r} : call'[q] = call[q]
    BY <1>0, <2>1, <2>2, Settles DEF Outcomes
  <2>4. Own
    BY <1>4, <2>2, <2>3, TicketCarried DEF Reject
  <2> QED BY <1>4, <2>3, <2>4 DEF Reject
<1>5. CASE BeginConsume(r)
  <2>1. HasTicket(r) /\ call[r].slot \in Slots
    BY <1>0, <1>5, TicketSlot DEF BeginConsume, HasTicket, InFlight
  <2>2. /\ call'[r] = [pc |-> "consume", slot |-> call[r].slot, at |-> clock]
        /\ \A q \in Requests \ {r} : call'[q] = call[q]
    BY <1>0, <1>5, <2>1, Goes, NewPlaces DEF BeginConsume
  <2>3. Own
    BY <1>5, <2>1, <2>2, TicketCarried DEF BeginConsume
  <2> QED BY <1>5, <2>2, <2>3 DEF BeginConsume
<1>6. CASE ConsumeTx(r)
  <2> DEFINE now == call[r].at
             slot == call[r].slot
  <2>1. /\ call[r].pc = "consume" /\ HasTicket(r) /\ slot \in Slots
        /\ now \in Nat /\ arrived[r] <= now /\ now <= clock
        /\ UNCHANGED <<clock, unacked, arrived>>
    BY <1>0, <1>6, TicketSlot, Places DEF ConsumeTx, HasTicket, InFlight, Timely
  <2>2. CASE Settle(r, "outcome_unknown") /\ UNCHANGED audit
    <3>1. /\ call'[r] = [pc |-> "settle", slot |-> slot, outcome |-> "outcome_unknown"]
          /\ \A q \in Requests \ {r} : call'[q] = call[q]
      BY <1>0, <2>1, <2>2, Settles DEF Outcomes
    <3>2. Own
      BY <2>1, <2>2, <3>1, TicketCarried
    <3> QED BY <2>1, <2>2, <3>1, <3>2
  <2>3. CASE /\ UNCHANGED audit
             /\ Commit(r, [pc |-> "settle", slot |-> slot, outcome |-> "denied"])
    <3>1. /\ \/ call'[r] = [pc |-> "settle", slot |-> slot, outcome |-> "denied"]
             \/ call'[r] = call[r]
          /\ \A q \in Requests \ {r} : call'[q] = call[q]
      BY <1>0, <2>1, <2>3, Commits, NewPlaces DEF Outcomes
    <3>2. Own
      BY <2>1, <2>3, <3>1, TicketCarried
    <3> QED BY <2>1, <2>3, <3>1, <3>2
  <2>4. CASE /\ ~ConsumeAborts(r, now)
             /\ audit' = [audit EXCEPT ![slot].updated = now]
             /\ Commit(r, [pc |-> "create", slot |-> slot])
    <3>1. /\ call'[r] = [pc |-> "create", slot |-> slot] \/ call'[r] = call[r]
          /\ \A q \in Requests \ {r} : call'[q] = call[q]
      BY <1>0, <2>1, <2>4, Commits, NewPlaces
    <3>2. audit[slot] # None /\ audit[slot].event = r
      BY <2>4 DEF ConsumeAborts, Mine
    <3>3. /\ audit'[slot] = [event |-> audit[slot].event, status |-> audit[slot].status,
                             created |-> audit[slot].created, updated |-> now]
          /\ audit'[slot] \in Record
          /\ \A n \in Slots \ {slot} : audit'[n] = audit[n]
      BY <1>0, <2>1, <2>4, <3>2, RecordTouched
    <3>4. audit'[slot] # None
      BY <3>3, AdmissionAssumption DEF Record
    <3>5. /\ call'[r].pc \in {"create", "consume"} /\ call'[r].slot = slot
          /\ call'[r].pc = "consume" => call'[r].at = now
      BY <2>1, <3>1
    <3>6. Timely(r)'
      BY <1>0, <2>1, <3>5 DEF Timely, InFlight
    <3>7. TicketHeld(r)'
      BY <1>0, <2>1, <3>2, <3>3, <3>4, <3>5 DEF TicketHeld
    <3>8. \A q \in Requests \ {r}, n \in Slots : Fresh(n, q) => audit'[n] = audit[n]
      BY <3>2, <3>3 DEF Fresh
    <3> QED BY <2>1, <3>1, <3>6, <3>7, <3>8
  <2> QED BY <1>6, <2>2, <2>3, <2>4 DEF ConsumeTx
<1>7. CASE CreateTx(r)
  <2>1. /\ HasTicket(r) /\ call[r].slot \in Slots /\ call[r].pc = "create"
        /\ UNCHANGED <<clock, audit, arrived>>
    BY <1>0, <1>7, TicketSlot DEF CreateTx, HasTicket, InFlight
  <2>2. /\ call'[r].pc \in {"create", "settle"} /\ call'[r].slot = call[r].slot
        /\ \A q \in Requests \ {r} : call'[q] = call[q]
        /\ unacked \subseteq unacked'
    <3>1. CASE /\ \E outcome \in {"denied", "outcome_unknown"} : Settle(r, outcome)
               /\ UNCHANGED directory
      <4>1. PICK outcome \in {"denied", "outcome_unknown"} : Settle(r, outcome)
        BY <3>1
      <4>2. /\ call'[r] = [pc |-> "settle", slot |-> call[r].slot, outcome |-> outcome]
            /\ \A q \in Requests \ {r} : call'[q] = call[q]
        BY <1>0, <2>1, <4>1, Settles DEF Outcomes
      <4> QED BY <3>1, <4>2
    <3>2. CASE /\ Commit(r, [pc |-> "settle", slot |-> call[r].slot, outcome |-> "ok"])
               /\ Acknowledge(r, "create")
      <4>1. /\ \/ call'[r] = [pc |-> "settle", slot |-> call[r].slot, outcome |-> "ok"]
               \/ call' = call
            /\ \A q \in Requests \ {r} : call'[q] = call[q]
        BY <1>0, <2>1, <3>2, Commits, NewPlaces DEF Outcomes
      <4>2. unacked \subseteq unacked'
        BY <3>2 DEF Acknowledge
      <4> QED BY <2>1, <4>1, <4>2
    <3> QED BY <1>7, <3>1, <3>2 DEF CreateTx
  <2>3. Own
    BY <2>1, <2>2, TicketCarried
  <2> QED BY <2>1, <2>2, <2>3
<1>8. CASE BeginFinish(r)
  <2>1. HasTicket(r) /\ call[r].slot \in Slots /\ call[r].outcome \in Outcomes
    BY <1>0, <1>8, TicketSlot, Places DEF BeginFinish, HasTicket, InFlight
  <2>2. /\ call'[r] = [pc |-> "finish", slot |-> call[r].slot, at |-> clock,
                       outcome |-> call[r].outcome]
        /\ \A q \in Requests \ {r} : call'[q] = call[q]
    BY <1>0, <1>8, <2>1, Goes, NewPlaces DEF BeginFinish
  <2>3. Own
    BY <1>8, <2>1, <2>2, TicketCarried DEF BeginFinish
  <2> QED BY <1>8, <2>2, <2>3 DEF BeginFinish
<1>9. CASE FinishTx(r)
  <2> DEFINE slot == call[r].slot
  <2>1. /\ HasTicket(r) /\ slot \in Slots /\ call[r].outcome \in Outcomes
        /\ call[r].pc = "finish" /\ call[r].at \in Nat /\ UNCHANGED <<clock, arrived>>
    BY <1>0, <1>9, TicketSlot, Places DEF FinishTx, HasTicket, InFlight
  <2>2. CASE (AfterFailure(r) \/ Close(r)) /\ UNCHANGED <<audit, unacked>>
    <3>1. /\ \/ call'[r] = [pc |-> "closed"]
             \/ call'[r] = [pc |-> "settle", slot |-> slot, outcome |-> "outcome_unknown"]
          /\ \A q \in Requests \ {r} : call'[q] = call[q]
      BY <1>0, <2>1, <2>2, AfterFailures, Closes
    <3>2. Own
      BY <2>1, <2>2, <3>1, TicketCarried
    <3> QED BY <2>1, <2>2, <3>1, <3>2
  <2>3. CASE /\ Mine(r)
             /\ audit' = [audit EXCEPT ![slot].status = call[r].outcome,
                                       ![slot].updated = call[r].at]
             /\ Commit(r, [pc |-> "closed"])
             /\ Acknowledge(r, "finish")
    <3>1. /\ call'[r] = [pc |-> "closed"] \/ call' = call
          /\ \A q \in Requests \ {r} : call'[q] = call[q]
      BY <1>0, <2>3, Commits, NewPlaces
    <3>2. unacked \subseteq unacked' /\ (call' = call => <<r, "finish">> \in unacked')
      BY <2>3 DEF Acknowledge
    <3>3. \A q \in Requests \ {r}, n \in Slots : Fresh(n, q) => audit'[n] = audit[n]
      BY <1>0, <2>1, <2>3, RecordFinished DEF Fresh, Mine
    <3>4. Own
      BY <1>0, <2>1, <3>1, <3>2 DEF Timely, TicketHeld, HasTicket, InFlight
    <3> QED BY <2>1, <3>1, <3>2, <3>3, <3>4
  <2> QED BY <1>9, <2>2, <2>3 DEF FinishTx
<1>10. CASE Fail(r)
  <2>1. /\ \/ call'[r] = [pc |-> "closed"]
           \/ /\ call[r].pc # "open"
              /\ call'[r] = [pc |-> "settle", slot |-> call[r].slot,
                             outcome |-> "outcome_unknown"]
        /\ \A q \in Requests \ {r} : call'[q] = call[q]
    BY <1>0, <1>10, AfterFailures DEF Fail
  <2>2. CASE call'[r] = [pc |-> "closed"]
    BY <1>10, <2>1, <2>2 DEF Fail, Timely, TicketHeld, HasTicket, InFlight
  <2>3. CASE call[r].pc # "open" /\ call'[r].pc = "settle" /\ call'[r].slot = call[r].slot
    <3>1. HasTicket(r)
      BY <1>10, <2>3 DEF Fail, HasTicket, InFlight
    <3>2. Own
      BY <1>10, <2>3, <3>1, TicketCarried DEF Fail
    <3> QED BY <1>10, <2>1, <3>2 DEF Fail
  <2> QED BY <2>1, <2>2, <2>3
<1>11. CASE Crash(r)
  BY <1>0, <1>11, Closes DEF Crash, Timely, TicketHeld, HasTicket, InFlight
<1> QED BY <1>2, <1>3, <1>4, <1>5, <1>6, <1>7, <1>8, <1>9, <1>10, <1>11 DEF Step

LEMMA TicketsNext == TicketsInv /\ [Next]_vars => TicketsInv'
<1> SUFFICES ASSUME TicketsInv, [Next]_vars
             PROVE  \A q \in Requests : Timely(q)' /\ TicketHeld(q)'
  BY TypeNext DEF TicketsInv
<1>1. CASE Tick
  <2> SUFFICES ASSUME NEW q \in Requests PROVE Timely(q)' /\ TicketHeld(q)'
    OBVIOUS
  <2>1. TypeOK /\ Timely(q) /\ TicketHeld(q) /\ (HasTicket(q) => call[q].slot \in Slots)
    BY TicketSlot DEF TicketsInv
  <2>2. Timely(q)'
    BY <1>1, <2>1, Clocks, Places DEF Tick, Timely, InFlight, TypeOK, ledger, directory
  <2>3. TicketHeld(q)'
    BY <1>1, <2>1, Clocks DEF Tick, TicketHeld, HasTicket, InFlight, ledger, directory
  <2> QED BY <2>2, <2>3
<1>2. CASE UNCHANGED vars
  BY <1>2 DEF vars, TicketsInv, Timely, TicketHeld, HasTicket, InFlight, ledger, directory
<1> QED BY <1>1, <1>2, TicketsStep DEF Next

LEMMA TicketsInvHolds == TicketsInv => TicketKeepsItsRecord
BY TicketFresh DEF TicketKeepsItsRecord, Fresh, Mine

(* Until its completion commits, the ring keeps the unfinished record that *)
(* a request's ticket names, and no clock finds it expired or unreadable.  *)
THEOREM TicketAlwaysKept == Spec => []TicketKeepsItsRecord
<1>1. Spec => []TicketsInv
  BY TicketsInit, TicketsNext, PTL DEF Spec
<1> QED BY <1>1, TicketsInvHolds, PTL

-----------------------------------------------------------------------------
(* The audit tells the truth. *)

(* A charge by one request never makes a refused one of another, or of the *)
(* same request by the same clock, possible again: a bucket only fills up, *)
(* or gives way to one of a later window.                                  *)
LEMMA RefusalStays ==
    ASSUME TypeOK, WindowsAligned, NEW r \in Requests, NEW now \in Nat,
           NEW charged, NEW marked,
           Proper(charged, marked, r, now), Write(charged, marked, r, now),
           NEW q \in Requests, NEW t \in Nat, NEW b \in Budgets, ~Chargeable(b, q, t)
    PROVE  ~Chargeable(b, q, t)'
<1> DEFINE B  == Found(b, q)
           B2 == Found(b, q)'
           s  == Subject(b, q)
           W  == WindowStart(b, t)
           Refuses(C) == /\ C # None /\ t < C.start + Window[b]
                         /\ C.subject # s \/ C.start # W \/ C.used >= Maximum[b]
<1>1. /\ s \in Subjects /\ SlotOf[b][s] \in BucketSlots /\ W \in Nat
      /\ B \in Bucket \cup {None} /\ Window[b] \in Nat \ {0} /\ Maximum[b] \in Nat \ {0}
      /\ None \notin Bucket
  BY Subjected, FoundType, Windows, AdmissionAssumption
<1>2. /\ \A C \in Bucket : C.start \in Nat /\ C.used \in Nat
      /\ \A C \in Bucket \cup {None} :
            Refuses(C) <=> ~(C = None \/ C.start + Window[b] <= t)
                           /\ (C.subject # s \/ C.start # W \/ C.used >= Maximum[b])
  <2>1. \A C \in Bucket : C.start \in Nat /\ C.used \in Nat
    BY DEF Bucket
  <2> QED BY <1>1, <2>1
<1>3. Refuses(B)
  BY <1>1, <1>2 DEF Chargeable, Occupied, Overtaken, Exhausted, Unused
<1>4. B2 \in Bucket /\ Refuses(B2) => ~Chargeable(b, q, t)'
  BY <1>1, <1>2 DEF Chargeable, Occupied, Overtaken, Exhausted, Unused
<1>5. B \in Bucket /\ B.start \in Nat /\ B.used \in Nat
  BY <1>1, <1>2, <1>3
<1>6. B2 = IF SlotOf[b][s] # SlotOf[b][Subject(b, r)] THEN B
           ELSE IF b \in charged THEN Charged(b, r, now)
           ELSE IF b \in marked THEN Marked(b, r)
           ELSE B
  BY <1>1, Written DEF Found
<1>7. CASE B2 = B
  BY <1>3, <1>4, <1>5, <1>7
<1>8. CASE /\ SlotOf[b][s] = SlotOf[b][Subject(b, r)]
           /\ b \notin charged /\ b \in marked
  <2>1. Found(b, r) = B
    BY <1>8 DEF Found
  <2>2. /\ B2 \in Bucket /\ B2.start = B.start /\ B2.used = B.used
        /\ B2.subject = B.subject
    BY <1>5, <1>6, <1>8, <2>1, MarkedType
  <2>3. Refuses(B2)
    BY <1>1, <1>3, <2>2
  <2> QED BY <1>4, <2>2, <2>3
<1>9. CASE SlotOf[b][s] = SlotOf[b][Subject(b, r)] /\ b \in charged
  <2>1. Found(b, r) = B
    BY <1>9 DEF Found
  <2>2. B2 = Charged(b, r, now) /\ B2 \in Bucket /\ Chargeable(b, r, now)
    BY <1>6, <1>9, ChargedType DEF Proper
  <2>3. B2.start \in Nat /\ B2.used \in Nat
    BY <1>2, <2>2
  <2>4. CASE Unused(b, r, now)
    <3>1. B2.start = WindowStart(b, now)
      BY <2>2, <2>4, ChargedType
    <3>2. B.start < B2.start
      BY <1>1, <1>5, <2>1, <2>4, <3>1, BegunLater
    <3>3. PICK x \in Nat : B.start = WindowStart(b, x)
      BY <1>1, <1>5 DEF WindowsAligned, Found
    <3>4. W <= B.start
      BY <1>3, <3>3, WindowsApart
    <3>5. t < B2.start + Window[b] /\ B2.start # W
      <4> HIDE DEF W, B, B2
      <4>1. t < B.start + Window[b]
        BY <1>3
      <4> QED BY <1>1, <1>5, <2>3, <3>2, <3>4, <4>1
    <3>6. Refuses(B2)
      BY <1>1, <2>2, <3>5
    <3> QED BY <1>4, <2>2, <3>6
  <2>5. CASE ~Unused(b, r, now)
    <3>1. /\ B2.start = B.start /\ B2.used = B.used + 1 /\ B2.subject = B.subject
      BY <2>1, <2>2, <2>5, ChargedType
    <3>2. Refuses(B2)
      <4> HIDE DEF W, B, B2, s
      <4> QED BY <1>1, <1>3, <1>5, <2>2, <3>1
    <3> QED BY <1>4, <2>2, <3>2
  <2> QED BY <2>4, <2>5
<1> QED BY <1>6, <1>7, <1>8, <1>9

LEMMA AlignedStays ==
    ASSUME TypeOK, WindowsAligned, NEW r \in Requests, NEW now \in Nat,
           NEW charged, NEW marked,
           Proper(charged, marked, r, now), Write(charged, marked, r, now)
    PROVE  WindowsAligned'
<1> SUFFICES ASSUME NEW b \in Budgets, NEW n \in BucketSlots, bucket'[b][n] # None
             PROVE  \E x \in Nat : bucket'[b][n].start = WindowStart(b, x)
  BY DEF WindowsAligned
<1>1. bucket'[b][n] = IF n # SlotOf[b][Subject(b, r)] THEN bucket[b][n]
                      ELSE IF b \in charged THEN Charged(b, r, now)
                      ELSE IF b \in marked THEN Marked(b, r)
                      ELSE bucket[b][n]
  BY Written
<1>2. bucket[b][n] # None => \E x \in Nat : bucket[b][n].start = WindowStart(b, x)
  BY DEF WindowsAligned
<1>3. n = SlotOf[b][Subject(b, r)] => Found(b, r) = bucket[b][n]
  BY DEF Found
<1>4. CASE bucket'[b][n] = bucket[b][n]
  BY <1>2, <1>4
<1>5. CASE n = SlotOf[b][Subject(b, r)] /\ b \in charged
  <2>1. CASE Unused(b, r, now)
    BY <1>1, <1>5, <2>1, ChargedType
  <2>2. CASE ~Unused(b, r, now)
    <3>1. bucket'[b][n].start = bucket[b][n].start /\ bucket[b][n] # None
      BY <1>1, <1>3, <1>5, <2>2, ChargedType DEF Unused
    <3> QED BY <1>2, <3>1
  <2> QED BY <2>1, <2>2
<1>6. CASE n = SlotOf[b][Subject(b, r)] /\ b \notin charged /\ b \in marked
  <2>1. Found(b, r) \in Bucket /\ Found(b, r) # None
    BY <1>6, FoundType DEF Proper, Exhausted, Unused
  <2>2. bucket'[b][n].start = bucket[b][n].start
    BY <1>1, <1>3, <1>6, <2>1, MarkedType
  <2> QED BY <1>2, <1>3, <1>6, <2>1, <2>2
<1> QED BY <1>1, <1>4, <1>5, <1>6

(* A step keeps what records say of a request. *)
Carried(r) ==
    /\ Created(r) => Created(r)'
    /\ Faithful(r) => Faithful(r)'

RefusalsStay ==
    /\ WindowsAligned'
    /\ \A q \in Requests, t \in Nat, b \in Budgets :
         ~Chargeable(b, q, t) => ~Chargeable(b, q, t)'

LEMMA Refusals ==
    ASSUME TypeOK, WindowsAligned,
           \/ UNCHANGED bucket
           \/ \E r \in Requests, now \in Nat, charged, marked \in SUBSET Budgets :
                Proper(charged, marked, r, now) /\ Write(charged, marked, r, now)
    PROVE  RefusalsStay
<1>1. CASE UNCHANGED bucket
  BY <1>1 DEF RefusalsStay, WindowsAligned, Chargeable, Occupied, Overtaken, Exhausted,
              Unused, Found
<1>2. CASE \E r \in Requests, now \in Nat, charged, marked \in SUBSET Budgets :
             Proper(charged, marked, r, now) /\ Write(charged, marked, r, now)
  <2>1. PICK r \in Requests, now \in Nat, charged, marked \in SUBSET Budgets :
             Proper(charged, marked, r, now) /\ Write(charged, marked, r, now)
    BY <1>2
  <2> QED BY <2>1, AlignedStays, RefusalStays DEF RefusalsStay
<1> QED BY <1>1, <1>2

(* Which buckets a step writes. *)
LEMMA StepRefusals ==
    ASSUME TypeOK, WindowsAligned, NEW r \in Requests, Step(r)
    PROVE  RefusalsStay
<1> call[r] \in CallRecord
  BY DEF TypeOK
<1>1. CASE OpenTx(r)
  <2> DEFINE now == call[r].at
             charged == {"audit.events"} \ Denied(AtOpen, r, now)
             marked == Unmarked(AtOpen, r, now)
  <2>1. now \in Nat
    BY <1>1, Places DEF OpenTx
  <2>2. CASE UNCHANGED ledger
    BY <2>2, Refusals DEF ledger
  <2>3. CASE ~OpenAborts(r, now) /\ Write(charged, marked, r, now)
    <3>1. Proper(charged, marked, r, now) /\ charged \in SUBSET Budgets /\ marked \in SUBSET Budgets
      BY <2>1, <2>3, OpenProper DEF Proper
    <3> HIDE DEF now, charged, marked
    <3> QED BY <2>1, <2>3, <3>1, Refusals
  <2>4. CASE ~OpenAborts(r, now) /\ Denied(AtOpen, r, now) = {} /\ Write(AtOpen, {}, r, now)
    <3>1. Proper(AtOpen, {}, r, now) /\ AtOpen \in SUBSET Budgets /\ {} \in SUBSET Budgets
      BY <2>1, <2>4, OpenProper DEF Proper
    <3> HIDE DEF now
    <3> QED BY <2>1, <2>4, <3>1, Refusals
  <2> QED BY <1>1, <2>2, <2>3, <2>4 DEF OpenTx
<1>2. CASE ConsumeTx(r)
  <2> DEFINE now == call[r].at
             marked == Unmarked(AtCreate, r, now)
  <2>1. now \in Nat
    BY <1>2, Places DEF ConsumeTx
  <2>2. CASE UNCHANGED bucket
    BY <2>2, Refusals
  <2>3. CASE ~ConsumeAborts(r, now) /\ Write({}, marked, r, now)
    <3>1. Proper({}, marked, r, now) /\ {} \in SUBSET Budgets /\ marked \in SUBSET Budgets
      BY <2>1, <2>3, ConsumeProper DEF Proper
    <3> HIDE DEF now, marked
    <3> QED BY <2>1, <2>3, <3>1, Refusals
  <2>4. CASE ~ConsumeAborts(r, now) /\ Denied(AtCreate, r, now) = {} /\ Write(AtCreate, {}, r, now)
    <3>1. Proper(AtCreate, {}, r, now) /\ AtCreate \in SUBSET Budgets /\ {} \in SUBSET Budgets
      BY <2>1, <2>4, ConsumeProper DEF Proper
    <3> HIDE DEF now
    <3> QED BY <2>1, <2>4, <3>1, Refusals
  <2> QED BY <1>2, <2>2, <2>3, <2>4 DEF ConsumeTx
<1>3. CASE Step(r) /\ ~OpenTx(r) /\ ~ConsumeTx(r)
  <2>1. UNCHANGED bucket
    BY <1>3 DEF Step, Arrive, Reject, BeginConsume, CreateTx, BeginFinish, FinishTx, Fail,
                Crash, ledger
  <2> QED BY <2>1, Refusals
<1> QED BY <1>1, <1>2, <1>3

(* A request that takes no step keeps its truth. *)
LEMMA TruthOthers ==
    ASSUME TruthInv, RefusalsStay, NEW q \in Requests, call'[q] = call[q],
           Created(q)' <=> Created(q), unacked \subseteq unacked'
    PROVE  Advanced(q)' /\ Carried(q)
<1>1. TypeOK /\ Advanced(q) /\ call[q] \in CallRecord /\ AtOpen \subseteq Budgets
  BY DEF TruthInv, TypeOK, AtOpen, Budgets
<1>2. Repeated(q) => Repeated(q)'
  BY DEF Repeated
<1>3. Advanced(q)'
  BY <1>1, <1>2 DEF Advanced
<1>4. Refused(q) => Refused(q)'
  <2>1. CASE call[q].pc \in {"settle", "finish", "closed"}
    BY <2>1 DEF Refused
  <2>2. CASE call[q].pc = "open"
    <3>1. call[q].at \in Nat
      BY <1>1, <2>2, Places
    <3>2. \A b \in AtOpen : ~Chargeable(b, q, call[q].at) => ~Chargeable(b, q, call[q].at)'
      <4> SUFFICES ASSUME NEW b \in AtOpen, ~Chargeable(b, q, call[q].at)
                   PROVE  ~Chargeable(b, q, call[q].at)'
        OBVIOUS
      <4>1. \A t \in Nat : ~Chargeable(b, q, t) => ~Chargeable(b, q, t)'
        BY <1>1 DEF RefusalsStay
      <4> QED BY <3>1, <4>1
    <3> QED BY <2>2, <3>2 DEF Refused
  <2> QED BY <2>1, <2>2 DEF Refused
<1> QED BY <1>2, <1>3, <1>4 DEF Carried, Faithful

(* A record is kept by a step that writes at most its time of update. *)
SameWord(old, new) == new.event = old.event /\ new.status = old.status

LEMMA TruthStep ==
    ASSUME TruthInv, NEW r \in Requests, Step(r)
    PROVE  /\ WindowsAligned' /\ \A q \in Requests : Advanced(q)'
           /\ \A n \in Slots : audit'[n] # None => RecordTruthful(audit[n])'
<1> USE DEF ledger, directory
<1>0. /\ TypeOK /\ WindowsAligned /\ call[r] \in CallRecord /\ Advanced(r)
      /\ HomeOf[r] \in Homes /\ next \in Slots /\ None \notin Requests
      /\ home \in [Homes -> Requests \cup {None}]
  BY AdmissionAssumption DEF TruthInv, TypeOK
<1>1. RefusalsStay
  BY <1>0, StepRefusals
<1> DEFINE Others == /\ \A q \in Requests \ {r} : /\ call'[q] = call[q]
                                                  /\ Created(q)' <=> Created(q)
                     /\ unacked \subseteq unacked'
           Own     == Advanced(r)' /\ Carried(r)
           Records == \A n \in Slots : audit'[n] # None =>
                        \/ audit[n] # None /\ SameWord(audit[n], audit'[n])
                        \/ RecordTruthful(audit[n])'
<1>2. SUFFICES Others /\ Own /\ Records
  <2>1. \A q \in Requests : Advanced(q)' /\ Carried(q)
    BY <1>1, <1>2, TruthOthers
  <2>2. ASSUME NEW n \in Slots, audit'[n] # None, audit[n] # None,
               SameWord(audit[n], audit'[n])
        PROVE  RecordTruthful(audit[n])'
    <3>1. RecordTruthful(audit[n]) /\ audit[n].event \in Requests
      BY <1>0, <2>2 DEF TruthInv, TypeOK, Record
    <3>2. Carried(audit[n].event)
      BY <2>1, <3>1
    <3> QED BY <2>2, <3>1, <3>2 DEF RecordTruthful, Carried, SameWord
  <2> QED BY <1>1, <1>2, <2>1, <2>2 DEF RefusalsStay
<1>3. ASSUME UNCHANGED audit PROVE Records
  BY <1>3 DEF SameWord
<1>4. ASSUME UNCHANGED home PROVE \A q \in Requests : Created(q)' <=> Created(q)
  BY <1>4 DEF Created
<1>5. CASE Arrive(r)
  <2>1. /\ call[r].pc = "new" /\ call'[r].pc = "open"
        /\ \A q \in Requests \ {r} : call'[q] = call[q]
    BY <1>0, <1>5, Goes, NewPlaces DEF Arrive, TypeOK
  <2>2. Own
    BY <1>0, <1>4, <1>5, <2>1 DEF Arrive, Advanced, Carried, Faithful, Refused
  <2> QED BY <1>3, <1>4, <1>5, <2>1, <2>2 DEF Arrive
<1>6. CASE OpenTx(r)
  <2> DEFINE now == call[r].at
             denied == Denied(AtOpen, r, now)
  <2>1. /\ now \in Nat /\ call[r].pc = "open" /\ UNCHANGED <<home, unacked>>
        /\ ~Created(r) /\ ~Created(r)'
    BY <1>0, <1>4, <1>6, Places DEF OpenTx, Advanced
  <2>2. CASE Close(r) /\ UNCHANGED ledger
    <3>1. call'[r] = [pc |-> "closed"] /\ \A q \in Requests \ {r} : call'[q] = call[q]
      BY <1>0, <2>2, Closes
    <3>2. Own
      BY <2>1, <3>1 DEF Advanced, Carried, Faithful, Refused
    <3> QED BY <1>3, <1>4, <2>1, <2>2, <3>1, <3>2
  <2>3. CASE /\ ~OpenAborts(r, now) /\ denied # {}
             /\ IF Recordable(r, now) THEN RecordEvent(r, "denied", now)
                ELSE UNCHANGED <<audit, next, recorded>>
             /\ Commit(r, [pc |-> "closed"])
    <3>1. /\ call'[r] = [pc |-> "closed"] \/ call'[r] = call[r]
          /\ \A q \in Requests \ {r} : call'[q] = call[q]
      BY <1>0, <2>3, Commits, NewPlaces
    <3>2. PICK b \in AtOpen : ~Chargeable(b, r, now)
      BY <2>3 DEF Denied, Chargeable
    <3>3. ~Chargeable(b, r, now)'  \/ call'[r] # call[r]
      <4>1. b \in Budgets
        BY DEF AtOpen, Budgets
      <4>2. \A t \in Nat : ~Chargeable(b, r, t) => ~Chargeable(b, r, t)'
        BY <1>1, <4>1 DEF RefusalsStay
      <4> QED BY <2>1, <3>2, <4>2
    <3>4. Faithful(r)'
      BY <2>1, <3>1, <3>3 DEF Faithful, Refused
    <3>5. Own
      BY <2>1, <3>1, <3>4 DEF Advanced, Carried
    <3>6. Records
      <4>1. CASE RecordEvent(r, "denied", now)
        <5>1. PICK m \in Slots : m = next
          BY <1>0
        <5>2. /\ audit'[m] = [event |-> r, status |-> "denied", created |-> now, updated |-> now]
              /\ \A n \in Slots \ {m} : audit'[n] = audit[n]
          BY <1>0, <2>1, <4>1, <5>1, Recorded
        <5>3. audit'[m].event = r /\ audit'[m].status = "denied"
          BY <5>2
        <5>4. RecordTruthful(audit[m])'
          BY <3>4, <5>3 DEF RecordTruthful
        <5> QED BY <5>2, <5>4 DEF SameWord
      <4>2. CASE UNCHANGED audit
        BY <1>3, <4>2
      <4> QED BY <2>3, <4>1, <4>2
    <3> QED BY <1>4, <2>1, <3>1, <3>5, <3>6
  <2>4. CASE /\ ~OpenAborts(r, now) /\ denied = {}
             /\ RecordEvent(r, "pending", now)
             /\ Commit(r, [pc |-> "route", slot |-> next])
    <3>1. /\ call'[r] = [pc |-> "route", slot |-> next] \/ call'[r] = call[r]
          /\ \A q \in Requests \ {r} : call'[q] = call[q]
      BY <1>0, <2>4, Commits, NewPlaces
    <3>2. ~Refused(r)
      BY <2>1, <2>4 DEF Refused, Chargeable, OpenAborts, Denied
    <3>3. Own
      BY <2>1, <3>1, <3>2 DEF Advanced, Carried, Faithful
    <3>4. PICK m \in Slots : m = next
      BY <1>0
    <3>5. /\ audit'[m] = [event |-> r, status |-> "pending", created |-> now, updated |-> now]
          /\ \A n \in Slots \ {m} : audit'[n] = audit[n]
      BY <1>0, <2>1, <2>4, <3>4, Recorded
    <3>6. RecordTruthful(audit[m])'
      BY <3>5 DEF RecordTruthful
    <3>7. Records
      BY <3>5, <3>6 DEF SameWord
    <3> QED BY <1>4, <2>1, <3>1, <3>3, <3>7
  <2> QED BY <1>6, <2>2, <2>3, <2>4 DEF OpenTx
<1>7. CASE Reject(r)
  <2>1. PICK outcome \in {"denied", "outcome_unknown"} : Settle(r, outcome)
    BY <1>7 DEF Reject
  <2>2. call[r].pc = "route" /\ call[r].slot \in Slots
    BY <1>0, <1>7, Places DEF Reject
  <2>3. /\ call'[r] = [pc |-> "settle", slot |-> call[r].slot, outcome |-> outcome]
        /\ \A q \in Requests \ {r} : call'[q] = call[q]
    BY <1>0, <2>1, <2>2, Settles DEF Outcomes
  <2>4. Own
    BY <1>0, <1>4, <1>7, <2>2, <2>3 DEF Reject, Advanced, Carried, Faithful, Refused
  <2> QED BY <1>3, <1>4, <1>7, <2>3, <2>4 DEF Reject
<1>8. CASE BeginConsume(r)
  <2>1. call[r].pc = "route" /\ call[r].slot \in Slots /\ clock \in Nat
    BY <1>0, <1>8, Places DEF BeginConsume, TypeOK
  <2>2. /\ call'[r] = [pc |-> "consume", slot |-> call[r].slot, at |-> clock]
        /\ \A q \in Requests \ {r} : call'[q] = call[q]
    BY <1>0, <1>8, <2>1, Goes, NewPlaces DEF BeginConsume
  <2>3. Own
    BY <1>0, <1>4, <1>8, <2>1, <2>2 DEF BeginConsume, Advanced, Carried, Faithful, Refused
  <2> QED BY <1>3, <1>4, <1>8, <2>2, <2>3 DEF BeginConsume
<1>9. CASE ConsumeTx(r)
  <2> DEFINE now == call[r].at
             slot == call[r].slot
  <2>1. /\ call[r].pc = "consume" /\ now \in Nat /\ slot \in Slots
        /\ UNCHANGED <<home, unacked>> /\ ~Created(r) /\ ~Created(r)' /\ ~Refused(r)
    BY <1>0, <1>4, <1>9, Places DEF ConsumeTx, Advanced, Refused
  <2>2. /\ call'[r].pc \in {"consume", "create", "settle"}
        /\ call'[r].pc = "settle" => call'[r].outcome \in {"denied", "outcome_unknown"}
        /\ \A q \in Requests \ {r} : call'[q] = call[q]
    <3>1. CASE Settle(r, "outcome_unknown")
      <4>1. /\ call'[r] = [pc |-> "settle", slot |-> slot, outcome |-> "outcome_unknown"]
            /\ \A q \in Requests \ {r} : call'[q] = call[q]
        BY <1>0, <2>1, <3>1, Settles DEF Outcomes
      <4> QED BY <4>1
    <3>2. CASE Commit(r, [pc |-> "settle", slot |-> slot, outcome |-> "denied"])
      <4>1. /\ \/ call'[r] = [pc |-> "settle", slot |-> slot, outcome |-> "denied"]
               \/ call'[r] = call[r]
            /\ \A q \in Requests \ {r} : call'[q] = call[q]
        BY <1>0, <2>1, <3>2, Commits, NewPlaces DEF Outcomes
      <4> QED BY <2>1, <4>1
    <3>3. CASE Commit(r, [pc |-> "create", slot |-> slot])
      <4>1. /\ call'[r] = [pc |-> "create", slot |-> slot] \/ call'[r] = call[r]
            /\ \A q \in Requests \ {r} : call'[q] = call[q]
        BY <1>0, <2>1, <3>3, Commits, NewPlaces
      <4> QED BY <2>1, <4>1
    <3> QED BY <1>9, <3>1, <3>2, <3>3 DEF ConsumeTx
  <2>3. Own
    BY <2>1, <2>2 DEF Advanced, Carried, Faithful
  <2>4. Records
    <3>1. CASE ~ConsumeAborts(r, now) /\ audit' = [audit EXCEPT ![slot].updated = now]
      BY <1>0, <2>1, <3>1, RecordTouched DEF ConsumeAborts, Mine, SameWord
    <3> QED BY <1>3, <1>9, <3>1 DEF ConsumeTx
  <2> QED BY <1>4, <2>1, <2>2, <2>3, <2>4
<1>10. CASE CreateTx(r)
  <2>1. /\ call[r].pc = "create" /\ call[r].slot \in Slots /\ UNCHANGED audit
        /\ ~Refused(r) /\ (~Created(r) \/ Repeated(r))
    BY <1>0, <1>10, Places DEF CreateTx, Refused, Advanced
  <2>2. CASE /\ \E outcome \in {"denied", "outcome_unknown"} : Settle(r, outcome)
             /\ UNCHANGED directory
    <3>1. PICK outcome \in {"denied", "outcome_unknown"} : Settle(r, outcome)
      BY <2>2
    <3>2. /\ call'[r] = [pc |-> "settle", slot |-> call[r].slot, outcome |-> outcome]
          /\ \A q \in Requests \ {r} : call'[q] = call[q]
      BY <1>0, <2>1, <3>1, Settles DEF Outcomes
    <3>3. Own
      BY <1>4, <2>1, <2>2, <3>2 DEF Advanced, Carried, Faithful, Repeated
    <3> QED BY <1>3, <1>4, <2>1, <2>2, <3>2, <3>3
  <2>3. CASE /\ home[HomeOf[r]] = None
             /\ home' = [home EXCEPT ![HomeOf[r]] = r]
             /\ Commit(r, [pc |-> "settle", slot |-> call[r].slot, outcome |-> "ok"])
             /\ Acknowledge(r, "create")
    <3>1. /\ \/ call'[r] = [pc |-> "settle", slot |-> call[r].slot, outcome |-> "ok"]
             \/ call' = call
          /\ \A q \in Requests \ {r} : call'[q] = call[q]
      BY <1>0, <2>1, <2>3, Commits, NewPlaces DEF Outcomes
    <3>2. unacked \subseteq unacked' /\ (call' = call => Repeated(r)')
      BY <2>3 DEF Acknowledge, Repeated
    <3>3. Created(r)' /\ \A q \in Requests \ {r} : Created(q)' <=> Created(q)
      BY <1>0, <2>3, AdmissionAssumption DEF Created
    <3>4. Own
      BY <2>1, <3>1, <3>2, <3>3 DEF Advanced, Carried, Faithful
    <3> QED BY <1>3, <2>1, <3>1, <3>2, <3>3, <3>4
  <2> QED BY <1>10, <2>2, <2>3 DEF CreateTx
<1>11. CASE BeginFinish(r)
  <2>1. /\ call[r].pc = "settle" /\ call[r].slot \in Slots /\ call[r].outcome \in Outcomes
        /\ clock \in Nat
    BY <1>0, <1>11, Places DEF BeginFinish, TypeOK
  <2>2. /\ call'[r] = [pc |-> "finish", slot |-> call[r].slot, at |-> clock,
                       outcome |-> call[r].outcome]
        /\ \A q \in Requests \ {r} : call'[q] = call[q]
    BY <1>0, <1>11, <2>1, Goes, NewPlaces DEF BeginFinish
  <2>3. Own
    BY <1>0, <1>4, <1>11, <2>1, <2>2
       DEF BeginFinish, Advanced, Carried, Faithful, Refused, Repeated
  <2> QED BY <1>3, <1>4, <1>11, <2>2, <2>3 DEF BeginFinish
<1>12. CASE FinishTx(r)
  <2> DEFINE slot == call[r].slot
             outcome == call[r].outcome
  <2>1. /\ call[r].pc = "finish" /\ slot \in Slots /\ outcome \in Outcomes
        /\ call[r].at \in Nat /\ UNCHANGED home /\ (Created(r)' <=> Created(r))
    BY <1>0, <1>4, <1>12, Places DEF FinishTx
  <2>2. /\ \/ call'[r] = [pc |-> "closed"]
           \/ call'[r] = [pc |-> "settle", slot |-> slot, outcome |-> "outcome_unknown"]
           \/ call'[r] = call[r]
        /\ \A q \in Requests \ {r} : call'[q] = call[q]
    <3>1. CASE AfterFailure(r)
      BY <1>0, <2>1, <3>1, AfterFailures
    <3>2. CASE Close(r)
      BY <1>0, <3>2, Closes
    <3>3. CASE Commit(r, [pc |-> "closed"])
      BY <1>0, <3>3, Commits, NewPlaces
    <3> QED BY <1>12, <3>1, <3>2, <3>3 DEF FinishTx
  <2>3. unacked \subseteq unacked'
    BY <1>12 DEF FinishTx, Acknowledge
  <2>4. Repeated(r) => Repeated(r)'
    BY <2>3 DEF Repeated
  <2>5. Own
    <3>1. Refused(r)'
      BY <2>1, <2>2 DEF Refused
    <3>2. Advanced(r)'
      BY <1>0, <2>1, <2>2, <2>4 DEF Advanced
    <3> QED BY <2>1, <2>4, <3>1, <3>2 DEF Carried, Faithful
  <2>6. Records
    <3>1. CASE /\ Mine(r)
               /\ audit' = [audit EXCEPT ![slot].status = outcome, ![slot].updated = call[r].at]
      <4>1. PICK m \in Slots : m = slot
        BY <2>1
      <4>2. audit[m] # None /\ audit[m].event = r
        BY <3>1, <4>1 DEF Mine
      <4>3. /\ audit'[m].event = audit[m].event /\ audit'[m].status = outcome
            /\ \A n \in Slots \ {m} : audit'[n] = audit[n]
        <5> DEFINE t == call[r].at
                   F == [audit[m] EXCEPT !.status = outcome, !.updated = t]
        <5>1. audit' = [audit EXCEPT ![m].status = outcome, ![m].updated = t]
          BY <3>1, <4>1
        <5> HIDE DEF outcome, t
        <5>2. audit \in [Slots -> Record \cup {None}] /\ audit[m] \in Record
          BY <1>0, <4>2 DEF TypeOK
        <5>3. F.event = audit[m].event /\ F.status = outcome
          BY <5>2 DEF Record
        <5>4. audit' = [audit EXCEPT ![m] = F]
          BY <5>1, <5>2
        <5> HIDE DEF F
        <5> QED BY <5>2, <5>3, <5>4
      <4>4. RecordTruthful(audit[m])'
        <5>1. audit'[m].event = r /\ audit'[m].status = outcome
          BY <4>2, <4>3
        <5>2. outcome = "ok" => Created(r)'
          BY <1>0, <2>1 DEF Advanced
        <5>3. outcome = "denied" => Faithful(r)'
          BY <1>0, <2>1, <2>2, <2>4 DEF Advanced, Faithful, Refused
        <5>4. (audit[m].status = "ok" => Created(audit[m].event))'
          BY <5>1, <5>2 DEF Created
        <5>5. (audit[m].status = "denied" => Faithful(audit[m].event))'
          BY <5>1, <5>3 DEF Faithful
        <5> QED BY <5>4, <5>5 DEF RecordTruthful
      <4> QED BY <4>3, <4>4 DEF SameWord
    <3> QED BY <1>3, <1>12, <3>1 DEF FinishTx
  <2> QED BY <1>4, <2>1, <2>2, <2>3, <2>5, <2>6
<1>13. CASE Fail(r)
  <2>1. /\ \/ call'[r] = [pc |-> "closed"]
           \/ call'[r] = [pc |-> "settle", slot |-> call[r].slot, outcome |-> "outcome_unknown"]
        /\ \A q \in Requests \ {r} : call'[q] = call[q]
    BY <1>0, <1>13, AfterFailures DEF Fail
  <2>2. Own
    BY <1>0, <1>4, <1>13, <2>1 DEF Fail, Advanced, Carried, Faithful, Refused, Repeated
  <2> QED BY <1>3, <1>4, <1>13, <2>1, <2>2 DEF Fail
<1>14. CASE Crash(r)
  <2>1. call'[r] = [pc |-> "closed"] /\ \A q \in Requests \ {r} : call'[q] = call[q]
    BY <1>0, <1>14, Closes DEF Crash
  <2>2. Own
    BY <1>0, <1>4, <1>14, <2>1 DEF Crash, Advanced, Carried, Faithful, Refused, Repeated
  <2> QED BY <1>3, <1>4, <1>14, <2>1, <2>2 DEF Crash
<1> QED BY <1>5, <1>6, <1>7, <1>8, <1>9, <1>10, <1>11, <1>12, <1>13, <1>14 DEF Step

LEMMA TruthInit == Init => TruthInv
<1> SUFFICES ASSUME Init
             PROVE  /\ WindowsAligned /\ \A r \in Requests : Advanced(r)
                    /\ \A n \in Slots : audit[n] # None => RecordTruthful(audit[n])
  BY TypeInit DEF TruthInv
<1>1. WindowsAligned /\ \A n \in Slots : audit[n] = None
  BY DEF Init, WindowsAligned
<1>2. ASSUME NEW r \in Requests PROVE Advanced(r)
  BY AdmissionAssumption DEF Init, Advanced, Created
<1> QED BY <1>1, <1>2

LEMMA TruthUnchanged ==
    ASSUME TruthInv, UNCHANGED <<ledger, directory, call>>
    PROVE  /\ WindowsAligned' /\ \A q \in Requests : Advanced(q)'
           /\ \A n \in Slots : audit'[n] # None => RecordTruthful(audit[n])'
<1>1. RefusalsStay /\ \A q \in Requests : Created(q)' <=> Created(q)
  BY Refusals DEF TruthInv, ledger, directory, Created
<1>2. \A q \in Requests : Advanced(q)' /\ Carried(q)
  BY <1>1, TruthOthers DEF ledger, directory
<1>3. ASSUME NEW n \in Slots, audit'[n] # None PROVE RecordTruthful(audit[n])'
  <2>1. audit'[n] = audit[n] /\ RecordTruthful(audit[n]) /\ audit[n].event \in Requests
    BY <1>3 DEF TruthInv, TypeOK, Record, ledger
  <2> QED BY <1>2, <2>1 DEF RecordTruthful, Carried
<1> QED BY <1>1, <1>2, <1>3 DEF RefusalsStay

LEMMA TruthNext == TruthInv /\ [Next]_vars => TruthInv'
<1> SUFFICES ASSUME TruthInv, [Next]_vars
             PROVE  /\ WindowsAligned' /\ \A q \in Requests : Advanced(q)'
                    /\ \A n \in Slots : audit'[n] # None => RecordTruthful(audit[n])'
  BY TypeNext DEF TruthInv
<1>1. CASE Tick
  BY <1>1, TruthUnchanged DEF Tick
<1>2. CASE UNCHANGED vars
  BY <1>2, TruthUnchanged DEF vars
<1> QED BY <1>1, <1>2, TruthStep DEF Next

LEMMA TruthInvHolds == TruthInv => AuditTruthful
BY DEF TruthInv, AuditTruthful, RecordTruthful, Faithful, Created, Repeated

(* A record says "ok" only of a request that created its home, and         *)
(* "denied" only of one that did not, unless the acknowledgement of that   *)
(* very creation was lost.                                                 *)
THEOREM AuditAlwaysTruthful == Spec => []AuditTruthful
<1>1. Spec => []TruthInv
  BY TruthInit, TruthNext, PTL DEF Spec
<1> QED BY <1>1, TruthInvHolds, PTL
=============================================================================
