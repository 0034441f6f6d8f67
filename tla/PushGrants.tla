----------------------------- MODULE PushGrants -----------------------------
(***************************************************************************)
(* Push destinations and grants (control-plane/src/push-store.ts with its  *)
(* callers in api.ts).  A user registers a device by proving that it       *)
(* received a challenge, grants a home the use of a destination, and the   *)
(* home sends a push on the strength of the grant.                         *)
(*                                                                         *)
(* A Firestore transaction is one step; what a method draws or reads       *)
(* before it, its identifier and the clock, is fixed by an earlier step.   *)
(* A commit whose acknowledgement is lost leaves the call in its           *)
(* transaction, whose closure runs again.  Identifiers are 128 random bits *)
(* and are drawn once: a call only collides with its own earlier commit.   *)
(*                                                                         *)
(* A definition whose name begins with Wrong is a deliberately faulty      *)
(* variant of the one after it, for checking that a property can fail.     *)
(***************************************************************************)
EXTENDS Naturals, FiniteSets

CONSTANTS
    Users, Homes, None,
    Challenges,        \* an identifier with its secret
    Destinations, Grants,
    Registered,        \* [Users -> destinations registered to begin with]
    Calls,             \* concurrent requests
    Offered,           \* the operations an instance offers
    MaxActiveChallenges, MaxActiveDestinations, MaxRetainedGrants,
    ChallengeLifetime, GrantLifetime,
    Attempts,          \* drawings of an identifier per call
    MaxClock,          \* bound: greatest time
    MaxLostAcks        \* bound: commits whose acknowledgement is lost

Operations == {"challenge", "complete", "delete", "grant", "revoke", "push"}
Registries == Users \X Homes

ASSUME PushAssumption ==
    /\ None \notin Users \cup Homes \cup Challenges \cup Destinations \cup Grants
    /\ IsFiniteSet(Challenges) /\ IsFiniteSet(Destinations) /\ IsFiniteSet(Grants)
    /\ {MaxActiveChallenges, MaxActiveDestinations, MaxRetainedGrants} \subseteq Nat \ {0}
    /\ {ChallengeLifetime, GrantLifetime, Attempts, MaxClock} \subseteq Nat \ {0}
    /\ MaxLostAcks \in Nat
    /\ Registered \in [Users -> SUBSET Destinations]
    /\ \A u \in Users : Cardinality(Registered[u]) <= MaxActiveDestinations
    /\ \A u, v \in Users : u # v => Registered[u] \cap Registered[v] = {}
    /\ Offered \subseteq Operations

VARIABLES
    clock,
    challenge,         \* [Users -> [Challenges -> pushChallenges document]]
    destination,       \* [Users -> pushDestinations documents]
    destinationCount,  \* active_destination_count
    grant,             \* [Registries -> [Grants -> grants document]]
    retained,          \* retained_grant_count
    index,             \* [Grants -> pushGrantIndex document]
    call,
    drawn,             \* identifiers drawn so far
    lostAcks,
    sent,              \* challenges that reached their device
    handed,            \* history: grants whose creation was answered
    gone,              \* history: destinations that were deleted
    yield              \* history: the destinations a challenge has proved

documents == <<challenge, destination, destinationCount, grant, retained, index>>
history   == <<handed, gone, yield>>
vars      == <<clock, documents, call, drawn, lostAcks, sent, history>>

-----------------------------------------------------------------------------
(* Documents and calls. *)

NoChallenge == [status |-> "absent", dest |-> None, expires |-> 0]
NoGrant     == [status |-> "absent", dest |-> None, made |-> 0]
NoIndex     == [status |-> "absent", at |-> <<None, None>>, dest |-> None]

Pending(expires) == [status |-> "pending", dest |-> None, expires |-> expires]
Active(d, made)  == [status |-> "active", dest |-> d, made |-> made]
Entry(w, r)      == [status |-> r.status, at |-> w, dest |-> r.dest]

ChallengeRecord ==
    {NoChallenge} \cup [status: {"pending"}, dest: {None}, expires: Nat]
        \cup [status: {"consumed"}, dest: Destinations, expires: Nat]
GrantRecord ==
    {NoGrant} \cup [status: {"active", "revoked"}, dest: Destinations, made: Nat]
IndexRecord ==
    {NoIndex} \cup [status: {"active", "revoked"}, at: Registries, dest: Destinations]

(* id is the identifier the call drew, or the document it names; on is what *)
(* it is about besides: the challenge completed, the destination granted.  *)
(* How a call was answered is kept only as far as handed and was tell.     *)
Done == [pc |-> "done"]

CallRecord ==
         [pc: {"done"}]
    \cup [pc: {"sent"}, was: {"live", "dead"}]
    \cup [pc: {"tx", "send"}, op: {"challenge"}, user: Users, id: Challenges,
          at: Nat, tries: Nat]
    \cup [pc: {"tx"}, op: {"complete"}, user: Users, id: Destinations,
          on: Challenges, proof: {"right", "wrong"}, at: Nat, tries: Nat]
    \cup [pc: {"tx"}, op: {"delete"}, user: Users, id: Destinations]
    \cup [pc: {"tx"}, op: {"grant"}, user: Users, home: Homes, id: Grants,
          on: Destinations, at: Nat, tries: Nat]
    \cup [pc: {"tx"}, op: {"revoke"}, user: Users, home: Homes, id: Grants]
    \cup [pc: {"tx", "send"}, op: {"push"}, home: Homes, id: Grants, at: Nat,
          was: {"live", "dead"}]

TypeOK ==
    /\ clock \in 1..MaxClock /\ lostAcks \in 0..MaxLostAcks
    /\ challenge \in [Users -> [Challenges -> ChallengeRecord]]
    /\ destination \in [Users -> SUBSET Destinations]
    /\ destinationCount \in [Users -> Nat]
    /\ grant \in [Registries -> [Grants -> GrantRecord]]
    /\ retained \in [Registries -> Nat]
    /\ index \in [Grants -> IndexRecord]
    /\ call \in [Calls -> CallRecord]
    /\ drawn \in SUBSET (Challenges \cup Destinations \cup Grants)
    /\ sent \in SUBSET Challenges /\ handed \in SUBSET Grants
    /\ gone \in SUBSET Destinations
    /\ yield \in [Challenges -> SUBSET Destinations]

Init ==
    /\ clock = 1 /\ lostAcks = MaxLostAcks
    /\ challenge = [u \in Users |-> [k \in Challenges |-> NoChallenge]]
    /\ destination = Registered
    /\ destinationCount = [u \in Users |-> Cardinality(Registered[u])]
    /\ grant = [w \in Registries |-> [g \in Grants |-> NoGrant]]
    /\ retained = [w \in Registries |-> 0]
    /\ index = [g \in Grants |-> NoIndex]
    /\ call = [c \in Calls |-> Done]
    /\ drawn = UNION {Registered[u] : u \in Users}
    /\ sent = {} /\ handed = {} /\ gone = {}
    /\ yield = [k \in Challenges |-> {}]

-----------------------------------------------------------------------------
(* Life of a call. *)

Free(c)        == call[c].pc \notin {"tx", "send"}
InTx(c, op)    == call[c].pc = "tx" /\ call[c].op = op
Becomes(c, r)  == call' = [call EXCEPT ![c] = r]
Finish(c)      == Becomes(c, Done)

(* The transaction committed.  The SDK learns it and the call goes on as r, *)
(* or the acknowledgement is lost and the closure will run again.          *)
Acked(c, r) == Becomes(c, r) /\ UNCHANGED lostAcks
Unacked     == lostAcks > 0 /\ lostAcks' = lostAcks - 1 /\ UNCHANGED call
Commit(c, r) == Acked(c, r) \/ Unacked

(* The identifiers an operation may draw. *)
Fresh(op) == (CASE op = "challenge" -> Challenges
                [] op = "complete"  -> Destinations
                [] op = "grant"     -> Grants) \ drawn

Begin(c, request) ==
    /\ Free(c) /\ request.op \in Offered
    /\ Becomes(c, request)
    /\ UNCHANGED <<clock, documents, lostAcks, sent, history>>

BeginChallenge(c, u) ==
    \E k \in Fresh("challenge") :
        /\ Begin(c, [pc |-> "tx", op |-> "challenge", user |-> u, id |-> k,
                     at |-> clock, tries |-> 1])
        /\ drawn' = drawn \cup {k}

(* Only who was sent a challenge has its secret. *)
BeginComplete(c, u, k, proof) ==
    \E d \in Fresh("complete") :
        /\ k \in drawn /\ (proof = "right" => k \in sent)
        /\ Begin(c, [pc |-> "tx", op |-> "complete", user |-> u, id |-> d, on |-> k,
                     proof |-> proof, at |-> clock, tries |-> 1])
        /\ drawn' = drawn \cup {d}

(* An identifier that nobody has drawn yet cannot be named. *)
BeginDelete(c, u, d) ==
    /\ d \in drawn
    /\ Begin(c, [pc |-> "tx", op |-> "delete", user |-> u, id |-> d])
    /\ UNCHANGED drawn

BeginGrant(c, u, h, d) ==
    \E g \in Fresh("grant") :
        /\ d \in drawn
        /\ Begin(c, [pc |-> "tx", op |-> "grant", user |-> u, home |-> h, id |-> g,
                     on |-> d, at |-> clock, tries |-> 1])
        /\ drawn' = drawn \cup {g}

BeginRevoke(c, u, h, g) ==
    /\ g \in drawn
    /\ Begin(c, [pc |-> "tx", op |-> "revoke", user |-> u, home |-> h, id |-> g])
    /\ UNCHANGED drawn

(* The grant names an authority that can be used now. *)
Usable(w, g) ==
    /\ grant[w][g].status = "active"
    /\ clock < grant[w][g].made + GrantLifetime
    /\ grant[w][g].dest \in destination[w[1]]

BeginPush(c, h, g) ==
    /\ g \in drawn
    /\ Begin(c, [pc |-> "tx", op |-> "push", home |-> h, id |-> g, at |-> clock,
                 was |-> IF g \in handed /\ \A w \in Registries : ~Usable(w, g)
                         THEN "dead" ELSE "live"])
    /\ UNCHANGED drawn

(* Another attempt of call r with identifier i; it forgets the time. *)
WrongRetried(r, i) == [r EXCEPT !.id = i, !.tries = @ + 1, !.at = None]

(* Another attempt of call r with identifier i, which reads the clock again. *)
Retried(r, i) == [r EXCEPT !.id = i, !.tries = @ + 1, !.at = clock]

(* An IdentifierCollision. *)
Redraw(c) ==
    LET r == call[c] IN
    IF r.tries >= Attempts \/ Fresh(r.op) = {}
    THEN Finish(c) /\ UNCHANGED drawn
    ELSE \E i \in Fresh(r.op) :
            Becomes(c, Retried(r, i)) /\ drawn' = drawn \cup {i}

(* The instance dies, the SDK or the provider fails, or a budget is spent *)
(* between the transaction and the send.                                  *)
Abandon(c) ==
    /\ ~Free(c)
    /\ Finish(c)
    /\ UNCHANGED <<clock, documents, drawn, lostAcks, sent, history>>

-----------------------------------------------------------------------------
(* Challenges: issueDestinationChallenge. *)

Held(u)     == {k \in Challenges : challenge[u][k].status # "absent"}
Live(u, at) == {k \in Held(u) : challenge[u][k].status = "pending"
                                /\ at < challenge[u][k].expires}

(* The documents a new challenge clears away. *)
Swept(u, at) == Held(u) \ Live(u, at)

ChallengeVerdict(c) ==
    LET u == call[c].user
        k == call[c].id
        at == call[c].at
    IN
    IF Cardinality(Held(u)) > MaxActiveChallenges THEN "unknown"
    ELSE IF k \in Held(u)
    THEN IF challenge[u][k] = Pending(at + ChallengeLifetime) THEN "ok" ELSE "collision"
    ELSE IF Cardinality(Live(u, at)) >= MaxActiveChallenges THEN "denied"
    ELSE "room"

(* #issueChallengeTransaction when it writes. *)
StoreChallenge(c) ==
    LET u == call[c].user
        at == call[c].at
    IN
    /\ InTx(c, "challenge") /\ ChallengeVerdict(c) = "room"
    /\ challenge' = [challenge EXCEPT ![u] = [k \in Challenges |->
            IF k = call[c].id THEN Pending(at + ChallengeLifetime)
            ELSE IF k \in Swept(u, at) THEN NoChallenge ELSE @[k]]]
    /\ Commit(c, [call[c] EXCEPT !.pc = "send"])
    /\ UNCHANGED <<clock, destination, destinationCount, grant, retained, index,
                   drawn, sent, history>>

(* The provider delivers the challenge to the device, and says so or not. *)
SendChallenge(c) ==
    /\ call[c].pc = "send" /\ call[c].op = "challenge"
    /\ sent' = sent \cup {call[c].id}
    /\ Finish(c)
    /\ UNCHANGED <<clock, documents, drawn, lostAcks, history>>

-----------------------------------------------------------------------------
(* Destinations: completeDestinationChallenge and deleteDestination. *)

DestinationsReconcile(u) ==
    /\ destinationCount[u] = Cardinality(destination[u])
    /\ destinationCount[u] <= MaxActiveDestinations

(* A challenge the call has consumed itself is taken for a pending one. *)
WrongConsumed(c, k) ==
    IF challenge[call[c].user][k].dest = call[c].id
    THEN IF call[c].id \in destination[call[c].user] THEN "ok" ELSE "room"
    ELSE "denied"

(* The answer when challenge k was consumed: by this call, or by another. *)
Consumed(c, k) ==
    IF /\ challenge[call[c].user][k].dest = call[c].id
       /\ call[c].id \in destination[call[c].user]
    THEN "ok" ELSE "denied"

CompleteVerdict(c) ==
    LET u == call[c].user
        k == call[c].on
    IN
    IF ~DestinationsReconcile(u) THEN "unknown"
    ELSE IF k \notin Held(u) THEN "denied"
    ELSE IF challenge[u][k].status = "consumed" THEN Consumed(c, k)
    ELSE IF call[c].proof = "wrong" \/ challenge[u][k].expires <= call[c].at
    THEN "denied"
    ELSE IF call[c].id \in destination[u] THEN "collision"
    ELSE IF destinationCount[u] >= MaxActiveDestinations THEN "denied"
    ELSE "room"

(* #completeChallengeTransaction when it writes. *)
StoreDestination(c) ==
    LET u == call[c].user
        d == call[c].id
        k == call[c].on
    IN
    /\ InTx(c, "complete") /\ CompleteVerdict(c) = "room"
    /\ destination' = [destination EXCEPT ![u] = @ \cup {d}]
    /\ destinationCount' = [destinationCount EXCEPT ![u] = @ + 1]
    /\ challenge' = [challenge EXCEPT ![u][k] =
            [status |-> "consumed", dest |-> d, expires |-> @.expires]]
    /\ yield' = [yield EXCEPT ![k] = @ \cup {d}]
    /\ Commit(c, Done)
    /\ UNCHANGED <<clock, grant, retained, index, drawn, sent, handed, gone>>

DeleteVerdict(c) ==
    LET u == call[c].user IN
    IF ~DestinationsReconcile(u) THEN "unknown"
    ELSE IF call[c].id \notin destination[u] THEN "ok"
    ELSE "room"

(* deleteDestination when it writes; the grants for it stay. *)
RemoveDestination(c) ==
    LET u == call[c].user IN
    /\ InTx(c, "delete") /\ DeleteVerdict(c) = "room"
    /\ destination' = [destination EXCEPT ![u] = @ \ {call[c].id}]
    /\ destinationCount' = [destinationCount EXCEPT ![u] = @ - 1]
    /\ gone' = gone \cup {call[c].id}
    /\ Commit(c, Done)
    /\ UNCHANGED <<clock, challenge, grant, retained, index, drawn, sent, handed, yield>>

-----------------------------------------------------------------------------
(* Grants: createGrant and revokeGrant. *)

Where(c) == <<call[c].user, call[c].home>>

Kept(w)     == {g \in Grants : grant[w][g].status # "absent"}
For(w, d)   == {g \in Grants : grant[w][g].status = "active" /\ grant[w][g].dest = d}

GrantsReconcile(w) ==
    /\ retained[w] = Cardinality(Kept(w)) /\ retained[w] <= MaxRetainedGrants
    /\ \A d \in Destinations : Cardinality(For(w, d)) <= 1

IndexAgrees(w, g) == index[g] = Entry(w, grant[w][g])

(* A superseded or a revoked grant makes room, but any other does as well. *)
WrongCompactable(w, at) == Kept(w)

(* The grants that may be deleted for another. *)
Compactable(w, at) ==
    {g \in Kept(w) : \/ grant[w][g].status = "revoked"
                     \/ grant[w][g].made + GrantLifetime <= at
                     \/ grant[w][g].dest \notin destination[w[1]]}

(* compareRecords; it breaks ties by identifier, whose order is random. *)
Oldest(w, gs) == {g \in gs : \A j \in gs : grant[w][g].made <= grant[w][j].made}

(* A rerun takes its own grant for another's once that was revoked.         *)
GrantVerdict(c) ==
    LET w == Where(c)
        g == call[c].id
    IN
    IF ~DestinationsReconcile(w[1]) THEN "unknown"
    ELSE IF call[c].on \notin destination[w[1]] THEN "denied"
    ELSE IF ~GrantsReconcile(w) THEN "unknown"
    ELSE IF g \in Kept(w) \/ index[g].status # "absent"
    THEN IF g \notin Kept(w) \/ index[g].status = "absent" THEN "collision"
         ELSE IF ~IndexAgrees(w, g) THEN "unknown"
         ELSE IF grant[w][g] = Active(call[c].on, call[c].at) THEN "ok" ELSE "collision"
    ELSE IF retained[w] < MaxRetainedGrants THEN "room"
    ELSE IF Compactable(w, call[c].at) = {} THEN "denied"
    ELSE "compact"

(* The index entry of a superseded grant is forgotten. *)
WrongPutGrant(w, g, d, made, victims) ==
    LET superseded == For(w, d) \ victims IN
    /\ grant' = [grant EXCEPT ![w] = [j \in Grants |->
            IF j = g THEN Active(d, made)
            ELSE IF j \in victims THEN NoGrant
            ELSE IF j \in superseded THEN [@[j] EXCEPT !.status = "revoked"] ELSE @[j]]]
    /\ index' = [j \in Grants |->
            IF j = g THEN Entry(w, Active(d, made))
            ELSE IF j \in victims THEN NoIndex ELSE index[j]]
    /\ retained' = [retained EXCEPT ![w] = IF victims = {} THEN @ + 1 ELSE @]

(* Store grant g for d, revoke the one it supersedes and delete the victims. *)
PutGrant(w, g, d, made, victims) ==
    LET superseded == For(w, d) \ victims IN
    /\ grant' = [grant EXCEPT ![w] = [j \in Grants |->
            IF j = g THEN Active(d, made)
            ELSE IF j \in victims THEN NoGrant
            ELSE IF j \in superseded THEN [@[j] EXCEPT !.status = "revoked"] ELSE @[j]]]
    /\ index' = [j \in Grants |->
            IF j = g THEN Entry(w, Active(d, made))
            ELSE IF j \in victims THEN NoIndex
            ELSE IF j \in superseded THEN [index[j] EXCEPT !.status = "revoked"]
            ELSE index[j]]
    /\ retained' = [retained EXCEPT ![w] = IF victims = {} THEN @ + 1 ELSE @]

(* #createGrantTransaction when it writes. *)
StoreGrant(c) ==
    LET w == Where(c) IN
    /\ InTx(c, "grant")
    /\ \/ GrantVerdict(c) = "room" /\ PutGrant(w, call[c].id, call[c].on, call[c].at, {})
       \/ /\ GrantVerdict(c) = "compact"
          /\ \E v \in Oldest(w, Compactable(w, call[c].at)) :
                PutGrant(w, call[c].id, call[c].on, call[c].at, {v})
    /\ \/ Acked(c, Done) /\ handed' = handed \cup {call[c].id}
       \/ Unacked /\ UNCHANGED handed
    /\ UNCHANGED <<clock, challenge, destination, destinationCount, drawn, sent, gone, yield>>

RevokeVerdict(c) ==
    LET w == Where(c)
        g == call[c].id
    IN
    IF g \notin Kept(w) THEN "ok"
    ELSE IF ~IndexAgrees(w, g) THEN "unknown"
    ELSE IF grant[w][g].status = "revoked" THEN "ok"
    ELSE "room"

(* revokeGrant when it writes. *)
MarkRevoked(c) ==
    LET w == Where(c)
        g == call[c].id
    IN
    /\ InTx(c, "revoke") /\ RevokeVerdict(c) = "room"
    /\ grant' = [grant EXCEPT ![w][g] = [@ EXCEPT !.status = "revoked"]]
    /\ index' = [index EXCEPT ![g] = [@ EXCEPT !.status = "revoked"]]
    /\ Commit(c, Done)
    /\ UNCHANGED <<clock, challenge, destination, destinationCount, retained, drawn,
                   sent, history>>

-----------------------------------------------------------------------------
(* Sending: authorizePush, then the provider. *)

(* The destination is not looked up. *)
WrongPushVerdict(c) ==
    LET g == call[c].id
        w == index[g].at
    IN
    IF index[g].status # "active" \/ w[2] # call[c].home THEN "denied"
    ELSE IF g \notin Kept(w) THEN "denied"
    ELSE IF ~IndexAgrees(w, g) THEN "unknown"
    ELSE IF grant[w][g].made + GrantLifetime <= call[c].at THEN "denied"
    ELSE "ok"

PushVerdict(c) ==
    LET g == call[c].id
        w == index[g].at
    IN
    IF index[g].status # "active" \/ w[2] # call[c].home THEN "denied"
    ELSE IF g \notin Kept(w) THEN "denied"
    ELSE IF ~IndexAgrees(w, g) THEN "unknown"
    ELSE IF \/ grant[w][g].status # "active"
            \/ grant[w][g].made + GrantLifetime <= call[c].at
            \/ grant[w][g].dest \notin destination[w[1]]
    THEN "denied"
    ELSE "ok"

(* The notification leaves for the device that was looked up. *)
SendPush(c) ==
    /\ call[c].pc = "send" /\ call[c].op = "push"
    /\ Becomes(c, [pc |-> "sent", was |-> call[c].was])
    /\ UNCHANGED <<clock, documents, drawn, lostAcks, sent, history>>

-----------------------------------------------------------------------------
(* What a transaction comes to. *)

Verdict(c) ==
    CASE call[c].op = "challenge" -> ChallengeVerdict(c)
      [] call[c].op = "complete"  -> CompleteVerdict(c)
      [] call[c].op = "delete"    -> DeleteVerdict(c)
      [] call[c].op = "grant"     -> GrantVerdict(c)
      [] call[c].op = "revoke"    -> RevokeVerdict(c)
      [] call[c].op = "push"      -> PushVerdict(c)

(* A challenge is sent when its transaction is over, and so is a push. *)
Accepted(c) ==
    IF call[c].op \in {"challenge", "push"} THEN [call[c] EXCEPT !.pc = "send"]
    ELSE Done

(* The transaction writes nothing: it refuses, or finds its work done. *)
Reply(c) ==
    /\ call[c].pc = "tx"
    /\ \/ /\ Verdict(c) \in {"denied", "unknown"}
          /\ Finish(c) /\ UNCHANGED handed
       \/ /\ Verdict(c) = "ok"
          /\ Becomes(c, Accepted(c))
          /\ handed' = IF call[c].op = "grant" THEN handed \cup {call[c].id} ELSE handed
    /\ UNCHANGED <<clock, documents, drawn, lostAcks, sent, gone, yield>>

Collide(c) ==
    /\ call[c].pc = "tx" /\ Verdict(c) = "collision"
    /\ Redraw(c)
    /\ UNCHANGED <<clock, documents, lostAcks, sent, history>>

Tick ==
    /\ clock < MaxClock
    /\ clock' = clock + 1
    /\ UNCHANGED <<documents, call, drawn, lostAcks, sent, history>>

Next ==
    \/ Tick
    \/ \E c \in Calls :
          \/ \E u \in Users : BeginChallenge(c, u)
          \/ \E u \in Users, k \in Challenges, proof \in {"right", "wrong"} :
                BeginComplete(c, u, k, proof)
          \/ \E u \in Users, d \in Destinations : BeginDelete(c, u, d)
          \/ \E u \in Users, h \in Homes, d \in Destinations : BeginGrant(c, u, h, d)
          \/ \E u \in Users, h \in Homes, g \in Grants : BeginRevoke(c, u, h, g)
          \/ \E h \in Homes, g \in Grants : BeginPush(c, h, g)
          \/ Reply(c) \/ Collide(c) \/ Abandon(c)
          \/ StoreChallenge(c) \/ SendChallenge(c)
          \/ StoreDestination(c) \/ RemoveDestination(c)
          \/ StoreGrant(c) \/ MarkRevoked(c) \/ SendPush(c)

Spec == Init /\ [][Next]_vars

-----------------------------------------------------------------------------
(* Safety. *)

(* The index has an entry for each grant that is kept, and no other.       *)
IndexMirrorsGrants ==
    /\ \A w \in Registries : \A g \in Kept(w) : IndexAgrees(w, g)
    /\ \A g \in Grants : index[g] # NoIndex => g \in Kept(index[g].at)

(* The registries stay readable: the counters equal the documents, which   *)
(* stay below their ceilings, a destination has one active grant at most   *)
(* for a home, and the index mirrors the grants.  Each is checked by later *)
(* accesses, so that one missed update would lock the user out for good.   *)
RegistriesReconcile ==
    /\ \A u \in Users : /\ DestinationsReconcile(u)
                        /\ Cardinality(Held(u)) <= MaxActiveChallenges
    /\ \A w \in Registries : GrantsReconcile(w)
    /\ IndexMirrorsGrants

(* A completion takes effect once, however often it is sent, raced, or run *)
(* again after a lost acknowledgement: a challenge proves one destination, *)
(* and none that was deleted since comes back, with the grants that were   *)
(* left behind for it.                                                     *)
CompletionsTakeEffectOnce ==
    /\ \A k \in Challenges : Cardinality(yield[k]) <= 1
    /\ \A u \in Users : destination[u] \cap gone = {}

(* A push that a home requests after its grant ended is not sent: the user *)
(* revoked or renewed it, deleted the destination, or it expired, and      *)
(* neither a rerun nor a compaction brings it back.                        *)
DeadGrantsStaySilent ==
    \A c \in Calls : call[c].pc = "sent" => call[c].was = "live"

(* A grant that can be used is never deleted to make room.                 *)
CompactionSparesUsable ==
    [][\A w \in Registries : \A g \in Grants :
          Usable(w, g) => grant'[w][g].status # "absent"]_vars
=============================================================================
