--------------------------- MODULE PushGrantsProofs ---------------------------
(* Proofs of the safety properties of PushGrants, for any number of users, *)
(* homes, identifiers and concurrent calls, any ceilings and lifetimes,    *)
(* and any number of lost acknowledgements.                                *)
EXTENDS PushGrants, FiniteSetTheorems, TLAPS

-----------------------------------------------------------------------------
(* The inductive invariants. *)

Drawers == {"challenge", "complete", "grant"}

(* Call c goes on with an identifier that it drew. *)
Drawing(c, op) == call[c].pc \in {"tx", "send"} /\ call[c].op = op

(* An identifier is drawn once, by one call. *)
IdsInv ==
    /\ \A c \in Calls, op \in Drawers : Drawing(c, op) => call[c].id \in drawn
    /\ \A c, d \in Calls, op \in Drawers :
         Drawing(c, op) /\ Drawing(d, op) /\ c # d => call[c].id # call[d].id

RegistryInv == TypeOK /\ RegistriesReconcile

(* A challenge belongs to the user of the call that drew it, which is over *)
(* when it reaches its device, and what it has proved it does not again.   *)
ChallengesInv ==
    /\ sent \subseteq drawn
    /\ \A u \in Users : \A k \in Held(u) :
         /\ k \in drawn
         /\ \A v \in Users : k \in Held(v) => v = u
         /\ \A c \in Calls : Drawing(c, "challenge") /\ call[c].id = k => call[c].user = u
    /\ \A k \in sent, c \in Calls : Drawing(c, "challenge") => call[c].id # k
    /\ \A c \in Calls : Drawing(c, "complete") /\ call[c].proof = "right" => call[c].on \in sent
    /\ \A k \in Challenges :
         /\ Cardinality(yield[k]) <= 1
         /\ yield[k] # {} => k \in sent /\ \A u \in Users : challenge[u][k].status # "pending"

(* A destination is one user's, and stored by the completion that drew it. *)
DestinationsInv ==
    /\ gone \subseteq drawn
    /\ \A u \in Users : \A d \in destination[u] :
         /\ d \in drawn /\ d \notin gone
         /\ \A v \in Users : d \in destination[v] => v = u
    /\ \A c \in Calls : Drawing(c, "complete") =>
         \A u \in Users : call[c].id \in destination[u] \cup gone => yield[call[c].on] # {}

CompletionInv == RegistryInv /\ IdsInv /\ ChallengesInv /\ DestinationsInv

(* The push of call c finds no authority in grant g at w by its own clock. *)
Ended(c, w, g) ==
    ~ /\ grant[w][g].status = "active"
      /\ call[c].at < grant[w][g].made + GrantLifetime
      /\ grant[w][g].dest \in destination[w[1]]

SilenceInv ==
    /\ \A g \in handed : /\ g \in drawn
                         /\ \A c \in Calls : Drawing(c, "grant") => call[c].id # g
    /\ \A w \in Registries : \A g \in Kept(w) : grant[w][g].dest \in destination[w[1]] \cup gone
    /\ \A c \in Calls : Drawing(c, "push") /\ call[c].was = "dead" =>
         /\ call[c].pc = "tx" /\ call[c].id \in handed
         /\ \A w \in Registries : Ended(c, w, call[c].id)
    /\ \A c \in Calls : call[c].pc = "sent" => call[c].was = "live"

ClocksInv == \A c \in Calls : Drawing(c, "grant") => call[c].at <= clock

-----------------------------------------------------------------------------
(* Types. *)

(* Which fields a call has. *)
LEMMA CallTypes ==
    ASSUME NEW r \in CallRecord, r.pc \in {"tx", "send"}
    PROVE  /\ r.op \in Operations
           /\ r.op = "challenge" =>
                r \in [pc: {"tx", "send"}, op: {"challenge"}, user: Users, id: Challenges,
                       at: Nat, tries: Nat]
           /\ r.op = "complete" =>
                r \in [pc: {"tx"}, op: {"complete"}, user: Users, id: Destinations,
                       on: Challenges, proof: {"right", "wrong"}, at: Nat, tries: Nat]
           /\ r.op = "delete" => r \in [pc: {"tx"}, op: {"delete"}, user: Users, id: Destinations]
           /\ r.op = "grant" =>
                r \in [pc: {"tx"}, op: {"grant"}, user: Users, home: Homes, id: Grants,
                       on: Destinations, at: Nat, tries: Nat]
           /\ r.op = "revoke" =>
                r \in [pc: {"tx"}, op: {"revoke"}, user: Users, home: Homes, id: Grants]
           /\ r.op = "push" =>
                r \in [pc: {"tx", "send"}, op: {"push"}, home: Homes, id: Grants, at: Nat,
                       was: {"live", "dead"}]
BY DEF CallRecord, Operations

LEMMA Calling ==
    ASSUME TypeOK, NEW c \in Calls, call[c].pc \in {"tx", "send"}
    PROVE  /\ call[c].op \in Operations
           /\ call[c].op = "challenge" =>
                /\ call[c].user \in Users /\ call[c].id \in Challenges /\ call[c].at \in Nat
                /\ call[c].tries \in Nat
           /\ call[c].op = "complete" =>
                /\ call[c].user \in Users /\ call[c].id \in Destinations /\ call[c].at \in Nat
                /\ call[c].on \in Challenges /\ call[c].proof \in {"right", "wrong"}
                /\ call[c].tries \in Nat /\ call[c].pc = "tx"
           /\ call[c].op = "delete" =>
                call[c].user \in Users /\ call[c].id \in Destinations /\ call[c].pc = "tx"
           /\ call[c].op = "grant" =>
                /\ call[c].user \in Users /\ call[c].home \in Homes /\ call[c].id \in Grants
                /\ call[c].on \in Destinations /\ call[c].at \in Nat
                /\ call[c].tries \in Nat /\ call[c].pc = "tx"
           /\ call[c].op = "revoke" =>
                /\ call[c].user \in Users /\ call[c].home \in Homes /\ call[c].id \in Grants
                /\ call[c].pc = "tx"
           /\ call[c].op = "push" =>
                /\ call[c].home \in Homes /\ call[c].id \in Grants /\ call[c].at \in Nat
                /\ call[c].was \in {"live", "dead"}
<1>1. call[c] \in CallRecord
  BY DEF TypeOK
<1> QED BY <1>1, CallTypes

LEMMA Become ==
    ASSUME TypeOK, NEW c \in Calls, NEW r \in CallRecord, Becomes(c, r)
    PROVE  /\ call' \in [Calls -> CallRecord] /\ call'[c] = r
           /\ \A d \in Calls \ {c} : call'[d] = call[d]
BY DEF TypeOK, Becomes

LEMMA Finishes ==
    ASSUME TypeOK, NEW c \in Calls, Finish(c)
    PROVE  /\ call' \in [Calls -> CallRecord] /\ call'[c] = Done
           /\ \A d \in Calls \ {c} : call'[d] = call[d]
<1>1. Done \in CallRecord
  BY DEF Done, CallRecord
<1> QED BY <1>1, Become DEF Finish

LEMMA Commits ==
    ASSUME TypeOK, NEW c \in Calls, NEW r \in CallRecord, Commit(c, r)
    PROVE  /\ call' \in [Calls -> CallRecord] /\ lostAcks' \in 0..MaxLostAcks
           /\ call'[c] = r \/ call' = call
           /\ \A d \in Calls \ {c} : call'[d] = call[d]
<1>1. CASE Acked(c, r)
  BY <1>1, Become DEF Acked, TypeOK
<1>2. CASE Unacked
  BY <1>2, PushAssumption DEF Unacked, TypeOK
<1> QED BY <1>1, <1>2 DEF Commit

LEMMA Freshness ==
    /\ Fresh("challenge") = Challenges \ drawn
    /\ Fresh("complete") = Destinations \ drawn
    /\ Fresh("grant") = Grants \ drawn
BY DEF Fresh

(* The record of the call when its transaction is over. *)
LEMMA Sends ==
    ASSUME TypeOK, NEW c \in Calls, call[c].pc = "tx", call[c].op \in {"challenge", "push"}
    PROVE  /\ [call[c] EXCEPT !.pc = "send"] \in CallRecord
           /\ [call[c] EXCEPT !.pc = "send"].pc = "send"
           /\ [call[c] EXCEPT !.pc = "send"].op = call[c].op
           /\ [call[c] EXCEPT !.pc = "send"].id = call[c].id
           /\ call[c].op = "challenge" =>
                [call[c] EXCEPT !.pc = "send"].user = call[c].user
           /\ call[c].op = "push" =>
                /\ [call[c] EXCEPT !.pc = "send"].was = call[c].was
                /\ [call[c] EXCEPT !.pc = "send"].at = call[c].at
<1>1. call[c] \in CallRecord
  BY DEF TypeOK
<1>2. CASE call[c].op = "challenge"
  <2>1. call[c] \in [pc: {"tx", "send"}, op: {"challenge"}, user: Users, id: Challenges,
                     at: Nat, tries: Nat]
    BY <1>1, <1>2, CallTypes
  <2> QED BY <1>2, <2>1 DEF CallRecord
<1>3. CASE call[c].op = "push"
  <2>1. call[c] \in [pc: {"tx", "send"}, op: {"push"}, home: Homes, id: Grants, at: Nat,
                     was: {"live", "dead"}]
    BY <1>1, <1>3, CallTypes
  <2> QED BY <1>3, <2>1 DEF CallRecord
<1> QED BY <1>2, <1>3

(* Another attempt is the same request with another identifier and time. *)
LEMMA Redrawing ==
    ASSUME NEW n \in Nat, NEW t \in Nat
    PROVE  /\ \A r \in [pc: {"tx", "send"}, op: {"challenge"}, user: Users, id: Challenges, at: Nat, tries: Nat] :
              \A i \in Challenges : [r EXCEPT !.id = i, !.tries = n, !.at = t] \in
                [pc: {"tx", "send"}, op: {"challenge"}, user: Users, id: Challenges, at: Nat, tries: Nat]
           /\ \A r \in [pc: {"tx"}, op: {"complete"}, user: Users, id: Destinations,
                on: Challenges, proof: {"right", "wrong"}, at: Nat, tries: Nat] :
              \A i \in Destinations : [r EXCEPT !.id = i, !.tries = n, !.at = t] \in
                [pc: {"tx"}, op: {"complete"}, user: Users, id: Destinations,
                on: Challenges, proof: {"right", "wrong"}, at: Nat, tries: Nat]
           /\ \A r \in [pc: {"tx"}, op: {"grant"}, user: Users, home: Homes, id: Grants,
                on: Destinations, at: Nat, tries: Nat] :
              \A i \in Grants : [r EXCEPT !.id = i, !.tries = n, !.at = t] \in
                [pc: {"tx"}, op: {"grant"}, user: Users, home: Homes, id: Grants,
                on: Destinations, at: Nat, tries: Nat]
OBVIOUS

LEMMA Retries ==
    ASSUME TypeOK, NEW c \in Calls, call[c].pc = "tx", call[c].op \in Drawers,
           NEW i \in Fresh(call[c].op)
    PROVE  /\ Retried(call[c], i) \in CallRecord
           /\ Retried(call[c], i).pc = "tx"
           /\ Retried(call[c], i).op = call[c].op
           /\ Retried(call[c], i).id = i
           /\ Retried(call[c], i).at = clock
           /\ Retried(call[c], i).user = call[c].user
           /\ call[c].op = "complete" =>
                /\ Retried(call[c], i).on = call[c].on
                /\ Retried(call[c], i).proof = call[c].proof
<1>1. call[c] \in CallRecord /\ clock \in Nat
  BY DEF TypeOK
<1>2. CASE call[c].op = "challenge"
  <2>1. call[c] \in [pc: {"tx", "send"}, op: {"challenge"}, user: Users, id: Challenges,
                     at: Nat, tries: Nat]
    BY <1>1, <1>2, CallTypes
  <2>0. call[c].tries + 1 \in Nat
    BY <2>1
  <2>2. i \in Challenges
    BY <1>2, Freshness
  <2>3. Retried(call[c], i) \in
          [pc: {"tx", "send"}, op: {"challenge"}, user: Users, id: Challenges, at: Nat, tries: Nat]
    BY <1>1, <2>1, <2>2, <2>0, Redrawing DEF Retried
  <2>4. /\ Retried(call[c], i).pc = call[c].pc /\ Retried(call[c], i).op = call[c].op
        /\ Retried(call[c], i).id = i /\ Retried(call[c], i).at = clock
        /\ Retried(call[c], i).user = call[c].user
    BY <2>1 DEF Retried
  <2>5. Retried(call[c], i) \in CallRecord
    BY <2>3 DEF CallRecord
  <2> QED BY <1>2, <2>4, <2>5
<1>3. CASE call[c].op = "complete"
  <2>1. call[c] \in [pc: {"tx"}, op: {"complete"}, user: Users, id: Destinations,
                     on: Challenges, proof: {"right", "wrong"}, at: Nat, tries: Nat]
    BY <1>1, <1>3, CallTypes
  <2>0. call[c].tries + 1 \in Nat
    BY <2>1
  <2>2. i \in Destinations
    BY <1>3, Freshness
  <2>3. Retried(call[c], i) \in
          [pc: {"tx"}, op: {"complete"}, user: Users, id: Destinations,
           on: Challenges, proof: {"right", "wrong"}, at: Nat, tries: Nat]
    BY <1>1, <2>1, <2>2, <2>0, Redrawing DEF Retried
  <2>4. /\ Retried(call[c], i).pc = call[c].pc /\ Retried(call[c], i).op = call[c].op
        /\ Retried(call[c], i).id = i /\ Retried(call[c], i).at = clock
        /\ Retried(call[c], i).user = call[c].user
        /\ Retried(call[c], i).on = call[c].on /\ Retried(call[c], i).proof = call[c].proof
    BY <2>1 DEF Retried
  <2>5. Retried(call[c], i) \in CallRecord
    BY <2>3 DEF CallRecord
  <2> QED BY <1>3, <2>4, <2>5
<1>4. CASE call[c].op = "grant"
  <2>1. call[c] \in [pc: {"tx"}, op: {"grant"}, user: Users, home: Homes, id: Grants,
                     on: Destinations, at: Nat, tries: Nat]
    BY <1>1, <1>4, CallTypes
  <2>0. call[c].tries + 1 \in Nat
    BY <2>1
  <2>2. i \in Grants
    BY <1>4, Freshness
  <2>3. Retried(call[c], i) \in
          [pc: {"tx"}, op: {"grant"}, user: Users, home: Homes, id: Grants,
           on: Destinations, at: Nat, tries: Nat]
    BY <1>1, <2>1, <2>2, <2>0, Redrawing DEF Retried
  <2>4. /\ Retried(call[c], i).pc = call[c].pc /\ Retried(call[c], i).op = call[c].op
        /\ Retried(call[c], i).id = i /\ Retried(call[c], i).at = clock
        /\ Retried(call[c], i).user = call[c].user
    BY <2>1 DEF Retried
  <2>5. Retried(call[c], i) \in CallRecord
    BY <2>3 DEF CallRecord
  <2> QED BY <1>4, <2>4, <2>5
<1> QED BY <1>2, <1>3, <1>4 DEF Drawers

(* What a transaction can come to, operation by operation. *)
LEMMA Verdicts ==
    ASSUME NEW c \in Calls
    PROVE  /\ call[c].op = "challenge" => Verdict(c) = ChallengeVerdict(c)
           /\ call[c].op = "complete" => Verdict(c) = CompleteVerdict(c)
           /\ call[c].op = "delete" => Verdict(c) = DeleteVerdict(c)
           /\ call[c].op = "grant" => Verdict(c) = GrantVerdict(c)
           /\ call[c].op = "revoke" => Verdict(c) = RevokeVerdict(c)
           /\ call[c].op = "push" => Verdict(c) = PushVerdict(c)
BY DEF Verdict

LEMMA Collisions ==
    ASSUME TypeOK, NEW c \in Calls, call[c].pc = "tx", Verdict(c) = "collision"
    PROVE  call[c].op \in Drawers
<1>1. call[c].op \in Operations
  BY Calling
<1>2. CASE call[c].op = "delete"
  BY <1>2, Verdicts DEF DeleteVerdict
<1>3. CASE call[c].op = "revoke"
  BY <1>3, Verdicts DEF RevokeVerdict
<1>4. CASE call[c].op = "push"
  BY <1>4, Verdicts DEF PushVerdict
<1> QED BY <1>1, <1>2, <1>3, <1>4 DEF Operations, Drawers

LEMMA TypeInit == Init => TypeOK
<1> SUFFICES ASSUME Init PROVE TypeOK
  OBVIOUS
<1>1. clock \in 1..MaxClock /\ lostAcks \in 0..MaxLostAcks
  BY PushAssumption DEF Init
<1>2. challenge \in [Users -> [Challenges -> ChallengeRecord]]
  BY DEF Init, ChallengeRecord
<1>3. grant \in [Registries -> [Grants -> GrantRecord]] /\ retained \in [Registries -> Nat]
  BY DEF Init, GrantRecord
<1>4. index \in [Grants -> IndexRecord]
  BY DEF Init, IndexRecord
<1>5. call \in [Calls -> CallRecord]
  BY DEF Init, CallRecord, Done
<1>6. destination \in [Users -> SUBSET Destinations]
  BY PushAssumption DEF Init
<1>7. destinationCount \in [Users -> Nat]
  <2>1. \A u \in Users : IsFiniteSet(Registered[u])
    BY PushAssumption, FS_Subset
  <2> QED BY <2>1, FS_CardinalityType DEF Init
<1>8. drawn \in SUBSET (Challenges \cup Destinations \cup Grants)
  BY PushAssumption DEF Init
<1>9. /\ sent \in SUBSET Challenges /\ handed \in SUBSET Grants /\ gone \in SUBSET Destinations
      /\ yield \in [Challenges -> SUBSET Destinations]
  BY DEF Init
<1> QED BY <1>1, <1>2, <1>3, <1>4, <1>5, <1>6, <1>7, <1>8, <1>9 DEF TypeOK

(* A step that changes only the calls, what is drawn and the histories.    *)
LEMMA TypeCalls ==
    ASSUME TypeOK, UNCHANGED <<clock, documents, yield, gone>>,
           call' \in [Calls -> CallRecord], lostAcks' \in 0..MaxLostAcks,
           drawn' \in SUBSET (Challenges \cup Destinations \cup Grants),
           sent' \in SUBSET Challenges, handed' \in SUBSET Grants
    PROVE  TypeOK'
BY DEF TypeOK, documents

LEMMA TypeBegin ==
    ASSUME TypeOK, NEW c \in Calls, NEW r \in CallRecord, Begin(c, r),
           drawn' \in SUBSET (Challenges \cup Destinations \cup Grants)
    PROVE  TypeOK'
<1>1. call' \in [Calls -> CallRecord]
  BY Become DEF Begin
<1> QED BY <1>1, TypeCalls DEF Begin, TypeOK, history

LEMMA TypePutGrant ==
    ASSUME TypeOK, IndexMirrorsGrants,
           NEW w \in Registries, NEW g \in Grants, NEW d \in Destinations,
           NEW made \in Nat, NEW victims \in SUBSET Grants, PutGrant(w, g, d, made, victims)
    PROVE  /\ grant' \in [Registries -> [Grants -> GrantRecord]]
           /\ retained' \in [Registries -> Nat]
           /\ index' \in [Grants -> IndexRecord]
<1>1. Active(d, made) \in GrantRecord
  BY DEF Active, GrantRecord
<1>2. Entry(w, Active(d, made)) \in IndexRecord
  BY DEF Active, Entry, IndexRecord
<1>3. \A j \in Grants : grant[w][j] \in GrantRecord /\ index[j] \in IndexRecord
  BY DEF TypeOK
<1>4. \A j \in For(w, d) : [grant[w][j] EXCEPT !.status = "revoked"] \in GrantRecord
  BY <1>3 DEF For, GrantRecord, NoGrant
<1>5. ASSUME NEW j \in For(w, d) PROVE [index[j] EXCEPT !.status = "revoked"] \in IndexRecord
  <2>1. j \in Kept(w) /\ index[j] = Entry(w, grant[w][j]) /\ grant[w][j].dest = d
    BY DEF For, Kept, IndexMirrorsGrants, IndexAgrees
  <2>2. [index[j] EXCEPT !.status = "revoked"] = [status |-> "revoked", at |-> w, dest |-> d]
    BY <2>1 DEF Entry
  <2> QED BY <2>2 DEF IndexRecord
<1>6. NoGrant \in GrantRecord /\ NoIndex \in IndexRecord
  BY DEF GrantRecord, IndexRecord
<1>7. grant' \in [Registries -> [Grants -> GrantRecord]]
  <2> DEFINE row == [j \in Grants |->
            IF j = g THEN Active(d, made)
            ELSE IF j \in victims THEN NoGrant
            ELSE IF j \in For(w, d) \ victims THEN [grant[w][j] EXCEPT !.status = "revoked"]
            ELSE grant[w][j]]
  <2>1. row \in [Grants -> GrantRecord]
    BY <1>1, <1>3, <1>4, <1>6
  <2>2. grant' = [grant EXCEPT ![w] = row]
    BY DEF PutGrant
  <2> HIDE DEF row
  <2> QED BY <2>1, <2>2 DEF TypeOK
<1>8. index' \in [Grants -> IndexRecord]
  <2> DEFINE row == [j \in Grants |->
            IF j = g THEN Entry(w, Active(d, made))
            ELSE IF j \in victims THEN NoIndex
            ELSE IF j \in For(w, d) \ victims THEN [index[j] EXCEPT !.status = "revoked"]
            ELSE index[j]]
  <2>1. row \in [Grants -> IndexRecord]
    BY <1>2, <1>3, <1>5, <1>6
  <2>2. index' = row
    BY DEF PutGrant
  <2> QED BY <2>1, <2>2
<1>9. retained' \in [Registries -> Nat]
  BY DEF PutGrant, TypeOK
<1> QED BY <1>7, <1>8, <1>9

-----------------------------------------------------------------------------
(* What a step does to the calls. *)

Alone(c) == \A d \in Calls \ {c} : call'[d] = call[d]

(* The transaction of call c is over, and what it asked for is sent. *)
Goes(c) ==
    /\ Alone(c) /\ call[c].pc = "tx" /\ call[c].op \in {"challenge", "push"}
    /\ call'[c] = [call[c] EXCEPT !.pc = "send"]
    /\ call[c].op = "push" => PushVerdict(c) = "ok"
    /\ UNCHANGED <<drawn, sent, handed>>

(* Call c draws an identifier, for a new request or after a collision. *)
Draws(c) ==
    /\ Alone(c) /\ call'[c].pc = "tx" /\ call'[c].op \in Drawers
    /\ call'[c].id \notin drawn /\ drawn' = drawn \cup {call'[c].id}
    /\ call'[c].at = clock
    /\ call'[c].op = "complete" /\ call'[c].proof = "right" =>
         \/ call'[c].on \in sent
         \/ /\ Drawing(c, "complete") /\ call[c].proof = "right"
            /\ call'[c].on = call[c].on
    /\ UNCHANGED <<sent, handed, clock, documents, gone, yield>>

(* Call c begins, about a document that exists or did. *)
Names(c) ==
    /\ Alone(c) /\ call'[c].pc = "tx" /\ call'[c].op \in {"delete", "revoke", "push"}
    /\ call'[c].op = "push" /\ call'[c].was = "dead" =>
         /\ call'[c].id \in handed /\ call'[c].at = clock
         /\ \A w \in Registries : ~Usable(w, call'[c].id)
    /\ UNCHANGED <<drawn, sent, handed, clock, documents, gone, yield>>

(* Call c is over; at most it has sent its challenge or handed its grant.  *)
Ends(c) ==
    /\ Alone(c) /\ call'[c].pc \in {"done", "sent"} /\ UNCHANGED drawn
    /\ call'[c].pc = "sent" =>
         /\ call[c].pc = "send" /\ call[c].op = "push" /\ call'[c].was = call[c].was
    /\ \/ UNCHANGED sent
       \/ Drawing(c, "challenge") /\ sent' = sent \cup {call[c].id}
    /\ \/ UNCHANGED handed
       \/ Drawing(c, "grant") /\ handed' = handed \cup {call[c].id}

Moves(c) == Goes(c) \/ Draws(c) \/ Names(c) \/ Ends(c)
Rests    == UNCHANGED <<call, drawn, sent, handed>>

LEMMA Ending ==
    ASSUME TypeOK, NEW c \in Calls, Finish(c), UNCHANGED <<drawn, sent, handed>>
    PROVE  Ends(c)
BY Finishes DEF Ends, Alone, Done

LEMMA Committed ==
    ASSUME TypeOK, NEW c \in Calls, Commit(c, Done), UNCHANGED <<drawn, sent, handed>>
    PROVE  Ends(c) \/ Rests
BY Ending DEF Commit, Acked, Unacked, Finish, Rests

LEMMA Drew ==
    ASSUME TypeOK, NEW c \in Calls, NEW r \in CallRecord, Begin(c, r),
           r.pc = "tx", r.op \in Drawers, r.at = clock, r.id \notin drawn,
           drawn' = drawn \cup {r.id},
           r.op = "complete" /\ r.proof = "right" => r.on \in sent
    PROVE  call' \in [Calls -> CallRecord] /\ Draws(c)
<1>1. Becomes(c, r) /\ UNCHANGED <<sent, handed, clock, documents, gone, yield>>
  BY DEF Begin, history
<1>2. /\ call' \in [Calls -> CallRecord] /\ call'[c] = r
      /\ Alone(c)
  BY <1>1, Become DEF Alone
<1> QED BY <1>1, <1>2 DEF Draws

LEMMA Named ==
    ASSUME TypeOK, NEW c \in Calls, NEW r \in CallRecord, Begin(c, r), UNCHANGED drawn,
           r.pc = "tx", r.op \in {"delete", "revoke", "push"},
           r.op = "push" /\ r.was = "dead" =>
             r.id \in handed /\ r.at = clock /\ \A w \in Registries : ~Usable(w, r.id)
    PROVE  call' \in [Calls -> CallRecord] /\ Names(c)
<1>1. Becomes(c, r) /\ UNCHANGED <<sent, handed, clock, documents, gone, yield>>
  BY DEF Begin, history
<1>2. /\ call' \in [Calls -> CallRecord] /\ call'[c] = r
      /\ Alone(c)
  BY <1>1, Become DEF Alone
<1> QED BY <1>1, <1>2 DEF Names

LEMMA BeginSteps ==
    ASSUME TypeOK, NEW c \in Calls,
           \/ \E u \in Users : BeginChallenge(c, u)
           \/ \E u \in Users, k \in Challenges, proof \in {"right", "wrong"} :
                BeginComplete(c, u, k, proof)
           \/ \E u \in Users, d \in Destinations : BeginDelete(c, u, d)
           \/ \E u \in Users, h \in Homes, d \in Destinations : BeginGrant(c, u, h, d)
           \/ \E u \in Users, h \in Homes, g \in Grants : BeginRevoke(c, u, h, g)
           \/ \E h \in Homes, g \in Grants : BeginPush(c, h, g)
    PROVE  /\ call' \in [Calls -> CallRecord]
           /\ Draws(c) \/ Names(c)
           /\ UNCHANGED <<clock, documents, lostAcks, gone, yield>>
<1>0. clock \in Nat
  BY DEF TypeOK
<1>1. CASE \E u \in Users : BeginChallenge(c, u)
  <2>1. PICK u \in Users : BeginChallenge(c, u)
    BY <1>1
  <2>2. PICK k \in Challenges \ drawn :
          /\ Begin(c, [pc |-> "tx", op |-> "challenge", user |-> u, id |-> k,
                       at |-> clock, tries |-> 1])
          /\ drawn' = drawn \cup {k}
    BY <2>1, Freshness DEF BeginChallenge
  <2> DEFINE r == [pc |-> "tx", op |-> "challenge", user |-> u, id |-> k,
                   at |-> clock, tries |-> 1]
  <2>3. r \in CallRecord
    BY <1>0 DEF CallRecord
  <2>4. /\ r.pc = "tx" /\ r.op = "challenge" /\ r.at = clock /\ r.id = k
    OBVIOUS
  <2>5. Begin(c, r) /\ drawn' = drawn \cup {r.id}
    BY <2>2
  <2> HIDE DEF r
  <2> QED BY <2>3, <2>4, <2>5, Drew DEF Drawers, Begin, history
<1>2. CASE \E u \in Users, k \in Challenges, proof \in {"right", "wrong"} :
             BeginComplete(c, u, k, proof)
  <2>1. PICK u \in Users, k \in Challenges, proof \in {"right", "wrong"} :
          BeginComplete(c, u, k, proof)
    BY <1>2
  <2>2. PICK d \in Destinations \ drawn :
          /\ k \in drawn /\ (proof = "right" => k \in sent)
          /\ Begin(c, [pc |-> "tx", op |-> "complete", user |-> u, id |-> d, on |-> k,
                       proof |-> proof, at |-> clock, tries |-> 1])
          /\ drawn' = drawn \cup {d}
    BY <2>1, Freshness DEF BeginComplete
  <2> DEFINE r == [pc |-> "tx", op |-> "complete", user |-> u, id |-> d, on |-> k,
                   proof |-> proof, at |-> clock, tries |-> 1]
  <2>3. r \in CallRecord
    BY <1>0 DEF CallRecord
  <2>4. /\ r.pc = "tx" /\ r.op = "complete" /\ r.at = clock /\ r.id = d
        /\ r.proof = proof /\ r.on = k
    OBVIOUS
  <2>5. Begin(c, r) /\ drawn' = drawn \cup {r.id} /\ (proof = "right" => k \in sent)
    BY <2>2
  <2> HIDE DEF r
  <2> QED BY <2>3, <2>4, <2>5, Drew DEF Drawers, Begin, history
<1>3. CASE \E u \in Users, d \in Destinations : BeginDelete(c, u, d)
  <2>1. PICK u \in Users, d \in Destinations : BeginDelete(c, u, d)
    BY <1>3
  <2> DEFINE r == [pc |-> "tx", op |-> "delete", user |-> u, id |-> d]
  <2>2. r \in CallRecord /\ r.pc = "tx" /\ r.op = "delete"
    BY DEF CallRecord
  <2>3. Begin(c, r) /\ UNCHANGED drawn
    BY <2>1 DEF BeginDelete
  <2> HIDE DEF r
  <2> QED BY <2>2, <2>3, Named DEF Begin, history
<1>4. CASE \E u \in Users, h \in Homes, d \in Destinations : BeginGrant(c, u, h, d)
  <2>1. PICK u \in Users, h \in Homes, d \in Destinations : BeginGrant(c, u, h, d)
    BY <1>4
  <2>2. PICK g \in Grants \ drawn :
          /\ d \in drawn
          /\ Begin(c, [pc |-> "tx", op |-> "grant", user |-> u, home |-> h, id |-> g,
                       on |-> d, at |-> clock, tries |-> 1])
          /\ drawn' = drawn \cup {g}
    BY <2>1, Freshness DEF BeginGrant
  <2> DEFINE r == [pc |-> "tx", op |-> "grant", user |-> u, home |-> h, id |-> g,
                   on |-> d, at |-> clock, tries |-> 1]
  <2>3. r \in CallRecord
    BY <1>0 DEF CallRecord
  <2>4. /\ r.pc = "tx" /\ r.op = "grant" /\ r.at = clock /\ r.id = g
    OBVIOUS
  <2>5. Begin(c, r) /\ drawn' = drawn \cup {r.id}
    BY <2>2
  <2> HIDE DEF r
  <2> QED BY <2>3, <2>4, <2>5, Drew DEF Drawers, Begin, history
<1>5. CASE \E u \in Users, h \in Homes, g \in Grants : BeginRevoke(c, u, h, g)
  <2>1. PICK u \in Users, h \in Homes, g \in Grants : BeginRevoke(c, u, h, g)
    BY <1>5
  <2> DEFINE r == [pc |-> "tx", op |-> "revoke", user |-> u, home |-> h, id |-> g]
  <2>2. r \in CallRecord /\ r.pc = "tx" /\ r.op = "revoke"
    BY DEF CallRecord
  <2>3. Begin(c, r) /\ UNCHANGED drawn
    BY <2>1 DEF BeginRevoke
  <2> HIDE DEF r
  <2> QED BY <2>2, <2>3, Named DEF Begin, history
<1>6. CASE \E h \in Homes, g \in Grants : BeginPush(c, h, g)
  <2>1. PICK h \in Homes, g \in Grants : BeginPush(c, h, g)
    BY <1>6
  <2> DEFINE was == IF g \in handed /\ \A w \in Registries : ~Usable(w, g)
                    THEN "dead" ELSE "live"
             r == [pc |-> "tx", op |-> "push", home |-> h, id |-> g, at |-> clock,
                   was |-> was]
  <2>2. Begin(c, r) /\ UNCHANGED drawn
    BY <2>1 DEF BeginPush
  <2>3. was \in {"live", "dead"} /\
        (was = "dead" => g \in handed /\ \A w \in Registries : ~Usable(w, g))
    OBVIOUS
  <2> HIDE DEF was
  <2>4. r \in CallRecord
    BY <1>0, <2>3 DEF CallRecord
  <2>5. r.pc = "tx" /\ r.op = "push" /\ r.at = clock /\ r.id = g /\ r.was = was
    OBVIOUS
  <2> HIDE DEF r
  <2> QED BY <2>2, <2>3, <2>4, <2>5, Named DEF Begin, history
<1> QED BY <1>1, <1>2, <1>3, <1>4, <1>5, <1>6

LEMMA ReplySteps ==
    ASSUME TypeOK, NEW c \in Calls, Reply(c)
    PROVE  call' \in [Calls -> CallRecord] /\ (Goes(c) \/ Ends(c))
<1>1. CASE Finish(c) /\ UNCHANGED handed
  BY <1>1, Finishes, Ending DEF Reply
<1>2. CASE /\ Verdict(c) = "ok" /\ Becomes(c, Accepted(c))
           /\ handed' = IF call[c].op = "grant" THEN handed \cup {call[c].id} ELSE handed
  <2>0. call[c].pc = "tx" /\ UNCHANGED <<drawn, sent>>
    BY DEF Reply
  <2>1. CASE call[c].op \in {"challenge", "push"}
    <3>1. Becomes(c, [call[c] EXCEPT !.pc = "send"]) /\ UNCHANGED handed
      BY <1>2, <2>1 DEF Accepted
    <3>2. /\ call' \in [Calls -> CallRecord] /\ call'[c] = [call[c] EXCEPT !.pc = "send"]
          /\ Alone(c)
      BY <2>0, <2>1, <3>1, Sends, Become DEF Alone
    <3>3. call[c].op = "push" => PushVerdict(c) = "ok"
      BY <1>2, Verdicts
    <3> QED BY <2>0, <2>1, <3>1, <3>2, <3>3 DEF Goes
  <2>2. CASE call[c].op \notin {"challenge", "push"}
    <3>1. Finish(c)
      BY <1>2, <2>2 DEF Accepted, Finish
    <3>2. /\ call' \in [Calls -> CallRecord] /\ call'[c] = Done
          /\ Alone(c)
      BY <3>1, Finishes DEF Alone
    <3> QED BY <1>2, <2>0, <3>2 DEF Ends, Done, Drawing
  <2> QED BY <2>1, <2>2
<1> QED BY <1>1, <1>2 DEF Reply

LEMMA CollideSteps ==
    ASSUME TypeOK, NEW c \in Calls, Collide(c)
    PROVE  call' \in [Calls -> CallRecord] /\ (Draws(c) \/ Ends(c))
<1>0. /\ call[c].pc = "tx" /\ call[c].op \in Drawers
      /\ UNCHANGED <<sent, handed, clock, documents, gone, yield>>
  BY Collisions DEF Collide, history
<1>1. CASE Finish(c) /\ UNCHANGED drawn
  BY <1>0, <1>1, Finishes, Ending
<1>2. CASE \E i \in Fresh(call[c].op) :
             Becomes(c, Retried(call[c], i)) /\ drawn' = drawn \cup {i}
  <2>1. PICK i \in Fresh(call[c].op) :
          Becomes(c, Retried(call[c], i)) /\ drawn' = drawn \cup {i}
    BY <1>2
  <2>2. /\ call' \in [Calls -> CallRecord] /\ call'[c] = Retried(call[c], i)
        /\ Alone(c)
    BY <1>0, <2>1, Retries, Become DEF Alone
  <2>3. i \notin drawn
    BY <1>0, Freshness DEF Drawers
  <2>4. /\ call'[c].pc = "tx" /\ call'[c].op = call[c].op /\ call'[c].id = i
        /\ call'[c].at = clock
        /\ call[c].op = "complete" =>
             call'[c].on = call[c].on /\ call'[c].proof = call[c].proof
    BY <1>0, <2>2, Retries
  <2> QED BY <1>0, <2>1, <2>2, <2>3, <2>4 DEF Draws, Drawing
<1> QED BY <1>1, <1>2 DEF Collide, Redraw

LEMMA StoreSteps ==
    ASSUME TypeOK, NEW c \in Calls,
           \/ StoreChallenge(c) \/ StoreDestination(c) \/ RemoveDestination(c)
           \/ StoreGrant(c) \/ MarkRevoked(c)
    PROVE  /\ call' \in [Calls -> CallRecord] /\ lostAcks' \in 0..MaxLostAcks
           /\ Rests \/ Goes(c) \/ Ends(c)
<1>0. Done \in CallRecord
  BY DEF Done, CallRecord
<1>1. CASE StoreChallenge(c)
  <2>1. /\ call[c].pc = "tx" /\ call[c].op = "challenge" /\ UNCHANGED <<drawn, sent, handed>>
        /\ Commit(c, [call[c] EXCEPT !.pc = "send"])
    BY <1>1 DEF StoreChallenge, InTx, history
  <2>2. [call[c] EXCEPT !.pc = "send"] \in CallRecord
    BY <2>1, Sends
  <2>3. call' \in [Calls -> CallRecord] /\ lostAcks' \in 0..MaxLostAcks
    BY <2>1, <2>2, Commits
  <2>4. CASE Acked(c, [call[c] EXCEPT !.pc = "send"])
    BY <2>1, <2>2, <2>3, <2>4, Become DEF Acked, Goes, Alone
  <2>5. CASE Unacked
    BY <2>1, <2>3, <2>5 DEF Unacked, Rests
  <2> QED BY <2>1, <2>3, <2>4, <2>5 DEF Commit
<1>2. CASE StoreDestination(c) \/ RemoveDestination(c) \/ MarkRevoked(c)
  <2>1. Commit(c, Done) /\ UNCHANGED <<drawn, sent, handed>>
    BY <1>2 DEF StoreDestination, RemoveDestination, MarkRevoked, history
  <2> QED BY <1>0, <2>1, Commits, Committed
<1>3. CASE StoreGrant(c)
  <2>1. /\ call[c].pc = "tx" /\ call[c].op = "grant" /\ UNCHANGED <<drawn, sent>>
        /\ \/ Acked(c, Done) /\ handed' = handed \cup {call[c].id}
           \/ Unacked /\ UNCHANGED handed
    BY <1>3 DEF StoreGrant, InTx
  <2>2. call' \in [Calls -> CallRecord] /\ lostAcks' \in 0..MaxLostAcks
    BY <1>0, <2>1, Commits DEF Commit
  <2>3. CASE Acked(c, Done) /\ handed' = handed \cup {call[c].id}
    <3>1. call'[c] = Done /\ Alone(c)
      BY <1>0, <2>3, Become DEF Acked, Alone
    <3> QED BY <2>1, <2>2, <2>3, <3>1 DEF Ends, Done, Drawing
  <2>4. CASE Unacked /\ UNCHANGED handed
    BY <2>1, <2>2, <2>4 DEF Unacked, Rests
  <2> QED BY <2>1, <2>3, <2>4
<1> QED BY <1>1, <1>2, <1>3

LEMMA SendSteps ==
    ASSUME TypeOK, NEW c \in Calls, SendChallenge(c) \/ SendPush(c) \/ Abandon(c)
    PROVE  /\ call' \in [Calls -> CallRecord] /\ Ends(c)
           /\ UNCHANGED <<clock, documents, lostAcks, gone, yield>>
<1>1. CASE SendChallenge(c)
  <2>1. /\ Drawing(c, "challenge") /\ sent' = sent \cup {call[c].id} /\ Finish(c)
        /\ UNCHANGED <<drawn, handed>>
    BY <1>1 DEF SendChallenge, Drawing, history
  <2>2. call' \in [Calls -> CallRecord] /\ call'[c] = Done /\ Alone(c)
    BY <2>1, Finishes DEF Alone
  <2>3. UNCHANGED <<clock, documents, lostAcks, gone, yield>>
    BY <1>1 DEF SendChallenge, history
  <2> QED BY <2>1, <2>2, <2>3 DEF Ends, Done
<1>2. CASE SendPush(c)
  <2> DEFINE r == [pc |-> "sent", was |-> call[c].was]
  <2>1. /\ call[c].pc = "send" /\ call[c].op = "push" /\ Becomes(c, r)
        /\ UNCHANGED <<drawn, sent, handed>>
    BY <1>2 DEF SendPush, history
  <2>2. call[c].was \in {"live", "dead"}
    BY <2>1, Calling
  <2>3. r \in CallRecord /\ r.pc = "sent" /\ r.was = call[c].was
    BY <2>2 DEF CallRecord
  <2> HIDE DEF r
  <2>4. call' \in [Calls -> CallRecord] /\ call'[c] = r /\ Alone(c)
    BY <2>1, <2>3, Become DEF Alone
  <2>5. UNCHANGED <<clock, documents, lostAcks, gone, yield>>
    BY <1>2 DEF SendPush, history
  <2> QED BY <2>1, <2>3, <2>4, <2>5 DEF Ends
<1>3. CASE Abandon(c)
  <2>1. Finish(c) /\ UNCHANGED <<drawn, sent, handed>>
    BY <1>3 DEF Abandon, history
  <2>2. UNCHANGED <<clock, documents, lostAcks, gone, yield>>
    BY <1>3 DEF Abandon, history
  <2> QED BY <2>1, <2>2, Finishes, Ending
<1> QED BY <1>1, <1>2, <1>3

Stores(c) ==
    \/ StoreChallenge(c) \/ StoreDestination(c) \/ RemoveDestination(c)
    \/ StoreGrant(c) \/ MarkRevoked(c)

(* Every step moves one call at most, and changes the documents only when  *)
(* a transaction writes.                                                   *)
LEMMA CallSteps ==
    ASSUME TypeOK, Next
    PROVE  /\ call' \in [Calls -> CallRecord] /\ lostAcks' \in 0..MaxLostAcks
           /\ clock' = clock \/ (clock' = clock + 1 /\ clock < MaxClock)
           /\ Rests \/ \E c \in Calls : Moves(c)
           /\ \/ UNCHANGED <<documents, gone, yield>>
              \/ UNCHANGED clock /\ \E c \in Calls : Stores(c)
<1>0. call \in [Calls -> CallRecord] /\ lostAcks \in 0..MaxLostAcks
  BY DEF TypeOK
<1>1. CASE Tick
  BY <1>0, <1>1 DEF Tick, Rests, history
<1>2. ASSUME NEW c \in Calls,
           \/ \E u \in Users : BeginChallenge(c, u)
           \/ \E u \in Users, k \in Challenges, proof \in {"right", "wrong"} :
                BeginComplete(c, u, k, proof)
           \/ \E u \in Users, d \in Destinations : BeginDelete(c, u, d)
           \/ \E u \in Users, h \in Homes, d \in Destinations : BeginGrant(c, u, h, d)
           \/ \E u \in Users, h \in Homes, g \in Grants : BeginRevoke(c, u, h, g)
           \/ \E h \in Homes, g \in Grants : BeginPush(c, h, g)
      PROVE  /\ call' \in [Calls -> CallRecord] /\ Moves(c)
             /\ UNCHANGED <<clock, documents, lostAcks, gone, yield>>
  BY <1>2, BeginSteps DEF Moves
<1>3. ASSUME NEW c \in Calls, Reply(c) \/ Collide(c)
      PROVE  /\ call' \in [Calls -> CallRecord] /\ Moves(c)
             /\ UNCHANGED <<clock, documents, lostAcks, gone, yield>>
  <2>1. UNCHANGED <<clock, documents, lostAcks, gone, yield>>
    BY <1>3 DEF Reply, Collide, history
  <2> QED BY <1>3, <2>1, ReplySteps, CollideSteps DEF Moves
<1>4. ASSUME NEW c \in Calls, SendChallenge(c) \/ SendPush(c) \/ Abandon(c)
      PROVE  /\ call' \in [Calls -> CallRecord] /\ Moves(c)
             /\ UNCHANGED <<clock, documents, lostAcks, gone, yield>>
  BY <1>4, SendSteps DEF Moves
<1>5. ASSUME NEW c \in Calls, Stores(c)
      PROVE  /\ call' \in [Calls -> CallRecord] /\ lostAcks' \in 0..MaxLostAcks
             /\ Rests \/ Moves(c)
             /\ UNCHANGED clock
  <2>1. UNCHANGED clock
    BY <1>5 DEF Stores, StoreChallenge, StoreDestination, RemoveDestination, StoreGrant,
                MarkRevoked
  <2> QED BY <1>5, <2>1, StoreSteps DEF Moves, Stores
<1> QED BY <1>0, <1>1, <1>2, <1>3, <1>4, <1>5 DEF Next, Stores

-----------------------------------------------------------------------------
(* The registries. *)

LEMMA Finite ==
    ASSUME TypeOK
    PROVE  /\ \A u \in Users : \A at : IsFiniteSet(Held(u)) /\ IsFiniteSet(Live(u, at))
           /\ \A u \in Users : IsFiniteSet(destination[u])
           /\ \A w \in Registries :
                IsFiniteSet(Kept(w)) /\ \A d : IsFiniteSet(For(w, d))
<1>1. \A S \in SUBSET Challenges : IsFiniteSet(S)
  BY PushAssumption, FS_Subset
<1>2. \A S \in SUBSET Destinations : IsFiniteSet(S)
  BY PushAssumption, FS_Subset
<1>3. \A S \in SUBSET Grants : IsFiniteSet(S)
  BY PushAssumption, FS_Subset
<1>4. \A u \in Users : \A at : Held(u) \in SUBSET Challenges /\ Live(u, at) \in SUBSET Challenges
  BY DEF Held, Live
<1>5. \A w \in Registries : \A d : Kept(w) \in SUBSET Grants /\ For(w, d) \in SUBSET Grants
  BY DEF Kept, For
<1>6. \A u \in Users : destination[u] \in SUBSET Destinations
  BY DEF TypeOK
<1> QED BY <1>1, <1>2, <1>3, <1>4, <1>5, <1>6

(* A step that leaves the documents alone. *)
LEMMA RegistriesStay ==
    ASSUME RegistriesReconcile, UNCHANGED documents
    PROVE  RegistriesReconcile'
BY DEF RegistriesReconcile, documents, DestinationsReconcile, GrantsReconcile, Held, Kept, For,
       IndexMirrorsGrants, IndexAgrees, Entry

(* A step that leaves the grants alone, or the challenges and destinations. *)
LEMMA GrantsStay ==
    ASSUME RegistriesReconcile, UNCHANGED <<grant, retained, index>>
    PROVE  (\A w \in Registries : GrantsReconcile(w)') /\ IndexMirrorsGrants'
BY DEF RegistriesReconcile, GrantsReconcile, Kept, For, IndexMirrorsGrants, IndexAgrees, Entry

LEMMA DestinationsStay ==
    ASSUME RegistriesReconcile, UNCHANGED <<challenge, destination, destinationCount>>
    PROVE  \A u \in Users : /\ DestinationsReconcile(u)'
                            /\ Cardinality(Held(u))' <= MaxActiveChallenges
BY DEF RegistriesReconcile, DestinationsReconcile, Held

(* What StoreChallenge does to the challenges. *)
LEMMA Challenging ==
    ASSUME TypeOK, NEW c \in Calls, StoreChallenge(c)
    PROVE  /\ call[c].user \in Users /\ call[c].id \in Challenges /\ call[c].at \in Nat
           /\ Drawing(c, "challenge") /\ call[c].pc = "tx"
           /\ call[c].id \notin Held(call[c].user)
           /\ Cardinality(Live(call[c].user, call[c].at)) < MaxActiveChallenges
           /\ \A v \in Users \ {call[c].user} : challenge'[v] = challenge[v]
           /\ challenge'[call[c].user][call[c].id] = Pending(call[c].at + ChallengeLifetime)
           /\ \A k \in Challenges \ {call[c].id} :
                challenge'[call[c].user][k] =
                  IF k \in Swept(call[c].user, call[c].at) THEN NoChallenge
                  ELSE challenge[call[c].user][k]
           /\ challenge' \in [Users -> [Challenges -> ChallengeRecord]]
<1> DEFINE u == call[c].user
           k == call[c].id
           at == call[c].at
           row == [j \in Challenges |-> IF j = k THEN Pending(at + ChallengeLifetime)
                     ELSE IF j \in Swept(u, at) THEN NoChallenge ELSE challenge[u][j]]
<1>1. call[c].pc = "tx" /\ call[c].op = "challenge"
  BY DEF StoreChallenge, InTx
<1>2. u \in Users /\ k \in Challenges /\ at \in Nat
  BY <1>1, Calling
<1>3. k \notin Held(u) /\ ~(Cardinality(Live(u, at)) >= MaxActiveChallenges)
  BY DEF StoreChallenge, ChallengeVerdict
<1>4. Cardinality(Live(u, at)) \in Nat /\ MaxActiveChallenges \in Nat
  BY <1>2, Finite, FS_CardinalityType, PushAssumption
<1>5. challenge' = [challenge EXCEPT ![u] = row]
  BY DEF StoreChallenge
<1>6. Pending(at + ChallengeLifetime) \in ChallengeRecord /\ NoChallenge \in ChallengeRecord
  BY <1>2, PushAssumption DEF Pending, ChallengeRecord
<1>7. row \in [Challenges -> ChallengeRecord]
  BY <1>2, <1>6 DEF TypeOK
<1>8. row[k] = Pending(at + ChallengeLifetime) /\
      \A j \in Challenges \ {k} :
        row[j] = IF j \in Swept(u, at) THEN NoChallenge ELSE challenge[u][j]
  BY <1>2
<1> HIDE DEF row
<1>9. challenge'[u] = row /\ \A v \in Users \ {u} : challenge'[v] = challenge[v]
  BY <1>2, <1>5 DEF TypeOK
<1>10. challenge' \in [Users -> [Challenges -> ChallengeRecord]]
  BY <1>2, <1>5, <1>7 DEF TypeOK
<1> QED BY <1>1, <1>2, <1>3, <1>4, <1>8, <1>9, <1>10 DEF Drawing

LEMMA RegistryChallenge ==
    ASSUME RegistryInv, NEW c \in Calls, StoreChallenge(c)
    PROVE  RegistriesReconcile'
<1>0. TypeOK /\ RegistriesReconcile
  BY DEF RegistryInv
<1>1. UNCHANGED <<destination, destinationCount, grant, retained, index>>
  BY DEF StoreChallenge
<1>2. PICK u \in Users, k \in Challenges, at \in Nat :
        /\ k \notin Held(u) /\ Cardinality(Live(u, at)) < MaxActiveChallenges
        /\ \A v \in Users \ {u} : challenge'[v] = challenge[v]
        /\ challenge'[u][k] = Pending(at + ChallengeLifetime)
        /\ \A j \in Challenges \ {k} :
             challenge'[u][j] = IF j \in Swept(u, at) THEN NoChallenge ELSE challenge[u][j]
  BY <1>0, Challenging
<1>3. \A v \in Users \ {u} : Held(v)' = Held(v)
  BY <1>2 DEF Held
<1>4. Held(u)' = Live(u, at) \cup {k}
  <2>1. \A j \in Challenges \ {k} : j \in Held(u)' <=> j \in Live(u, at)
    BY <1>2 DEF Held, Live, Swept, NoChallenge
  <2>2. k \in Held(u)'
    BY <1>2 DEF Held, Pending
  <2> QED BY <1>2, <2>1, <2>2 DEF Held, Live
<1>5. Cardinality(Held(u)') <= MaxActiveChallenges
  <2>1. IsFiniteSet(Live(u, at)) /\ k \notin Live(u, at)
    BY <1>0, <1>2, Finite DEF Live
  <2>2. Cardinality(Live(u, at) \cup {k}) = Cardinality(Live(u, at)) + 1
    BY <2>1, FS_AddElement
  <2>3. Cardinality(Live(u, at)) \in Nat /\ MaxActiveChallenges \in Nat
    BY <2>1, FS_CardinalityType, PushAssumption
  <2> QED BY <1>2, <1>4, <2>2, <2>3
<1>6. \A v \in Users : DestinationsReconcile(v)'
  BY <1>0, <1>1 DEF RegistriesReconcile, DestinationsReconcile
<1>7. \A v \in Users : Cardinality(Held(v))' <= MaxActiveChallenges
  BY <1>0, <1>3, <1>5 DEF RegistriesReconcile
<1> QED BY <1>0, <1>1, <1>6, <1>7, GrantsStay DEF RegistriesReconcile

(* What StoreDestination does. *)
LEMMA Storing ==
    ASSUME TypeOK, NEW c \in Calls, StoreDestination(c)
    PROVE  /\ call[c].user \in Users /\ call[c].id \in Destinations /\ call[c].on \in Challenges
           /\ Drawing(c, "complete") /\ call[c].pc = "tx" /\ call[c].proof = "right"
           /\ call[c].on \in Held(call[c].user)
           /\ challenge[call[c].user][call[c].on].status = "pending"
           /\ call[c].id \notin destination[call[c].user]
           /\ destinationCount[call[c].user] < MaxActiveDestinations
           /\ DestinationsReconcile(call[c].user)
           /\ \A v \in Users \ {call[c].user} :
                /\ challenge'[v] = challenge[v] /\ destination'[v] = destination[v]
                /\ destinationCount'[v] = destinationCount[v]
           /\ destination'[call[c].user] = destination[call[c].user] \cup {call[c].id}
           /\ destinationCount'[call[c].user] = destinationCount[call[c].user] + 1
           /\ challenge'[call[c].user][call[c].on].status = "consumed"
           /\ \A k \in Challenges \ {call[c].on} :
                challenge'[call[c].user][k] = challenge[call[c].user][k]
           /\ yield'[call[c].on] = yield[call[c].on] \cup {call[c].id}
           /\ \A k \in Challenges \ {call[c].on} : yield'[k] = yield[k]
           /\ challenge' \in [Users -> [Challenges -> ChallengeRecord]]
           /\ destination' \in [Users -> SUBSET Destinations]
           /\ destinationCount' \in [Users -> Nat]
           /\ yield' \in [Challenges -> SUBSET Destinations]
<1> DEFINE u == call[c].user
           k == call[c].on
           d == call[c].id
           r == [status |-> "consumed", dest |-> d, expires |-> challenge[u][k].expires]
           row == [challenge[u] EXCEPT ![k] = r]
<1>1. call[c].pc = "tx" /\ call[c].op = "complete"
  BY DEF StoreDestination, InTx
<1>2. u \in Users /\ d \in Destinations /\ k \in Challenges /\ call[c].proof \in {"right", "wrong"}
  BY <1>1, Calling
<1>3. /\ call[c].proof # "wrong" /\ k \in Held(u) /\ d \notin destination[u]
      /\ challenge[u][k].status # "consumed"
      /\ ~(destinationCount[u] >= MaxActiveDestinations) /\ DestinationsReconcile(u)
  BY DEF StoreDestination, CompleteVerdict, Consumed
<1>4. challenge[u][k] \in ChallengeRecord
  BY <1>2 DEF TypeOK
<1>5. challenge[u][k].status = "pending" /\ challenge[u][k].expires \in Nat
  BY <1>3, <1>4 DEF ChallengeRecord, NoChallenge, Held
<1>6. r \in ChallengeRecord /\ r.status = "consumed"
  BY <1>2, <1>5 DEF ChallengeRecord
<1>7. /\ challenge' = [challenge EXCEPT ![u] = row]
      /\ destination' = [destination EXCEPT ![u] = destination[u] \cup {d}]
      /\ destinationCount' = [destinationCount EXCEPT ![u] = destinationCount[u] + 1]
      /\ yield' = [yield EXCEPT ![k] = yield[k] \cup {d}]
  BY DEF StoreDestination
<1> HIDE DEF r
<1>8. /\ row \in [Challenges -> ChallengeRecord] /\ row[k] = r
      /\ \A j \in Challenges \ {k} : row[j] = challenge[u][j]
  BY <1>2, <1>6 DEF TypeOK
<1> HIDE DEF row
<1>9. challenge' \in [Users -> [Challenges -> ChallengeRecord]] /\ challenge'[u] = row
      /\ \A v \in Users \ {u} : challenge'[v] = challenge[v]
  BY <1>2, <1>7, <1>8 DEF TypeOK
<1>10. /\ destination' \in [Users -> SUBSET Destinations]
       /\ destination'[u] = destination[u] \cup {d}
       /\ \A v \in Users \ {u} : destination'[v] = destination[v]
  BY <1>2, <1>7 DEF TypeOK
<1>11. /\ destinationCount' \in [Users -> Nat] /\ destinationCount[u] \in Nat
       /\ destinationCount'[u] = destinationCount[u] + 1
       /\ \A v \in Users \ {u} : destinationCount'[v] = destinationCount[v]
  BY <1>2, <1>7 DEF TypeOK
<1>12. /\ yield' \in [Challenges -> SUBSET Destinations] /\ yield'[k] = yield[k] \cup {d}
       /\ \A j \in Challenges \ {k} : yield'[j] = yield[j]
  BY <1>2, <1>7 DEF TypeOK
<1>13. MaxActiveDestinations \in Nat
  BY PushAssumption
<1>14. destinationCount[u] < MaxActiveDestinations
  BY <1>3, <1>11, <1>13
<1> QED BY <1>1, <1>2, <1>3, <1>5, <1>6, <1>8, <1>9, <1>10, <1>11, <1>12, <1>14 DEF Drawing

LEMMA RegistryDestination ==
    ASSUME RegistryInv, NEW c \in Calls, StoreDestination(c)
    PROVE  RegistriesReconcile'
<1>0. TypeOK /\ RegistriesReconcile
  BY DEF RegistryInv
<1>1. UNCHANGED <<grant, retained, index>>
  BY DEF StoreDestination
<1>p. PICK u \in Users, k \in Challenges, d \in Destinations :
        u = call[c].user /\ k = call[c].on /\ d = call[c].id
  BY <1>0, Storing
<1>2. /\ k \in Held(u) /\ d \notin destination[u]
      /\ destinationCount[u] < MaxActiveDestinations
      /\ DestinationsReconcile(u)
      /\ \A v \in Users \ {u} :
           /\ challenge'[v] = challenge[v] /\ destination'[v] = destination[v]
           /\ destinationCount'[v] = destinationCount[v]
      /\ destination'[u] = destination[u] \cup {d}
      /\ destinationCount'[u] = destinationCount[u] + 1
      /\ challenge'[u][k].status = "consumed"
      /\ \A j \in Challenges \ {k} : challenge'[u][j] = challenge[u][j]
  BY <1>0, <1>p, Storing
<1>3. \A v \in Users : Held(v)' = Held(v)
  BY <1>2 DEF Held
<1>4. DestinationsReconcile(u)'
  <2>1. Cardinality(destination[u] \cup {d}) = Cardinality(destination[u]) + 1
    BY <1>0, <1>2, Finite, FS_AddElement
  <2>2. destinationCount[u] \in Nat /\ MaxActiveDestinations \in Nat
    BY <1>0, PushAssumption DEF TypeOK
  <2> QED BY <1>2, <2>1, <2>2 DEF DestinationsReconcile
<1>5. \A v \in Users \ {u} : DestinationsReconcile(v)'
  BY <1>0, <1>2 DEF RegistriesReconcile, DestinationsReconcile
<1>6. \A v \in Users : Cardinality(Held(v))' <= MaxActiveChallenges
  BY <1>0, <1>3 DEF RegistriesReconcile
<1> QED BY <1>0, <1>1, <1>4, <1>5, <1>6, GrantsStay DEF RegistriesReconcile

(* What RemoveDestination does. *)
LEMMA Removing ==
    ASSUME TypeOK, NEW c \in Calls, RemoveDestination(c)
    PROVE  /\ call[c].user \in Users /\ call[c].id \in Destinations
           /\ call[c].id \in destination[call[c].user]
           /\ DestinationsReconcile(call[c].user)
           /\ \A v \in Users \ {call[c].user} :
                destination'[v] = destination[v] /\ destinationCount'[v] = destinationCount[v]
           /\ destination'[call[c].user] = destination[call[c].user] \ {call[c].id}
           /\ destinationCount'[call[c].user] = destinationCount[call[c].user] - 1
           /\ gone' = gone \cup {call[c].id}
           /\ UNCHANGED <<challenge, grant, retained, index, yield>>
           /\ destination' \in [Users -> SUBSET Destinations]
           /\ destinationCount' \in [Users -> Nat]
<1> DEFINE u == call[c].user
           d == call[c].id
<1>1. u \in Users /\ d \in Destinations
  BY Calling DEF RemoveDestination, InTx
<1>2. d \in destination[u] /\ DestinationsReconcile(u)
  BY DEF RemoveDestination, DeleteVerdict
<1>3. /\ destination' = [destination EXCEPT ![u] = destination[u] \ {d}]
      /\ destinationCount' = [destinationCount EXCEPT ![u] = destinationCount[u] - 1]
      /\ gone' = gone \cup {d}
      /\ UNCHANGED <<challenge, grant, retained, index, yield>>
  BY DEF RemoveDestination
<1>4. destinationCount[u] \in Nat /\ destinationCount[u] # 0
  <2>1. IsFiniteSet(destination[u])
    BY <1>1, Finite
  <2>2. Cardinality(destination[u]) # 0
    BY <1>2, <2>1, FS_EmptySet
  <2> QED BY <1>1, <1>2, <2>2 DEF TypeOK, DestinationsReconcile
<1>5. /\ destination' \in [Users -> SUBSET Destinations]
      /\ destination'[u] = destination[u] \ {d}
      /\ \A v \in Users \ {u} : destination'[v] = destination[v]
  BY <1>1, <1>3 DEF TypeOK
<1>7. destinationCount[u] - 1 \in Nat
  BY <1>4
<1>6. /\ destinationCount' \in [Users -> Nat]
      /\ destinationCount'[u] = destinationCount[u] - 1
      /\ \A v \in Users \ {u} : destinationCount'[v] = destinationCount[v]
  BY <1>1, <1>3, <1>7 DEF TypeOK
<1> QED BY <1>1, <1>2, <1>3, <1>5, <1>6

LEMMA RegistryRemoval ==
    ASSUME RegistryInv, NEW c \in Calls, RemoveDestination(c)
    PROVE  RegistriesReconcile'
<1>0. TypeOK /\ RegistriesReconcile
  BY DEF RegistryInv
<1>1. UNCHANGED <<challenge, grant, retained, index>>
  BY DEF RemoveDestination
<1>2. PICK u \in Users, d \in Destinations :
        /\ d \in destination[u] /\ DestinationsReconcile(u)
        /\ \A v \in Users \ {u} :
             destination'[v] = destination[v] /\ destinationCount'[v] = destinationCount[v]
        /\ destination'[u] = destination[u] \ {d}
        /\ destinationCount'[u] = destinationCount[u] - 1
  BY <1>0, Removing
<1>3. \A v \in Users : Held(v)' = Held(v)
  BY <1>1 DEF Held
<1>4. DestinationsReconcile(u)'
  <2>1. Cardinality(destination[u] \ {d}) = Cardinality(destination[u]) - 1
    BY <1>0, <1>2, Finite, FS_RemoveElement
  <2>2. destinationCount[u] \in Nat /\ MaxActiveDestinations \in Nat
    BY <1>0, PushAssumption DEF TypeOK
  <2> QED BY <1>2, <2>1, <2>2 DEF DestinationsReconcile
<1>5. \A v \in Users \ {u} : DestinationsReconcile(v)'
  BY <1>0, <1>2 DEF RegistriesReconcile, DestinationsReconcile
<1>6. \A v \in Users : Cardinality(Held(v))' <= MaxActiveChallenges
  BY <1>0, <1>3 DEF RegistriesReconcile
<1> QED BY <1>0, <1>1, <1>4, <1>5, <1>6, GrantsStay DEF RegistriesReconcile

(* What PutGrant does to the grants and to the index. *)
LEMMA Putting ==
    ASSUME TypeOK, IndexMirrorsGrants,
           NEW w \in Registries, NEW g \in Grants, NEW d \in Destinations,
           NEW made \in Nat, NEW victims \in SUBSET Grants, PutGrant(w, g, d, made, victims)
    PROVE  /\ \A x \in Registries \ {w} : grant'[x] = grant[x] /\ retained'[x] = retained[x]
           /\ retained'[w] = IF victims = {} THEN retained[w] + 1 ELSE retained[w]
           /\ grant'[w][g] = Active(d, made) /\ index'[g] = Entry(w, Active(d, made))
           /\ \A j \in victims \ {g} : grant'[w][j] = NoGrant /\ index'[j] = NoIndex
           /\ \A j \in For(w, d) \ (victims \cup {g}) :
                /\ grant'[w][j].status = "revoked" /\ grant'[w][j].dest = d
                /\ grant'[w][j].made = grant[w][j].made
                /\ index'[j] = Entry(w, grant'[w][j])
           /\ \A j \in Grants \ (victims \cup For(w, d) \cup {g}) :
                grant'[w][j] = grant[w][j] /\ index'[j] = index[j]
<1> DEFINE revoked(r) == [r EXCEPT !.status = "revoked"]
           row == [j \in Grants |->
            IF j = g THEN Active(d, made)
            ELSE IF j \in victims THEN NoGrant
            ELSE IF j \in For(w, d) \ victims THEN revoked(grant[w][j]) ELSE grant[w][j]]
           entries == [j \in Grants |->
            IF j = g THEN Entry(w, Active(d, made))
            ELSE IF j \in victims THEN NoIndex
            ELSE IF j \in For(w, d) \ victims THEN revoked(index[j]) ELSE index[j]]
<1>1. grant' = [grant EXCEPT ![w] = row] /\ index' = entries
  BY DEF PutGrant
<1>2. ASSUME NEW j \in For(w, d)
      PROVE  /\ revoked(grant[w][j]).status = "revoked" /\ revoked(grant[w][j]).dest = d
             /\ revoked(grant[w][j]).made = grant[w][j].made
             /\ revoked(index[j]) = Entry(w, revoked(grant[w][j]))
  <2>1. j \in Kept(w) /\ index[j] = Entry(w, grant[w][j]) /\ grant[w][j].dest = d
    BY DEF For, Kept, IndexMirrorsGrants, IndexAgrees
  <2>2. revoked(index[j]) = [status |-> "revoked", at |-> w, dest |-> d]
    BY <2>1 DEF Entry
  <2>3. grant[w][j] \in GrantRecord
    BY DEF For, TypeOK
  <2>4. /\ revoked(grant[w][j]).status = "revoked" /\ revoked(grant[w][j]).dest = d
        /\ revoked(grant[w][j]).made = grant[w][j].made
    BY <2>1, <2>3 DEF GrantRecord, NoGrant
  <2> QED BY <2>2, <2>4 DEF Entry
<1> HIDE DEF revoked
<1>3. /\ row[g] = Active(d, made)
      /\ \A j \in victims \ {g} : row[j] = NoGrant
      /\ \A j \in For(w, d) \ (victims \cup {g}) : row[j] = revoked(grant[w][j])
      /\ \A j \in Grants \ (victims \cup For(w, d) \cup {g}) : row[j] = grant[w][j]
  BY DEF For
<1>4. /\ entries[g] = Entry(w, Active(d, made))
      /\ \A j \in victims \ {g} : entries[j] = NoIndex
      /\ \A j \in For(w, d) \ (victims \cup {g}) : entries[j] = revoked(index[j])
      /\ \A j \in Grants \ (victims \cup For(w, d) \cup {g}) : entries[j] = index[j]
  BY DEF For
<1> HIDE DEF row, entries
<1>5. grant'[w] = row /\ \A x \in Registries \ {w} : grant'[x] = grant[x]
  BY <1>1 DEF TypeOK
<1>6. /\ retained'[w] = IF victims = {} THEN retained[w] + 1 ELSE retained[w]
      /\ \A x \in Registries \ {w} : retained'[x] = retained[x]
  BY DEF PutGrant, TypeOK
<1> QED BY <1>1, <1>2, <1>3, <1>4, <1>5, <1>6

(* What StoreGrant puts where. *)
LEMMA Granting ==
    ASSUME TypeOK, NEW c \in Calls, StoreGrant(c)
    PROVE  \E w \in Registries, g \in Grants, d \in Destinations, made \in Nat,
              victims \in SUBSET Grants :
           /\ w = Where(c) /\ w[1] = call[c].user /\ w[1] \in Users
           /\ g = call[c].id /\ d = call[c].on /\ made = call[c].at
           /\ Drawing(c, "grant") /\ call[c].pc = "tx"
           /\ d \in destination[w[1]] /\ g \notin Kept(w) /\ index[g].status = "absent"
           /\ GrantsReconcile(w)
           /\ PutGrant(w, g, d, made, victims)
           /\ \/ victims = {} /\ retained[w] < MaxRetainedGrants
              \/ \E v \in Compactable(w, made) : victims = {v}
<1>1. call[c].pc = "tx" /\ call[c].op = "grant"
  BY DEF StoreGrant, InTx
<1>2. /\ call[c].user \in Users /\ call[c].home \in Homes /\ call[c].id \in Grants
      /\ call[c].on \in Destinations /\ call[c].at \in Nat
  BY <1>1, Calling
<1>3. PICK w \in Registries : w = Where(c) /\ w[1] = call[c].user
  <2>1. Where(c) = <<call[c].user, call[c].home>>
    BY DEF Where
  <2>2. Where(c) \in Registries /\ Where(c)[1] = call[c].user
    BY <1>2, <2>1 DEF Registries
  <2> QED BY <2>2
<1>4. PICK g \in Grants, d \in Destinations, made \in Nat :
        g = call[c].id /\ d = call[c].on /\ made = call[c].at
  BY <1>2
<1>5. \/ GrantVerdict(c) = "room" /\ PutGrant(w, g, d, made, {})
      \/ /\ GrantVerdict(c) = "compact"
         /\ \E v \in Oldest(w, Compactable(w, made)) : PutGrant(w, g, d, made, {v})
  BY <1>3, <1>4 DEF StoreGrant
<1>6. GrantVerdict(c) \in {"room", "compact"}
  BY <1>5
<1>7. /\ d \in destination[w[1]] /\ GrantsReconcile(w)
      /\ g \notin Kept(w) /\ index[g].status = "absent"
      /\ GrantVerdict(c) = "room" => retained[w] < MaxRetainedGrants
  BY <1>3, <1>4, <1>6 DEF GrantVerdict
<1>8. CASE GrantVerdict(c) = "room" /\ PutGrant(w, g, d, made, {})
  BY <1>1, <1>2, <1>3, <1>4, <1>7, <1>8 DEF Drawing
<1>9. CASE \E v \in Oldest(w, Compactable(w, made)) : PutGrant(w, g, d, made, {v})
  <2>1. PICK v \in Oldest(w, Compactable(w, made)) : PutGrant(w, g, d, made, {v})
    BY <1>9
  <2>2. v \in Compactable(w, made) /\ {v} \in SUBSET Grants
    BY DEF Oldest, Compactable, Kept
  <2> DEFINE victims == {v}
  <2>3. victims \in SUBSET Grants /\ PutGrant(w, g, d, made, victims)
    BY <2>1, <2>2
  <2>4. \E x \in Compactable(w, made) : victims = {x}
    BY <2>2
  <2> HIDE DEF victims
  <2> QED BY <1>1, <1>2, <1>3, <1>4, <1>7, <2>3, <2>4 DEF Drawing
<1> QED BY <1>5, <1>8, <1>9

LEMMA RegistryGrant ==
    ASSUME RegistryInv, NEW c \in Calls, StoreGrant(c)
    PROVE  RegistriesReconcile'
<1>0. TypeOK /\ RegistriesReconcile /\ IndexMirrorsGrants
  BY DEF RegistryInv, RegistriesReconcile
<1>1. UNCHANGED <<challenge, destination, destinationCount>>
  BY DEF StoreGrant
<1>2. PICK w \in Registries, g \in Grants, d \in Destinations, made \in Nat,
           victims \in SUBSET Grants :
        /\ g \notin Kept(w) /\ index[g].status = "absent"
        /\ GrantsReconcile(w)
        /\ PutGrant(w, g, d, made, victims)
        /\ \/ victims = {} /\ retained[w] < MaxRetainedGrants
           \/ \E v \in Compactable(w, made) : victims = {v}
  BY <1>0, Granting
<1>3. victims \subseteq Kept(w) /\ g \notin victims
  BY <1>2 DEF Compactable
<1>4. For(w, d) \subseteq Kept(w) /\ g \notin For(w, d)
  BY <1>2 DEF For, Kept
<1>5. /\ \A x \in Registries \ {w} : grant'[x] = grant[x] /\ retained'[x] = retained[x]
      /\ retained'[w] = IF victims = {} THEN retained[w] + 1 ELSE retained[w]
      /\ grant'[w][g] = Active(d, made) /\ index'[g] = Entry(w, Active(d, made))
      /\ \A j \in victims : grant'[w][j] = NoGrant /\ index'[j] = NoIndex
      /\ \A j \in For(w, d) \ victims :
           /\ grant'[w][j].status = "revoked" /\ grant'[w][j].dest = d
           /\ index'[j] = Entry(w, grant'[w][j])
      /\ \A j \in Grants \ (victims \cup For(w, d) \cup {g}) :
           grant'[w][j] = grant[w][j] /\ index'[j] = index[j]
  BY <1>0, <1>2, <1>3, <1>4, Putting
<1>6. Kept(w)' = (Kept(w) \ victims) \cup {g}
  <2>1. g \in Kept(w)'
    BY <1>5 DEF Kept, Active
  <2>2. \A j \in victims : j \notin Kept(w)'
    BY <1>5 DEF Kept, NoGrant
  <2>3. \A j \in For(w, d) \ victims : j \in Kept(w)'
    BY <1>4, <1>5 DEF Kept
  <2>4. \A j \in Grants \ (victims \cup For(w, d) \cup {g}) : j \in Kept(w)' <=> j \in Kept(w)
    BY <1>5 DEF Kept
  <2>5. Kept(w)' \subseteq Grants /\ Kept(w) \subseteq Grants
    BY DEF Kept
  <2> QED BY <1>4, <2>1, <2>2, <2>3, <2>4, <2>5
<1>7. retained'[w] = Cardinality(Kept(w)') /\ retained'[w] <= MaxRetainedGrants
  <2>1. IsFiniteSet(Kept(w)) /\ retained[w] = Cardinality(Kept(w)) /\ retained[w] \in Nat
        /\ retained[w] <= MaxRetainedGrants /\ MaxRetainedGrants \in Nat
    BY <1>0, <1>2, Finite, PushAssumption DEF GrantsReconcile, TypeOK
  <2>2. CASE victims = {} /\ retained[w] < MaxRetainedGrants
    <3>1. Kept(w)' = Kept(w) \cup {g}
      BY <1>6, <2>2
    <3>2. Cardinality(Kept(w) \cup {g}) = Cardinality(Kept(w)) + 1
      BY <1>2, <2>1, FS_AddElement
    <3> QED BY <1>5, <2>1, <2>2, <3>1, <3>2
  <2>3. CASE \E v \in Compactable(w, made) : victims = {v}
    <3>1. PICK v \in Kept(w) : victims = {v}
      BY <2>3 DEF Compactable
    <3>2. Kept(w)' = (Kept(w) \ {v}) \cup {g}
      BY <1>6, <3>1
    <3>3. IsFiniteSet(Kept(w) \ {v}) /\ Cardinality(Kept(w) \ {v}) = Cardinality(Kept(w)) - 1
      BY <2>1, <3>1, FS_RemoveElement
    <3>4. Cardinality((Kept(w) \ {v}) \cup {g}) = Cardinality(Kept(w) \ {v}) + 1
      BY <1>2, <3>3, FS_AddElement
    <3> QED BY <1>5, <2>1, <3>1, <3>2, <3>3, <3>4
  <2> QED BY <1>2, <2>2, <2>3
<1>8. GrantsReconcile(w)'
  <2>1. ASSUME NEW e \in Destinations PROVE Cardinality(For(w, e))' <= 1
    <3>1. CASE e = d
      <4>1. For(w, e)' = {g}
        <5>1. g \in For(w, e)'
          BY <1>5, <3>1 DEF For, Active
        <5>2. \A j \in victims : j \notin For(w, e)'
          BY <1>5, <3>1 DEF For, NoGrant
        <5>3. \A j \in For(w, d) \ victims : j \notin For(w, e)'
          BY <1>5, <3>1 DEF For
        <5>4. \A j \in Grants \ (victims \cup For(w, d) \cup {g}) : j \notin For(w, e)'
          BY <1>5, <3>1 DEF For
        <5>5. For(w, e)' \subseteq Grants
          BY DEF For
        <5> QED BY <5>1, <5>2, <5>3, <5>4, <5>5
      <4>2. Cardinality({g}) = 1
        BY FS_Singleton
      <4> QED BY <4>1, <4>2
    <3>2. CASE e # d
      <4>1. For(w, e)' \subseteq For(w, e)
        <5>1. g \notin For(w, e)'
          BY <1>5, <3>2 DEF For, Active
        <5>2. \A j \in victims : j \notin For(w, e)'
          BY <1>5 DEF For, NoGrant
        <5>3. \A j \in For(w, d) \ victims : j \notin For(w, e)'
          BY <1>5 DEF For
        <5>4. \A j \in Grants \ (victims \cup For(w, d) \cup {g}) :
                j \in For(w, e)' => j \in For(w, e)
          BY <1>5 DEF For
        <5>5. For(w, e)' \subseteq Grants
          BY DEF For
        <5> QED BY <5>1, <5>2, <5>3, <5>4, <5>5
      <4>2. IsFiniteSet(For(w, e)) /\ Cardinality(For(w, e)) <= 1
        BY <1>0, <1>2, Finite DEF GrantsReconcile
      <4>3. Cardinality(For(w, e)') <= Cardinality(For(w, e)) /\ IsFiniteSet(For(w, e)')
        BY <4>1, <4>2, FS_Subset
      <4>4. Cardinality(For(w, e)') \in Nat /\ Cardinality(For(w, e)) \in Nat
        BY <4>2, <4>3, FS_CardinalityType
      <4> QED BY <4>2, <4>3, <4>4
    <3> QED BY <3>1, <3>2
  <2> QED BY <1>7, <2>1 DEF GrantsReconcile
<1>9. \A x \in Registries \ {w} : GrantsReconcile(x)'
  <2>1. ASSUME NEW x \in Registries \ {w}
        PROVE  Kept(x)' = Kept(x) /\ \A e \in Destinations : For(x, e)' = For(x, e)
    BY <1>5 DEF Kept, For
  <2> QED BY <1>0, <1>5, <2>1 DEF RegistriesReconcile, GrantsReconcile
<1>10. \A x \in Registries : \A j \in Kept(x) : index[j].at = x /\ index[j].status # "absent"
  <2> SUFFICES ASSUME NEW x \in Registries, NEW j \in Kept(x)
               PROVE  index[j].at = x /\ index[j].status # "absent"
    OBVIOUS
  <2>1. index[j] = Entry(x, grant[x][j])
    BY <1>0 DEF IndexMirrorsGrants, IndexAgrees
  <2>2. grant[x][j].status # "absent"
    BY DEF Kept
  <2> QED BY <2>1, <2>2 DEF Entry
<1>11. \A x \in Registries \ {w} : \A j \in Kept(x) : j \notin victims \cup For(w, d) \cup {g}
  BY <1>2, <1>3, <1>4, <1>10
<1>12. ASSUME NEW x \in Registries, NEW j \in Kept(x)' PROVE index'[j] = Entry(x, grant'[x][j])
  <2>1. CASE x # w
    <3>1. j \in Kept(x) /\ grant'[x] = grant[x]
      BY <1>5, <2>1 DEF Kept
    <3>2. index'[j] = index[j]
      BY <1>5, <1>11, <2>1, <3>1 DEF Kept
    <3> QED BY <1>0, <3>1, <3>2 DEF IndexMirrorsGrants, IndexAgrees
  <2>2. CASE x = w
    <3>1. j = g \/ (j \in Kept(w) /\ j \notin victims)
      BY <1>6, <2>2
    <3>2. CASE j = g
      BY <1>5, <2>2, <3>2
    <3>3. CASE j \in For(w, d) \ victims
      BY <1>5, <2>2, <3>3
    <3>4. CASE j \in Grants \ (victims \cup For(w, d) \cup {g})
      <4>1. j \in Kept(w)
        BY <3>1, <3>4
      <4> QED BY <1>0, <1>5, <2>2, <3>4, <4>1 DEF IndexMirrorsGrants, IndexAgrees
    <3> QED BY <3>1, <3>2, <3>3, <3>4 DEF Kept
  <2> QED BY <2>1, <2>2
<1>13. ASSUME NEW j \in Grants, index'[j] # NoIndex
       PROVE  \E x \in Registries : x = index'[j].at /\ j \in Kept(x)'
  <2>1. CASE j = g
    <3>1. index'[j].at = w
      BY <1>5, <2>1 DEF Entry
    <3> QED BY <1>6, <2>1, <3>1
  <2>2. CASE j \in victims
    BY <1>5, <1>13, <2>2
  <2>3. CASE j \in For(w, d) \ victims
    <3>1. index'[j] = Entry(w, grant'[w][j])
      BY <1>5, <2>3
    <3>2. index'[j].at = w
      BY <3>1 DEF Entry
    <3> QED BY <1>4, <1>6, <2>3, <3>2
  <2>4. CASE j \in Grants \ (victims \cup For(w, d) \cup {g})
    <3>1. index'[j] = index[j]
      BY <1>5, <2>4
    <3>2. j \in Kept(index[j].at)
      BY <1>0, <1>13, <3>1 DEF IndexMirrorsGrants
    <3>3. index[j].at \in Registries
      BY <1>0, <1>13, <3>1 DEF TypeOK, IndexRecord
    <3>4. PICK x \in Registries : x = index[j].at /\ j \in Kept(x)
      BY <3>2, <3>3
    <3>5. j \in Kept(x)'
      <4>1. CASE x = w
        <5>1. j \in Kept(w)'
          BY <1>6, <2>4, <3>4, <4>1
        <5> QED BY <4>1, <5>1 DEF Kept
      <4>2. CASE x # w
        BY <1>5, <3>4, <4>2 DEF Kept
      <4> QED BY <4>1, <4>2
    <3> QED BY <3>1, <3>4, <3>5
  <2> QED BY <2>1, <2>2, <2>3, <2>4
<1>14. IndexMirrorsGrants'
  <2>1. \A j \in Grants : (index'[j] # NoIndex => j \in Kept(index[j].at)')
    BY <1>13 DEF Kept
  <2> QED BY <1>12, <2>1 DEF IndexMirrorsGrants, IndexAgrees
<1> QED BY <1>0, <1>1, <1>8, <1>9, <1>14, DestinationsStay DEF RegistriesReconcile

(* What MarkRevoked does. *)
LEMMA Revoking ==
    ASSUME TypeOK, IndexMirrorsGrants, NEW c \in Calls, MarkRevoked(c)
    PROVE  \E w \in Registries, g \in Grants :
           /\ w = Where(c) /\ g = call[c].id /\ g \in Kept(w)
           /\ grant[w][g].status = "active"
           /\ grant'[w][g].status = "revoked" /\ grant'[w][g].dest = grant[w][g].dest
           /\ grant'[w][g].made = grant[w][g].made
           /\ index'[g] = Entry(w, grant'[w][g])
           /\ \A j \in Grants \ {g} : grant'[w][j] = grant[w][j] /\ index'[j] = index[j]
           /\ \A x \in Registries \ {w} : grant'[x] = grant[x]
           /\ grant' \in [Registries -> [Grants -> GrantRecord]]
           /\ index' \in [Grants -> IndexRecord]
<1>1. call[c].pc = "tx" /\ call[c].op = "revoke"
  BY DEF MarkRevoked, InTx
<1>2. call[c].user \in Users /\ call[c].home \in Homes /\ call[c].id \in Grants
  BY <1>1, Calling
<1>3. Where(c) \in Registries
  BY <1>2 DEF Where, Registries
<1>4. PICK w \in Registries, g \in Grants : w = Where(c) /\ g = call[c].id
  BY <1>2, <1>3
<1>5. RevokeVerdict(c) = "room"
  BY DEF MarkRevoked
<1>6. g \in Kept(w) /\ IndexAgrees(w, g) /\ grant[w][g].status # "revoked"
  BY <1>4, <1>5 DEF RevokeVerdict
<1> DEFINE revoked(r) == [r EXCEPT !.status = "revoked"]
           row == [grant[w] EXCEPT ![g] = revoked(grant[w][g])]
<1>7. /\ grant' = [grant EXCEPT ![w] = row]
      /\ index' = [index EXCEPT ![g] = revoked(index[g])]
  BY <1>4 DEF MarkRevoked
<1>8. grant[w][g] \in GrantRecord /\ grant[w][g].status # "absent"
  BY <1>6 DEF TypeOK, Kept
<1>9. /\ grant[w][g].status = "active" /\ revoked(grant[w][g]) \in GrantRecord
      /\ revoked(grant[w][g]).status = "revoked"
      /\ revoked(grant[w][g]).dest = grant[w][g].dest
      /\ revoked(grant[w][g]).made = grant[w][g].made
      /\ grant[w][g].dest \in Destinations
  BY <1>6, <1>8 DEF GrantRecord, NoGrant
<1>10. revoked(index[g]) = [status |-> "revoked", at |-> w, dest |-> grant[w][g].dest]
  BY <1>6 DEF IndexAgrees, Entry
<1>11. revoked(index[g]) \in IndexRecord
  BY <1>9, <1>10 DEF IndexRecord
<1>12. revoked(index[g]) = Entry(w, revoked(grant[w][g]))
  BY <1>9, <1>10 DEF Entry
<1> HIDE DEF revoked
<1>13. /\ row \in [Grants -> GrantRecord] /\ row[g] = revoked(grant[w][g])
       /\ \A j \in Grants \ {g} : row[j] = grant[w][j]
  BY <1>9 DEF TypeOK
<1> HIDE DEF row
<1>14. /\ grant' \in [Registries -> [Grants -> GrantRecord]] /\ grant'[w] = row
       /\ \A x \in Registries \ {w} : grant'[x] = grant[x]
  BY <1>7, <1>13 DEF TypeOK
<1>15. /\ index' \in [Grants -> IndexRecord] /\ index'[g] = revoked(index[g])
       /\ \A j \in Grants \ {g} : index'[j] = index[j]
  BY <1>7, <1>11 DEF TypeOK
<1> QED BY <1>4, <1>6, <1>9, <1>12, <1>13, <1>14, <1>15

LEMMA RegistryRevoke ==
    ASSUME RegistryInv, NEW c \in Calls, MarkRevoked(c)
    PROVE  RegistriesReconcile'
<1>0. TypeOK /\ RegistriesReconcile /\ IndexMirrorsGrants
  BY DEF RegistryInv, RegistriesReconcile
<1>1. UNCHANGED <<challenge, destination, destinationCount, retained>>
  BY DEF MarkRevoked
<1>2. PICK w \in Registries, g \in Grants :
        /\ g \in Kept(w) /\ grant'[w][g].status = "revoked"
        /\ index'[g] = Entry(w, grant'[w][g])
        /\ \A j \in Grants \ {g} : grant'[w][j] = grant[w][j] /\ index'[j] = index[j]
        /\ \A x \in Registries \ {w} : grant'[x] = grant[x]
  BY <1>0, Revoking
<1>3. ASSUME NEW x \in Registries
      PROVE  /\ Kept(x)' = Kept(x)
             /\ \A e \in Destinations : For(x, e)' \subseteq For(x, e)
  <2>1. CASE x # w
    BY <1>2, <2>1 DEF Kept, For
  <2>2. CASE x = w
    <3>1. Kept(x)' = Kept(x)
      BY <1>2, <2>2 DEF Kept
    <3>2. \A e \in Destinations : For(x, e)' \subseteq For(x, e)
      BY <1>2, <2>2 DEF For
    <3> QED BY <3>1, <3>2
  <2> QED BY <2>1, <2>2
<1>4. ASSUME NEW x \in Registries, NEW e \in Destinations
      PROVE  Cardinality(For(x, e)') <= 1
  <2>1. IsFiniteSet(For(x, e)) /\ Cardinality(For(x, e)) <= 1
    BY <1>0, Finite DEF RegistriesReconcile, GrantsReconcile
  <2>2. Cardinality(For(x, e)') <= Cardinality(For(x, e)) /\ IsFiniteSet(For(x, e)')
    BY <1>3, <2>1, FS_Subset
  <2>3. Cardinality(For(x, e)') \in Nat /\ Cardinality(For(x, e)) \in Nat
    BY <2>1, <2>2, FS_CardinalityType
  <2> QED BY <2>1, <2>2, <2>3
<1>5. \A x \in Registries : GrantsReconcile(x)'
  BY <1>0, <1>1, <1>3, <1>4 DEF RegistriesReconcile, GrantsReconcile
<1>6. ASSUME NEW x \in Registries, NEW j \in Kept(x)' PROVE index'[j] = Entry(x, grant'[x][j])
  <2>1. j \in Kept(x) /\ index[j] = Entry(x, grant[x][j])
    BY <1>0, <1>3 DEF IndexMirrorsGrants, IndexAgrees
  <2>2. g \in Kept(w) /\ index[g] = Entry(w, grant[w][g])
    BY <1>0, <1>2 DEF IndexMirrorsGrants, IndexAgrees
  <2>3. j = g => x = w
    <3>1. index[j].at = x /\ index[g].at = w
      BY <2>1, <2>2 DEF Entry
    <3> QED BY <3>1
  <2>4. CASE j = g
    BY <1>2, <2>3, <2>4
  <2>5. CASE j # g
    <3>1. j \in Grants
      BY DEF Kept
    <3>2. grant'[x][j] = grant[x][j] /\ index'[j] = index[j]
      BY <1>2, <2>5, <3>1
    <3> QED BY <2>1, <3>2
  <2> QED BY <2>4, <2>5
<1>7. ASSUME NEW j \in Grants, index'[j] # NoIndex
      PROVE  \E x \in Registries : x = index'[j].at /\ j \in Kept(x)'
  <2>1. CASE j = g
    <3>1. index'[j].at = w
      BY <1>2, <2>1 DEF Entry
    <3> QED BY <1>2, <1>3, <2>1, <3>1
  <2>2. CASE j # g
    <3>1. index'[j] = index[j]
      BY <1>2, <2>2
    <3>2. j \in Kept(index[j].at)
      BY <1>0, <1>7, <3>1 DEF IndexMirrorsGrants
    <3>3. index[j].at \in Registries
      BY <1>0, <1>7, <3>1 DEF TypeOK, IndexRecord
    <3> QED BY <1>3, <3>1, <3>2, <3>3
  <2> QED BY <2>1, <2>2
<1>8. IndexMirrorsGrants'
  <2>1. \A j \in Grants : (index'[j] # NoIndex => j \in Kept(index[j].at)')
    BY <1>7 DEF Kept
  <2> QED BY <1>6, <2>1 DEF IndexMirrorsGrants, IndexAgrees
<1> QED BY <1>0, <1>1, <1>5, <1>8, DestinationsStay DEF RegistriesReconcile

LEMMA RegistryInit == Init => RegistryInv
<1> SUFFICES ASSUME Init PROVE RegistryInv
  OBVIOUS
<1>1. TypeOK
  BY TypeInit
<1>2. MaxActiveChallenges \in Nat /\ MaxRetainedGrants \in Nat
  BY PushAssumption
<1>3. \A u \in Users : Held(u) = {}
  BY DEF Init, Held, NoChallenge
<1>4. \A w \in Registries : Kept(w) = {} /\ \A d \in Destinations : For(w, d) = {}
  BY DEF Init, Kept, For, NoGrant
<1>5. Cardinality({}) = 0
  BY FS_EmptySet
<1>6. \A u \in Users : DestinationsReconcile(u)
  BY PushAssumption DEF Init, DestinationsReconcile
<1>7. \A u \in Users : Cardinality(Held(u)) <= MaxActiveChallenges
  BY <1>2, <1>3, <1>5
<1>8. \A w \in Registries : GrantsReconcile(w)
  <2> SUFFICES ASSUME NEW w \in Registries PROVE GrantsReconcile(w)
    OBVIOUS
  <2>1. retained[w] = 0
    BY DEF Init
  <2>2. Cardinality(Kept(w)) = 0 /\ \A d \in Destinations : Cardinality(For(w, d)) = 0
    BY <1>4, <1>5
  <2> QED BY <1>2, <2>1, <2>2 DEF GrantsReconcile
<1>9. IndexMirrorsGrants
  BY <1>4 DEF IndexMirrorsGrants, Init
<1> QED BY <1>1, <1>6, <1>7, <1>8, <1>9 DEF RegistryInv, RegistriesReconcile

(* The types after a step, from what it does to the calls. *)
LEMMA TypeMoves ==
    ASSUME TypeOK, call' \in [Calls -> CallRecord], Rests \/ \E c \in Calls : Moves(c)
    PROVE  /\ drawn' \in SUBSET (Challenges \cup Destinations \cup Grants)
           /\ sent' \in SUBSET Challenges /\ handed' \in SUBSET Grants
<1>0. /\ drawn \in SUBSET (Challenges \cup Destinations \cup Grants)
      /\ sent \in SUBSET Challenges /\ handed \in SUBSET Grants
  BY DEF TypeOK
<1>1. CASE Rests
  BY <1>0, <1>1 DEF Rests
<1>2. ASSUME NEW c \in Calls, Goes(c) \/ Names(c)
      PROVE  UNCHANGED <<drawn, sent, handed>>
  BY <1>2 DEF Goes, Names
<1>3. ASSUME NEW c \in Calls, Draws(c)
      PROVE  /\ drawn' \in SUBSET (Challenges \cup Destinations \cup Grants)
             /\ UNCHANGED <<sent, handed>>
  <2>1. PICK r \in CallRecord : r = call'[c]
    OBVIOUS
  <2>2. r.pc = "tx" /\ r.op \in Drawers /\ drawn' = drawn \cup {r.id}
    BY <1>3, <2>1 DEF Draws
  <2>3. r.id \in Challenges \cup Destinations \cup Grants
    BY <2>2, CallTypes DEF Drawers
  <2> QED BY <1>0, <1>3, <2>2, <2>3 DEF Draws
<1>4. ASSUME NEW c \in Calls, Ends(c)
      PROVE  UNCHANGED drawn /\ sent' \in SUBSET Challenges /\ handed' \in SUBSET Grants
  <2>1. Drawing(c, "challenge") => call[c].id \in Challenges
    BY Calling DEF Drawing
  <2>2. Drawing(c, "grant") => call[c].id \in Grants
    BY Calling DEF Drawing
  <2> QED BY <1>0, <1>4, <2>1, <2>2 DEF Ends
<1> QED BY <1>0, <1>1, <1>2, <1>3, <1>4 DEF Moves

LEMMA TypeStores ==
    ASSUME RegistryInv, NEW c \in Calls, Stores(c)
    PROVE  /\ challenge' \in [Users -> [Challenges -> ChallengeRecord]]
           /\ destination' \in [Users -> SUBSET Destinations]
           /\ destinationCount' \in [Users -> Nat]
           /\ grant' \in [Registries -> [Grants -> GrantRecord]]
           /\ retained' \in [Registries -> Nat]
           /\ index' \in [Grants -> IndexRecord]
           /\ gone' \in SUBSET Destinations
           /\ yield' \in [Challenges -> SUBSET Destinations]
<1>0. TypeOK /\ IndexMirrorsGrants
  BY DEF RegistryInv, RegistriesReconcile
<1>1. CASE StoreChallenge(c)
  <2>1. UNCHANGED <<destination, destinationCount, grant, retained, index, gone, yield>>
    BY <1>1 DEF StoreChallenge, history
  <2> QED BY <1>0, <1>1, <2>1, Challenging DEF TypeOK
<1>2. CASE StoreDestination(c)
  <2>1. UNCHANGED <<grant, retained, index, gone>>
    BY <1>2 DEF StoreDestination
  <2> QED BY <1>0, <1>2, <2>1, Storing DEF TypeOK
<1>3. CASE RemoveDestination(c)
  <2>1. gone' \in SUBSET Destinations
    BY <1>0, <1>3, Removing DEF TypeOK
  <2> QED BY <1>0, <1>3, <2>1, Removing DEF TypeOK
<1>4. CASE StoreGrant(c)
  <2>1. UNCHANGED <<challenge, destination, destinationCount, gone, yield>>
    BY <1>4 DEF StoreGrant
  <2>2. /\ grant' \in [Registries -> [Grants -> GrantRecord]]
        /\ retained' \in [Registries -> Nat] /\ index' \in [Grants -> IndexRecord]
    BY <1>0, <1>4, Granting, TypePutGrant
  <2> QED BY <1>0, <2>1, <2>2 DEF TypeOK
<1>5. CASE MarkRevoked(c)
  <2>1. UNCHANGED <<challenge, destination, destinationCount, retained, gone, yield>>
    BY <1>5 DEF MarkRevoked, history
  <2>2. /\ grant' \in [Registries -> [Grants -> GrantRecord]]
        /\ index' \in [Grants -> IndexRecord]
    BY <1>0, <1>5, Revoking
  <2> QED BY <1>0, <2>1, <2>2 DEF TypeOK
<1> QED BY <1>1, <1>2, <1>3, <1>4, <1>5 DEF Stores

LEMMA TypeNext ==
    ASSUME RegistryInv, [Next]_vars
    PROVE  TypeOK'
<1>0. TypeOK
  BY DEF RegistryInv
<1>1. CASE UNCHANGED vars
  BY <1>0, <1>1 DEF TypeOK, vars, documents, history
<1>2. CASE Next
  <2>1. /\ call' \in [Calls -> CallRecord] /\ lostAcks' \in 0..MaxLostAcks
        /\ clock' = clock \/ (clock' = clock + 1 /\ clock < MaxClock)
        /\ Rests \/ \E c \in Calls : Moves(c)
        /\ \/ UNCHANGED <<documents, gone, yield>>
           \/ \E c \in Calls : Stores(c)
    BY <1>0, <1>2, CallSteps
  <2>2. clock' \in 1..MaxClock
    BY <1>0, <2>1, PushAssumption DEF TypeOK
  <2>3. /\ drawn' \in SUBSET (Challenges \cup Destinations \cup Grants)
        /\ sent' \in SUBSET Challenges /\ handed' \in SUBSET Grants
    BY <1>0, <2>1, TypeMoves
  <2>4. CASE UNCHANGED <<documents, gone, yield>>
    BY <1>0, <2>1, <2>2, <2>3, <2>4 DEF TypeOK, documents
  <2>5. CASE \E c \in Calls : Stores(c)
    BY <2>1, <2>2, <2>3, <2>5, TypeStores DEF TypeOK
  <2> QED BY <2>1, <2>4, <2>5
<1> QED BY <1>1, <1>2

LEMMA RegistryNext == RegistryInv /\ [Next]_vars => RegistryInv'
<1> SUFFICES ASSUME RegistryInv, [Next]_vars PROVE RegistryInv'
  OBVIOUS
<1>0. TypeOK /\ RegistriesReconcile
  BY DEF RegistryInv
<1>1. TypeOK'
  BY TypeNext
<1>2. CASE UNCHANGED documents
  BY <1>0, <1>1, <1>2, RegistriesStay DEF RegistryInv
<1>3. CASE \E c \in Calls : Stores(c)
  <2>1. RegistriesReconcile'
    BY <1>3, RegistryChallenge, RegistryDestination, RegistryRemoval, RegistryGrant, RegistryRevoke
       DEF Stores
  <2> QED BY <1>1, <2>1 DEF RegistryInv
<1>4. UNCHANGED documents \/ \E c \in Calls : Stores(c)
  <2>1. CASE Next
    BY <1>0, <2>1, CallSteps
  <2> QED BY <2>1 DEF vars
<1> QED BY <1>2, <1>3, <1>4

(* Every variable keeps its type, the index included, whose entries are    *)
(* rewritten on the strength of the grants they mirror.                    *)
THEOREM TypeCorrect == Spec => []TypeOK
<1>1. RegistryInv => TypeOK
  BY DEF RegistryInv
<1> QED BY RegistryInit, RegistryNext, <1>1, PTL DEF Spec

(* The registries of a user and of a home stay readable: no sequence of    *)
(* calls, lost acknowledgements or compactions takes a counter, a ceiling, *)
(* or the index apart from the documents.                                  *)
THEOREM RegistriesAlwaysReconcile == Spec => []RegistriesReconcile
<1>1. RegistryInv => RegistriesReconcile
  BY DEF RegistryInv
<1> QED BY RegistryInit, RegistryNext, <1>1, PTL DEF Spec

-----------------------------------------------------------------------------
(* Identifiers. *)

(* Call c goes on as it was, but for its transaction. *)
Continues(c, op) ==
    /\ Drawing(c, op) /\ call'[c].id = call[c].id
    /\ op \in {"grant", "push"} => call'[c].at = call[c].at
    /\ op = "challenge" => call'[c].user = call[c].user
    /\ op = "complete" => call'[c].on = call[c].on /\ call'[c].proof = call[c].proof
    /\ op = "push" =>
         /\ call'[c].was = call[c].was
         /\ call'[c].pc = call[c].pc \/ PushVerdict(c) = "ok"

(* Where a call comes from, and what is sent or handed. *)
LEMMA Origins ==
    ASSUME TypeOK, Next
    PROVE  /\ drawn \subseteq drawn' /\ sent \subseteq sent' /\ handed \subseteq handed'
           /\ \A k \in sent' \ sent : \E e \in Calls :
                Drawing(e, "challenge") /\ call[e].id = k /\ Ends(e)
           /\ \A g \in handed' \ handed : \E e \in Calls :
                Drawing(e, "grant") /\ call[e].id = g /\ Ends(e)
           /\ \A c \in Calls, op \in Drawers : Drawing(c, op)' => Draws(c) \/ Continues(c, op)
           /\ \A c \in Calls : Drawing(c, "push")' => Names(c) \/ Continues(c, "push")
           /\ \A c \in Calls : call'[c].pc = "sent" => call'[c] = call[c] \/ Ends(c)
<1>0. Rests \/ \E e \in Calls : Moves(e)
  BY CallSteps
<1>1. CASE Rests
  BY <1>1 DEF Rests, Drawing, Continues
<1>2. ASSUME NEW e \in Calls, NEW c \in Calls \ {e}, NEW op, Alone(e), Drawing(c, op)'
      PROVE  Continues(c, op)
  <2>1. call'[c] = call[c]
    BY <1>2 DEF Alone
  <2> QED BY <1>2, <2>1 DEF Drawing, Continues
<1>3. ASSUME NEW e \in Calls, Goes(e)
      PROVE  /\ UNCHANGED <<drawn, sent, handed>> /\ Alone(e)
             /\ call'[e].pc = "send" /\ call'[e].op \notin {"complete", "grant"}
             /\ \A op \in {"challenge", "push"} : Drawing(e, op)' => Continues(e, op)
  <2>1. /\ call[e].pc = "tx" /\ call[e].op \in {"challenge", "push"}
        /\ call'[e] = [call[e] EXCEPT !.pc = "send"]
        /\ call[e].op = "push" => PushVerdict(e) = "ok"
        /\ UNCHANGED <<drawn, sent, handed>> /\ Alone(e)
    BY <1>3 DEF Goes
  <2>2. /\ call'[e].pc = "send" /\ call'[e].op = call[e].op /\ call'[e].id = call[e].id
        /\ call[e].op = "challenge" => call'[e].user = call[e].user
        /\ call[e].op = "push" => call'[e].was = call[e].was /\ call'[e].at = call[e].at
    BY <2>1, Sends
  <2>3. ASSUME NEW op \in {"challenge", "push"}, Drawing(e, op)' PROVE Continues(e, op)
    BY <2>1, <2>2, <2>3 DEF Drawing, Continues
  <2> QED BY <2>1, <2>2, <2>3
<1>4. CASE \E e \in Calls : Goes(e)
  <2>1. PICK e \in Calls : Goes(e)
    BY <1>4
  <2>2. ASSUME NEW c \in Calls, NEW op \in Drawers, Drawing(c, op)' PROVE Continues(c, op)
    BY <1>2, <1>3, <2>1, <2>2 DEF Drawing, Drawers
  <2>3. ASSUME NEW c \in Calls, Drawing(c, "push")' PROVE Continues(c, "push")
    BY <1>2, <1>3, <2>1, <2>3
  <2>4. \A c \in Calls : call'[c].pc = "sent" => call'[c] = call[c]
    BY <1>3, <2>1 DEF Alone
  <2> QED BY <1>3, <2>1, <2>2, <2>3, <2>4
<1>5. CASE \E e \in Calls : Draws(e)
  <2>1. PICK e \in Calls : Draws(e)
    BY <1>5
  <2>2. /\ Alone(e) /\ drawn \subseteq drawn' /\ UNCHANGED <<sent, handed>>
        /\ call'[e].pc = "tx" /\ call'[e].op # "push"
    BY <2>1 DEF Draws, Drawers
  <2>3. ASSUME NEW c \in Calls, Drawing(c, "push")' PROVE Continues(c, "push")
    BY <1>2, <2>2, <2>3 DEF Drawing
  <2>4. \A c \in Calls : call'[c].pc = "sent" => call'[c] = call[c]
    BY <2>2 DEF Alone
  <2> QED BY <1>2, <2>1, <2>2, <2>3, <2>4
<1>6. CASE \E e \in Calls : Names(e)
  <2>1. PICK e \in Calls : Names(e)
    BY <1>6
  <2>2. /\ Alone(e) /\ UNCHANGED <<drawn, sent, handed>>
        /\ call'[e].pc = "tx" /\ call'[e].op \notin Drawers
    BY <2>1 DEF Names, Drawers
  <2>3. ASSUME NEW c \in Calls, NEW op \in Drawers, Drawing(c, op)' PROVE Continues(c, op)
    BY <1>2, <2>2, <2>3 DEF Drawing
  <2>4. \A c \in Calls : call'[c].pc = "sent" => call'[c] = call[c]
    BY <2>2 DEF Alone
  <2> QED BY <1>2, <2>1, <2>2, <2>3, <2>4
<1>7. CASE \E e \in Calls : Ends(e)
  <2>1. PICK e \in Calls : Ends(e)
    BY <1>7
  <2>2. /\ Alone(e) /\ UNCHANGED drawn /\ call'[e].pc \notin {"tx", "send"}
        /\ \/ UNCHANGED sent
           \/ Drawing(e, "challenge") /\ sent' = sent \cup {call[e].id}
        /\ \/ UNCHANGED handed
           \/ Drawing(e, "grant") /\ handed' = handed \cup {call[e].id}
    BY <2>1 DEF Ends
  <2>3. ASSUME NEW c \in Calls, NEW op, Drawing(c, op)' PROVE Continues(c, op)
    BY <1>2, <2>2, <2>3 DEF Drawing
  <2>4. \A c \in Calls : c # e => call'[c] = call[c]
    BY <2>2 DEF Alone
  <2>5. \A c \in Calls, op \in Drawers : Drawing(c, op)' => Continues(c, op)
    BY <2>3
  <2>6. \A c \in Calls : Drawing(c, "push")' => Continues(c, "push")
    BY <2>3
  <2> QED BY <2>1, <2>2, <2>4, <2>5, <2>6
<1> QED BY <1>0, <1>1, <1>4, <1>5, <1>6, <1>7 DEF Moves

LEMMA IdsNext ==
    ASSUME TypeOK, IdsInv, Next
    PROVE  IdsInv'
<1>1. ASSUME NEW c \in Calls, NEW op \in Drawers, Drawing(c, op)' PROVE call'[c].id \in drawn'
  <2>1. CASE Draws(c)
    BY <2>1 DEF Draws
  <2>2. CASE Continues(c, op)
    BY <2>2, Origins DEF IdsInv, Continues
  <2> QED BY <1>1, <2>1, <2>2, Origins
<1>2. ASSUME NEW c \in Calls, NEW d \in Calls, NEW op \in Drawers,
             Drawing(c, op)', Drawing(d, op)', c # d, Draws(c)
      PROVE  call'[c].id # call'[d].id
  <2>1. call'[d] = call[d] /\ call'[c].id \notin drawn
    BY <1>2 DEF Draws, Alone
  <2>2. Drawing(d, op)
    BY <1>2, <2>1 DEF Drawing
  <2> QED BY <2>1, <2>2 DEF IdsInv
<1>3. ASSUME NEW c \in Calls, NEW d \in Calls, NEW op \in Drawers,
             Drawing(c, op)', Drawing(d, op)', c # d
      PROVE  call'[c].id # call'[d].id
  <2>1. CASE Continues(c, op) /\ Continues(d, op)
    BY <1>3, <2>1 DEF IdsInv, Continues
  <2> QED BY <1>2, <1>3, <2>1, Origins
<1> QED BY <1>1, <1>3 DEF IdsInv

-----------------------------------------------------------------------------
(* Completions. *)

LEMMA CompletionInit == Init => CompletionInv
<1> SUFFICES ASSUME Init PROVE CompletionInv
  OBVIOUS
<1>1. RegistryInv
  BY RegistryInit
<1>2. \A c \in Calls : \A op : ~Drawing(c, op)
  BY DEF Init, Drawing, Done
<1>3. IdsInv
  BY <1>2 DEF IdsInv
<1>4. \A u \in Users : Held(u) = {}
  BY DEF Init, Held, NoChallenge
<1>5. \A k \in Challenges : yield[k] = {} /\ Cardinality(yield[k]) = 0
  BY FS_EmptySet DEF Init
<1>6. \A k \in Challenges : Cardinality(yield[k]) <= 1
  BY <1>5
<1>7. sent = {} /\ gone = {}
  BY DEF Init
<1>8. ChallengesInv
  BY <1>2, <1>4, <1>5, <1>6, <1>7 DEF ChallengesInv
<1>9. DestinationsInv
  <2>1. \A u \in Users : \A d \in destination[u] : d \in drawn
    BY DEF Init
  <2>2. \A u, v \in Users : \A d \in destination[u] : d \in destination[v] => v = u
    BY PushAssumption DEF Init
  <2> QED BY <1>2, <1>7, <2>1, <2>2 DEF DestinationsInv
<1> QED BY <1>1, <1>3, <1>8, <1>9 DEF CompletionInv

(* A stored challenge is an old one, or one that a call has drawn. *)
LEMMA HeldAfter ==
    ASSUME TypeOK, Next
    PROVE  \A u \in Users : \A k \in Held(u)' :
             \/ k \in Held(u)
             \/ \E c \in Calls : /\ Drawing(c, "challenge") /\ call[c].id = k
                                 /\ call[c].user = u
<1>1. CASE UNCHANGED documents
  BY <1>1 DEF documents, Held
<1>2. ASSUME NEW c \in Calls, StoreChallenge(c), NEW u \in Users, NEW k \in Held(u)'
      PROVE  k \in Held(u) \/ (Drawing(c, "challenge") /\ call[c].id = k /\ call[c].user = u)
  <2>1. CASE u = call[c].user /\ k # call[c].id
    <3>1. k \in Challenges /\ challenge'[u][k].status # "absent"
      BY DEF Held
    <3>2. challenge'[u][k] = IF k \in Swept(u, call[c].at) THEN NoChallenge ELSE challenge[u][k]
      BY <1>2, <2>1, <3>1, Challenging
    <3> QED BY <3>1, <3>2 DEF Held, NoChallenge
  <2>2. CASE u # call[c].user
    <3>1. challenge'[u] = challenge[u]
      BY <1>2, <2>2, Challenging
    <3> QED BY <3>1 DEF Held
  <2>3. Drawing(c, "challenge")
    BY <1>2, Challenging
  <2> QED BY <2>1, <2>2, <2>3
<1>3. ASSUME NEW c \in Calls, StoreDestination(c), NEW u \in Users, NEW k \in Held(u)'
      PROVE  k \in Held(u)
  <2>1. k \in Challenges /\ challenge'[u][k].status # "absent"
    BY DEF Held
  <2>2. (k = call[c].on /\ u = call[c].user) \/ challenge'[u][k] = challenge[u][k]
    BY <1>3, <2>1, Storing
  <2> QED BY <1>3, <2>1, <2>2, Storing DEF Held
<1>4. ASSUME NEW c \in Calls, RemoveDestination(c) \/ StoreGrant(c) \/ MarkRevoked(c)
      PROVE  UNCHANGED challenge
  BY <1>4 DEF RemoveDestination, StoreGrant, MarkRevoked
<1>5. ASSUME UNCHANGED challenge PROVE \A u \in Users : Held(u)' = Held(u)
  BY <1>5 DEF Held
<1> QED BY <1>1, <1>2, <1>3, <1>4, <1>5, CallSteps DEF Stores

(* A stored destination is an old one, or the one that a completion with a *)
(* pending challenge has drawn; the deleted ones were stored.              *)
LEMMA StoredAfter ==
    ASSUME TypeOK, Next
    PROVE  /\ \A u \in Users : \A d \in destination'[u] :
                \/ d \in destination[u]
                \/ \E c \in Calls : /\ StoreDestination(c) /\ call[c].id = d
                                    /\ call[c].user = u /\ gone' = gone
           /\ gone \subseteq gone'
           /\ \A d \in gone' \ gone : \E u \in Users :
                /\ d \in destination[u] /\ d \notin destination'[u]
                /\ \A v \in Users : destination'[v] \subseteq destination[v]
           /\ \A k \in Challenges : yield[k] \subseteq yield'[k]
<1>1. CASE UNCHANGED <<destination, gone, yield>>
  BY <1>1
<1>2. ASSUME NEW c \in Calls, StoreDestination(c)
      PROVE  /\ gone' = gone
             /\ \A u \in Users : \A d \in destination'[u] :
                  d \in destination[u] \/ (call[c].id = d /\ call[c].user = u)
             /\ \A k \in Challenges : yield[k] \subseteq yield'[k]
  <2>1. gone' = gone
    BY <1>2 DEF StoreDestination
  <2> QED BY <1>2, <2>1, Storing
<1>3. ASSUME NEW c \in Calls, RemoveDestination(c)
      PROVE  /\ call[c].user \in Users /\ gone' = gone \cup {call[c].id} /\ yield' = yield
             /\ call[c].id \in destination[call[c].user]
             /\ call[c].id \notin destination'[call[c].user]
             /\ \A v \in Users : destination'[v] \subseteq destination[v]
  BY <1>3, Removing
<1>4. ASSUME NEW c \in Calls, StoreChallenge(c) \/ StoreGrant(c) \/ MarkRevoked(c)
      PROVE  UNCHANGED <<destination, gone, yield>>
  BY <1>4 DEF StoreChallenge, StoreGrant, MarkRevoked, history
<1>5. \/ UNCHANGED <<destination, gone, yield>>
      \/ \E c \in Calls : StoreDestination(c) \/ RemoveDestination(c)
  BY <1>4, CallSteps DEF Stores, documents
<1>6. CASE \E c \in Calls : StoreDestination(c)
  BY <1>2, <1>6
<1>7. CASE \E c \in Calls : RemoveDestination(c)
  <2>1. PICK c \in Calls : RemoveDestination(c)
    BY <1>7
  <2> QED BY <1>3, <2>1
<1> QED BY <1>1, <1>5, <1>6, <1>7

(* A challenge is pending that was so, or that a call stores now. *)
LEMMA PendingAfter ==
    ASSUME TypeOK, Next, NEW u \in Users, NEW k \in Challenges,
           challenge'[u][k].status = "pending"
    PROVE  \/ challenge[u][k].status = "pending"
           \/ \E c \in Calls : Drawing(c, "challenge") /\ call[c].id = k
<1>1. CASE UNCHANGED challenge
  BY <1>1
<1>2. ASSUME NEW c \in Calls, StoreChallenge(c), call[c].id # k
      PROVE  challenge[u][k].status = "pending"
  <2>1. CASE u = call[c].user
    <3>1. challenge'[u][k] = IF k \in Swept(u, call[c].at) THEN NoChallenge ELSE challenge[u][k]
      BY <1>2, <2>1, Challenging
    <3> QED BY <3>1 DEF NoChallenge
  <2>2. CASE u # call[c].user
    BY <1>2, <2>2, Challenging
  <2> QED BY <2>1, <2>2
<1>3. ASSUME NEW c \in Calls, StoreDestination(c) PROVE challenge[u][k].status = "pending"
  <2>1. CASE u = call[c].user /\ k = call[c].on
    BY <1>3, <2>1, Storing
  <2>2. CASE ~(u = call[c].user /\ k = call[c].on)
    <3>1. challenge'[u][k] = challenge[u][k]
      BY <1>3, <2>2, Storing
    <3> QED BY <3>1
  <2> QED BY <2>1, <2>2
<1>4. ASSUME NEW c \in Calls, RemoveDestination(c) \/ StoreGrant(c) \/ MarkRevoked(c)
      PROVE  UNCHANGED challenge
  BY <1>4 DEF RemoveDestination, StoreGrant, MarkRevoked
<1>5. \A c \in Calls : StoreChallenge(c) => Drawing(c, "challenge")
  BY Challenging
<1> QED BY <1>1, <1>2, <1>3, <1>4, <1>5, CallSteps DEF Stores, documents

LEMMA ChallengesNext ==
    ASSUME CompletionInv, Next
    PROVE  ChallengesInv'
<1>0. TypeOK /\ IdsInv /\ ChallengesInv
  BY DEF CompletionInv, RegistryInv
<1>1. sent' \subseteq drawn'
  BY <1>0, Origins DEF IdsInv, ChallengesInv, Drawers
<1>2. ASSUME NEW u \in Users, NEW k \in Held(u)'
      PROVE  /\ k \in drawn
             /\ \A v \in Users : k \in Held(v)' => v = u
             /\ \A c \in Calls : Drawing(c, "challenge")' /\ call'[c].id = k => call'[c].user = u
  <2>1. \A v \in Users : k \in Held(v)' =>
          \/ k \in Held(v)
          \/ \E c \in Calls : Drawing(c, "challenge") /\ call[c].id = k /\ call[c].user = v
    BY <1>0, HeldAfter
  <2>2. k \in drawn
    BY <1>0, <2>1 DEF ChallengesInv, IdsInv, Drawers
  <2>3. \A v \in Users : k \in Held(v)' => v = u
    BY <1>0, <2>1 DEF ChallengesInv, IdsInv, Drawers
  <2>4. ASSUME NEW c \in Calls, Drawing(c, "challenge")', call'[c].id = k
        PROVE  call'[c].user = u
    <3>1. Continues(c, "challenge")
      BY <1>0, <2>2, <2>4, Origins DEF Draws, Drawers
    <3>2. Drawing(c, "challenge") /\ call[c].id = k /\ call'[c].user = call[c].user
      BY <2>4, <3>1 DEF Continues
    <3> QED BY <1>0, <2>1, <3>2 DEF ChallengesInv, IdsInv, Drawers
  <2> QED BY <2>2, <2>3, <2>4
<1>3. ASSUME NEW k \in sent', NEW c \in Calls, Drawing(c, "challenge")'
      PROVE  call'[c].id # k
  <2>2. k \in sent \/ \E e \in Calls : Drawing(e, "challenge") /\ call[e].id = k /\ Ends(e)
    BY <1>0, Origins
  <2>3. k \in drawn
    BY <1>0, <2>2 DEF ChallengesInv, IdsInv, Drawers
  <2>4. CASE Draws(c)
    BY <2>3, <2>4 DEF Draws
  <2>5. CASE Continues(c, "challenge")
    <3>1. Drawing(c, "challenge") /\ call'[c].id = call[c].id
      BY <2>5 DEF Continues
    <3>2. ~Ends(c)
      BY <1>3 DEF Ends, Drawing
    <3> QED BY <1>0, <2>2, <3>1, <3>2 DEF ChallengesInv, IdsInv, Drawers
  <2> QED BY <1>0, <1>3, <2>4, <2>5, Origins DEF Drawers
<1>4. ASSUME NEW c \in Calls, Drawing(c, "complete")', call'[c].proof = "right"
      PROVE  call'[c].on \in sent'
  <2>1. CASE Draws(c)
    <3>1. call'[c].op = "complete"
      BY <1>4 DEF Drawing
    <3>2. call'[c].on \in sent
      BY <1>0, <1>4, <2>1, <3>1 DEF Draws, ChallengesInv
    <3> QED BY <1>0, <3>2, Origins
  <2>2. CASE Continues(c, "complete")
    BY <1>0, <1>4, <2>2, Origins DEF Continues, ChallengesInv
  <2> QED BY <1>0, <1>4, <2>1, <2>2, Origins DEF Drawers
<1>5. ASSUME NEW k \in Challenges
      PROVE  /\ Cardinality(yield'[k]) <= 1
             /\ yield'[k] # {} =>
                  k \in sent' /\ \A u \in Users : challenge'[u][k].status # "pending"
  <2>1. CASE yield'[k] = yield[k]
    <3>1. ASSUME yield[k] # {}, NEW u \in Users, challenge'[u][k].status = "pending"
          PROVE  FALSE
      <4>1. k \in sent /\ challenge[u][k].status # "pending"
        BY <1>0, <3>1 DEF ChallengesInv
      <4>2. PICK c \in Calls : Drawing(c, "challenge") /\ call[c].id = k
        BY <1>0, <3>1, <4>1, PendingAfter
      <4> QED BY <1>0, <4>1, <4>2 DEF ChallengesInv
    <3>2. sent \subseteq sent'
      BY <1>0, Origins
    <3>3. yield[k] # {} => k \in sent'
      BY <1>0, <3>2 DEF ChallengesInv
    <3>4. Cardinality(yield[k]) <= 1
      BY <1>0 DEF ChallengesInv
    <3> QED BY <2>1, <3>1, <3>3, <3>4
  <2>2. CASE \E c \in Calls : StoreDestination(c) /\ call[c].on = k
    <3>1. PICK c \in Calls : StoreDestination(c) /\ call[c].on = k
      BY <2>2
    <3>2. PICK u \in Users, d \in Destinations :
            /\ u = call[c].user /\ d = call[c].id
            /\ Drawing(c, "complete") /\ call[c].proof = "right"
            /\ k \in Held(u) /\ challenge[u][k].status = "pending"
            /\ challenge'[u][k].status = "consumed"
            /\ \A v \in Users \ {u} : challenge'[v] = challenge[v]
            /\ yield'[k] = yield[k] \cup {d}
      BY <1>0, <3>1, Storing
    <3>3. yield'[k] = {d}
      BY <1>0, <3>2 DEF ChallengesInv
    <3>4. Cardinality({d}) = 1
      BY FS_Singleton
    <3>5. k \in sent'
      BY <1>0, <3>1, <3>2, Origins DEF ChallengesInv
    <3>6. ASSUME NEW v \in Users \ {u} PROVE challenge'[v][k].status # "pending"
      <4>1. k \notin Held(v)
        BY <1>0, <3>2 DEF ChallengesInv
      <4>2. challenge[v][k].status = "absent"
        BY <4>1 DEF Held
      <4> QED BY <3>2, <4>2
    <3>7. Cardinality(yield'[k]) <= 1
      BY <3>3, <3>4
    <3>8. \A v \in Users : challenge'[v][k].status # "pending"
      BY <3>2, <3>6
    <3> QED BY <3>5, <3>7, <3>8
  <2>3. yield'[k] = yield[k] \/ \E c \in Calls : StoreDestination(c) /\ call[c].on = k
    <3>1. \A c \in Calls : StoreDestination(c) /\ call[c].on # k => yield'[k] = yield[k]
      BY <1>0, Storing
    <3>2. ASSUME NEW c \in Calls, Stores(c), ~StoreDestination(c) PROVE UNCHANGED yield
      BY <3>2 DEF Stores, StoreChallenge, RemoveDestination, StoreGrant, MarkRevoked, history
    <3> QED BY <1>0, <3>1, <3>2, CallSteps
  <2> QED BY <2>1, <2>2, <2>3
<1>6. \A u \in Users : \A k \in Held(u)' : k \in drawn'
  BY <1>0, <1>2, Origins
<1> QED BY <1>1, <1>2, <1>3, <1>4, <1>5, <1>6 DEF ChallengesInv

LEMMA DestinationsNext ==
    ASSUME CompletionInv, Next
    PROVE  DestinationsInv'
<1>0. TypeOK /\ IdsInv /\ ChallengesInv /\ DestinationsInv
  BY DEF CompletionInv, RegistryInv
<1>1. ASSUME NEW c \in Calls, StoreDestination(c)
      PROVE  /\ Drawing(c, "complete") /\ call[c].id \in drawn
             /\ yield[call[c].on] = {} /\ call[c].id \in yield'[call[c].on]
             /\ \A u \in Users : call[c].id \notin destination[u] \cup gone
  <2>1. /\ call[c].user \in Users /\ call[c].on \in Challenges /\ Drawing(c, "complete")
        /\ challenge[call[c].user][call[c].on].status = "pending"
        /\ call[c].id \in yield'[call[c].on]
    BY <1>0, <1>1, Storing
  <2>2. yield[call[c].on] = {}
    BY <1>0, <2>1 DEF ChallengesInv
  <2> QED BY <1>0, <2>1, <2>2 DEF DestinationsInv, IdsInv, Drawers
<1>2. ASSUME NEW u \in Users, NEW d \in destination'[u]
      PROVE  /\ d \in drawn /\ d \notin gone'
             /\ \A v \in Users : d \in destination'[v] => v = u
  <2>1. CASE d \in destination[u]
    <3>1. d \in drawn /\ d \notin gone /\ \A v \in Users : d \in destination[v] => v = u
      BY <1>0, <2>1 DEF DestinationsInv
    <3>2. ASSUME NEW v \in Users, d \in destination'[v] PROVE v = u
      <4>1. d \in destination[v] \/ \E c \in Calls : StoreDestination(c) /\ call[c].id = d
        BY <1>0, <3>2, StoredAfter
      <4> QED BY <1>1, <2>1, <3>1, <4>1
    <3>3. d \notin gone'
      BY <1>0, <1>2, <3>1, StoredAfter
    <3> QED BY <3>1, <3>2, <3>3
  <2>2. CASE d \notin destination[u]
    <3>1. PICK c \in Calls : /\ StoreDestination(c) /\ call[c].id = d
                             /\ call[c].user = u /\ gone' = gone
      BY <1>0, <2>2, StoredAfter
    <3>2. d \in drawn /\ d \notin gone'
      BY <1>1, <3>1
    <3>3. \A v \in Users \ {u} : destination'[v] = destination[v]
      BY <1>0, <3>1, Storing
    <3> QED BY <1>1, <3>1, <3>2, <3>3
  <2> QED BY <2>1, <2>2
<1>3. gone' \subseteq drawn
  BY <1>0, StoredAfter DEF DestinationsInv
<1>4. ASSUME NEW c \in Calls, Drawing(c, "complete")', NEW u \in Users,
             call'[c].id \in destination'[u] \cup gone'
      PROVE  yield'[call'[c].on] # {}
  <2>1. call'[c].id \in drawn
    BY <1>2, <1>3, <1>4
  <2>2. Continues(c, "complete")
    BY <1>0, <1>4, <2>1, Origins DEF Draws, Drawers
  <2>3. /\ Drawing(c, "complete") /\ call'[c].id = call[c].id /\ call'[c].on = call[c].on
        /\ call[c].on \in Challenges
    BY <1>0, <2>2, Calling DEF Continues, Drawing
  <2>4. \/ \E v \in Users : call[c].id \in destination[v] \cup gone
        \/ \E e \in Calls : StoreDestination(e) /\ call[e].id = call[c].id
    BY <1>0, <1>4, <2>3, StoredAfter
  <2>5. CASE \E v \in Users : call[c].id \in destination[v] \cup gone
    BY <1>0, <2>3, <2>5, StoredAfter DEF DestinationsInv
  <2>6. CASE \E e \in Calls : StoreDestination(e) /\ call[e].id = call[c].id
    <3>1. PICK e \in Calls : StoreDestination(e) /\ call[e].id = call[c].id
      BY <2>6
    <3>2. e = c
      BY <1>0, <1>1, <2>3, <3>1 DEF IdsInv, Drawers
    <3> QED BY <1>1, <2>3, <3>1, <3>2
  <2> QED BY <2>4, <2>5, <2>6
<1>5. drawn \subseteq drawn'
  BY <1>0, Origins
<1> QED BY <1>2, <1>3, <1>4, <1>5 DEF DestinationsInv

LEMMA CompletionNext == CompletionInv /\ [Next]_vars => CompletionInv'
<1> SUFFICES ASSUME CompletionInv, [Next]_vars PROVE CompletionInv'
  OBVIOUS
<1>1. RegistryInv /\ RegistryInv'
  BY RegistryNext DEF CompletionInv
<1>2. CASE Next
  BY <1>1, <1>2, IdsNext, ChallengesNext, DestinationsNext DEF CompletionInv, RegistryInv
<1>3. CASE UNCHANGED vars
  <2>1. UNCHANGED <<call, drawn, sent, gone, yield, challenge, destination>>
    BY <1>3 DEF vars, documents, history
  <2>2. IdsInv'
    BY <2>1 DEF CompletionInv, IdsInv, Drawing
  <2>3. ChallengesInv'
    BY <2>1 DEF CompletionInv, ChallengesInv, Drawing, Held
  <2>4. DestinationsInv'
    BY <2>1 DEF CompletionInv, DestinationsInv, Drawing
  <2> QED BY <1>1, <2>2, <2>3, <2>4 DEF CompletionInv
<1> QED BY <1>2, <1>3

(* A challenge proves one destination however often its completion is      *)
(* sent, raced or run again, and a destination that was deleted stays so.  *)
THEOREM CompletionsOnce == Spec => []CompletionsTakeEffectOnce
<1>1. CompletionInv => CompletionsTakeEffectOnce
  <2>1. ChallengesInv => \A k \in Challenges : Cardinality(yield[k]) <= 1
    BY DEF ChallengesInv
  <2>2. DestinationsInv => \A u \in Users : destination[u] \cap gone = {}
    BY DEF DestinationsInv
  <2> QED BY <2>1, <2>2 DEF CompletionInv, CompletionsTakeEffectOnce
<1> QED BY CompletionInit, CompletionNext, <1>1, PTL DEF Spec

-----------------------------------------------------------------------------
(* Silence of the grants that ended. *)

(* What a step may do to a grant. *)
LEMMA GrantAfter ==
    ASSUME RegistryInv, Next, NEW w \in Registries, NEW g \in Grants
    PROVE  \/ grant'[w][g] = grant[w][g]
           \/ grant'[w][g].status = "absent"
           \/ /\ grant'[w][g].status = "revoked" /\ g \in Kept(w)
              /\ grant'[w][g].dest = grant[w][g].dest
           \/ \E c \in Calls : /\ StoreGrant(c) /\ Drawing(c, "grant") /\ call[c].id = g
                               /\ grant'[w][g].dest \in destination[w[1]]
<1>0. TypeOK /\ IndexMirrorsGrants
  BY DEF RegistryInv, RegistriesReconcile
<1>1. CASE UNCHANGED grant
  BY <1>1
<1>2. CASE \E c \in Calls : MarkRevoked(c)
  <2>1. PICK c \in Calls : MarkRevoked(c)
    BY <1>2
  <2>2. PICK x \in Registries, j \in Grants :
          /\ j \in Kept(x)
          /\ grant'[x][j].status = "revoked" /\ grant'[x][j].dest = grant[x][j].dest
          /\ \A i \in Grants \ {j} : grant'[x][i] = grant[x][i]
          /\ \A y \in Registries \ {x} : grant'[y] = grant[y]
    BY <1>0, <2>1, Revoking
  <2>3. CASE w = x /\ g = j
    BY <2>2, <2>3
  <2>4. CASE ~(w = x /\ g = j)
    <3>1. grant'[w][g] = grant[w][g]
      BY <2>2, <2>4
    <3> QED BY <3>1
  <2> QED BY <2>3, <2>4
<1>3. CASE \E c \in Calls : StoreGrant(c)
  <2>1. PICK c \in Calls : StoreGrant(c)
    BY <1>3
  <2>2. PICK x \in Registries, j \in Grants, d \in Destinations, made \in Nat,
             victims \in SUBSET Grants :
          /\ j = call[c].id /\ Drawing(c, "grant")
          /\ d \in destination[x[1]] /\ PutGrant(x, j, d, made, victims)
    BY <1>0, <2>1, Granting
  <2>3. /\ \A y \in Registries \ {x} : grant'[y] = grant[y]
        /\ grant'[x][j] = Active(d, made)
        /\ \A i \in victims \ {j} : grant'[x][i] = NoGrant
        /\ \A i \in For(x, d) \ (victims \cup {j}) :
             grant'[x][i].status = "revoked" /\ grant'[x][i].dest = d
        /\ \A i \in Grants \ (victims \cup For(x, d) \cup {j}) : grant'[x][i] = grant[x][i]
    BY <1>0, <2>2, Putting
  <2>4. CASE w # x
    BY <2>3, <2>4
  <2>5. CASE w = x /\ g = j
    <3>1. grant'[w][g].dest = d
      BY <2>3, <2>5 DEF Active
    <3>2. grant'[w][g].dest \in destination[w[1]]
      BY <2>2, <2>5, <3>1
    <3> QED BY <2>1, <2>2, <2>5, <3>2
  <2>6. CASE w = x /\ g \in victims \ {j}
    <3>1. grant'[w][g].status = "absent"
      BY <2>3, <2>6 DEF NoGrant
    <3> QED BY <3>1
  <2>7. CASE w = x /\ g \in For(x, d) \ (victims \cup {j})
    <3>1. g \in Kept(w) /\ grant[w][g].dest = d
      BY <2>7 DEF For, Kept
    <3> QED BY <2>3, <2>7, <3>1
  <2>8. CASE w = x /\ g \in Grants \ (victims \cup For(x, d) \cup {j})
    BY <2>3, <2>8
  <2> QED BY <2>4, <2>5, <2>6, <2>7, <2>8
<1>4. UNCHANGED grant \/ \E c \in Calls : StoreGrant(c) \/ MarkRevoked(c)
  <2>1. ASSUME NEW c \in Calls, StoreChallenge(c) \/ StoreDestination(c) \/ RemoveDestination(c)
        PROVE  UNCHANGED grant
    BY <2>1 DEF StoreChallenge, StoreDestination, RemoveDestination
  <2> QED BY <1>0, <2>1, CallSteps DEF Stores, documents
<1> QED BY <1>1, <1>2, <1>3, <1>4

(* A push that is let through finds an authority by its own clock. *)
LEMMA LetThrough ==
    ASSUME TypeOK, NEW c \in Calls, Drawing(c, "push"), PushVerdict(c) = "ok"
    PROVE  \E w \in Registries : ~Ended(c, w, call[c].id)
<1>1. call[c].id \in Grants /\ call[c].at \in Nat
  BY Calling DEF Drawing
<1>2. PICK g \in Grants : g = call[c].id
  BY <1>1
<1>3. index[g].status = "active" /\ index[g] \in IndexRecord
  BY <1>2 DEF PushVerdict, TypeOK
<1>4. index[g].at \in Registries
  BY <1>3 DEF IndexRecord, NoIndex
<1>5. PICK w \in Registries : w = index[g].at
  BY <1>4
<1>6. /\ g \in Kept(w) /\ grant[w][g].status = "active"
      /\ ~(grant[w][g].made + GrantLifetime <= call[c].at)
      /\ grant[w][g].dest \in destination[w[1]]
  BY <1>2, <1>5 DEF PushVerdict
<1>7. grant[w][g].made \in Nat /\ GrantLifetime \in Nat
  <2>1. grant[w][g] \in GrantRecord
    BY DEF TypeOK
  <2> QED BY <2>1, PushAssumption DEF GrantRecord, NoGrant
<1>8. call[c].at < grant[w][g].made + GrantLifetime
  BY <1>1, <1>6, <1>7
<1> QED BY <1>2, <1>6, <1>8 DEF Ended

LEMMA SilenceInit == Init => SilenceInv
<1> SUFFICES ASSUME Init PROVE SilenceInv
  OBVIOUS
<1>1. \A c \in Calls : (\A op : ~Drawing(c, op)) /\ call[c].pc # "sent"
  BY DEF Init, Drawing, Done
<1>2. handed = {} /\ \A w \in Registries : Kept(w) = {}
  BY DEF Init, Kept, NoGrant
<1> QED BY <1>1, <1>2 DEF SilenceInv

LEMMA SilenceNext ==
    ASSUME CompletionInv, CompletionInv', SilenceInv, Next
    PROVE  SilenceInv'
<1>0. TypeOK /\ RegistryInv /\ IdsInv /\ DestinationsInv'
  BY DEF CompletionInv, RegistryInv
<1>1. ASSUME NEW g \in handed'
      PROVE  g \in drawn /\ \A c \in Calls : Drawing(c, "grant")' => call'[c].id # g
  <2>1. g \in handed \/ \E e \in Calls : Drawing(e, "grant") /\ call[e].id = g /\ Ends(e)
    BY <1>0, Origins
  <2>2. g \in drawn
    BY <1>0, <2>1 DEF SilenceInv, IdsInv, Drawers
  <2>3. ASSUME NEW c \in Calls, Drawing(c, "grant")' PROVE call'[c].id # g
    <3>1. CASE Draws(c)
      BY <2>2, <3>1 DEF Draws
    <3>2. CASE Continues(c, "grant")
      <4>1. Drawing(c, "grant") /\ call'[c].id = call[c].id
        BY <3>2 DEF Continues
      <4>2. ~Ends(c)
        BY <2>3 DEF Ends, Drawing
      <4> QED BY <1>0, <2>1, <4>1, <4>2 DEF SilenceInv, IdsInv, Drawers
    <3> QED BY <1>0, <2>3, <3>1, <3>2, Origins DEF Drawers
  <2> QED BY <2>2, <2>3
<1>2. \A u \in Users : destination[u] \cup gone \subseteq destination'[u] \cup gone'
  <2>1. CASE UNCHANGED <<destination, gone>>
    BY <2>1
  <2>2. ASSUME NEW c \in Calls, StoreDestination(c), NEW u \in Users
        PROVE  destination[u] \subseteq destination'[u]
    BY <1>0, <2>2, Storing
  <2>3. ASSUME NEW c \in Calls, RemoveDestination(c), NEW u \in Users
        PROVE  destination[u] \subseteq destination'[u] \cup gone'
    BY <1>0, <2>3, Removing
  <2>4. ASSUME NEW c \in Calls, StoreChallenge(c) \/ StoreGrant(c) \/ MarkRevoked(c)
        PROVE  UNCHANGED <<destination, gone>>
    BY <2>4 DEF StoreChallenge, StoreGrant, MarkRevoked, history
  <2>5. gone \subseteq gone'
    BY <1>0, StoredAfter
  <2> QED BY <1>0, <2>1, <2>2, <2>3, <2>4, <2>5, CallSteps DEF Stores, documents
<1>3. ASSUME NEW w \in Registries, NEW g \in Kept(w)'
      PROVE  grant'[w][g].dest \in destination'[w[1]] \cup gone'
  <2>1. g \in Grants /\ grant'[w][g].status # "absent" /\ w[1] \in Users
    BY DEF Kept, Registries
  <2>2. grant'[w][g].dest \in destination[w[1]] \cup gone
    <3>1. CASE g \in Kept(w) /\ grant'[w][g].dest = grant[w][g].dest
      BY <3>1 DEF SilenceInv
    <3>2. CASE grant'[w][g] = grant[w][g]
      BY <2>1, <3>1, <3>2 DEF Kept
    <3> QED BY <1>0, <2>1, <3>1, <3>2, GrantAfter
  <2> QED BY <1>2, <2>1, <2>2
<1>4. ASSUME NEW c \in Calls, Drawing(c, "push")', call'[c].was = "dead"
      PROVE  /\ call'[c].pc = "tx" /\ call'[c].id \in handed'
             /\ \A w \in Registries : Ended(c, w, call[c].id)'
  <2>1. CASE Names(c)
    <3>1. /\ call'[c].pc = "tx" /\ call'[c].op = "push" /\ call'[c].id \in handed
          /\ call'[c].at = clock
          /\ \A w \in Registries : ~Usable(w, call'[c].id)
          /\ UNCHANGED <<handed, grant, destination>>
      BY <1>4, <2>1 DEF Names, Drawing, documents
    <3> QED BY <3>1 DEF Usable, Ended
  <2>2. CASE Continues(c, "push")
    <3>1. /\ Drawing(c, "push") /\ call'[c].id = call[c].id /\ call'[c].at = call[c].at
          /\ call[c].was = "dead"
          /\ call'[c].pc = call[c].pc \/ PushVerdict(c) = "ok"
      BY <1>4, <2>2 DEF Continues
    <3>2. PICK g \in Grants : g = call[c].id
      BY <1>0, <3>1, Calling DEF Drawing
    <3>3. call[c].pc = "tx" /\ g \in handed /\ \A w \in Registries : Ended(c, w, g)
      BY <3>1, <3>2 DEF SilenceInv
    <3>4. PushVerdict(c) # "ok"
      BY <1>0, <3>1, <3>2, <3>3, LetThrough
    <3>5. ASSUME NEW w \in Registries PROVE Ended(c, w, g)'
      <4>0. w[1] \in Users
        BY DEF Registries
      <4>1. CASE grant'[w][g].status # "active"
        BY <4>1 DEF Ended
      <4>2. CASE grant'[w][g] = grant[w][g] /\ grant[w][g].status = "active"
        <5>1. CASE ~(call[c].at < grant[w][g].made + GrantLifetime)
          BY <3>1, <4>2, <5>1 DEF Ended
        <5>2. CASE grant[w][g].dest \notin destination[w[1]]
          <6>1. grant[w][g].dest \in gone
            BY <4>2, <5>2 DEF SilenceInv, Kept
          <6>2. grant[w][g].dest \in gone'
            BY <1>0, <6>1, StoredAfter
          <6>3. grant[w][g].dest \notin destination'[w[1]]
            BY <1>0, <4>0, <6>2 DEF DestinationsInv
          <6> QED BY <4>2, <6>3 DEF Ended
        <5> QED BY <3>3, <4>2, <5>1, <5>2 DEF Ended
      <4>3. \A e \in Calls : Drawing(e, "grant") => call[e].id # g
        BY <3>3 DEF SilenceInv
      <4> QED BY <1>0, <4>1, <4>2, <4>3, GrantAfter
    <3>6. handed \subseteq handed'
      BY <1>0, Origins
    <3>7. \A w \in Registries : Ended(c, w, call[c].id)'
      BY <3>1, <3>2, <3>5 DEF Ended
    <3> QED BY <3>1, <3>2, <3>3, <3>4, <3>6, <3>7
  <2> QED BY <1>0, <1>4, <2>1, <2>2, Origins
<1>5. ASSUME NEW c \in Calls, call'[c].pc = "sent" PROVE call'[c].was = "live"
  <2>1. CASE call'[c] = call[c]
    BY <1>5, <2>1 DEF SilenceInv
  <2>2. CASE Ends(c)
    <3>1. /\ call[c].pc = "send" /\ call[c].op = "push" /\ call'[c].was = call[c].was
      BY <1>5, <2>2 DEF Ends
    <3>2. call[c].was \in {"live", "dead"}
      BY <1>0, <3>1, Calling
    <3> QED BY <3>1, <3>2 DEF SilenceInv, Drawing
  <2> QED BY <1>0, <1>5, <2>1, <2>2, Origins
<1>6. handed' \subseteq drawn'
  BY <1>0, <1>1, Origins
<1> QED BY <1>1, <1>3, <1>4, <1>5, <1>6 DEF SilenceInv

(* A push that was requested after its grant ended is not sent. *)
THEOREM DeadAlwaysSilent == Spec => []DeadGrantsStaySilent
<1>1. CompletionInv /\ CompletionInv' /\ SilenceInv /\ [Next]_vars => SilenceInv'
  <2> SUFFICES ASSUME CompletionInv, CompletionInv', SilenceInv, [Next]_vars
               PROVE  SilenceInv'
    OBVIOUS
  <2>1. CASE UNCHANGED vars
    <3>1. UNCHANGED <<call, drawn, handed, gone, grant, destination>>
      BY <2>1 DEF vars, documents, history
    <3> QED BY <3>1 DEF SilenceInv, Drawing, Kept, Ended
  <2> QED BY <2>1, SilenceNext
<1>2. SilenceInv => DeadGrantsStaySilent
  BY DEF SilenceInv, DeadGrantsStaySilent
<1> QED BY CompletionInit, CompletionNext, SilenceInit, <1>1, <1>2, PTL DEF Spec

-----------------------------------------------------------------------------
(* Compaction. *)

LEMMA ClocksNext == TypeOK /\ ClocksInv /\ [Next]_vars => ClocksInv'
<1> SUFFICES ASSUME TypeOK, ClocksInv, [Next]_vars PROVE ClocksInv'
  OBVIOUS
<1>1. CASE UNCHANGED vars
  BY <1>1 DEF vars, ClocksInv, Drawing
<1>2. CASE Next
  <2> SUFFICES ASSUME NEW c \in Calls, Drawing(c, "grant")' PROVE call'[c].at <= clock'
    BY DEF ClocksInv
  <2>1. clock \in Nat /\ (clock' = clock \/ clock' = clock + 1)
    BY <1>2, CallSteps DEF TypeOK
  <2>2. CASE Draws(c)
    BY <2>1, <2>2 DEF Draws
  <2>3. CASE Continues(c, "grant")
    <3>1. call'[c].at = call[c].at /\ call[c].at \in Nat /\ call[c].at <= clock
      BY <2>3, Calling DEF Continues, ClocksInv, Drawing
    <3> QED BY <2>1, <3>1
  <2> QED BY <1>2, <2>2, <2>3, Origins DEF Drawers
<1> QED BY <1>1, <1>2

(* A grant that can be used is not the one a transaction compacts, for the *)
(* clock the transaction judges it by is not ahead.                        *)
LEMMA UsableStays ==
    ASSUME RegistryInv, ClocksInv, Next, NEW w \in Registries, NEW g \in Grants, Usable(w, g)
    PROVE  grant'[w][g].status # "absent"
<1>0. TypeOK /\ IndexMirrorsGrants
  BY DEF RegistryInv, RegistriesReconcile
<1>1. g \in Kept(w) /\ grant[w][g].status = "active" /\ grant[w][g].made \in Nat
  <2>1. grant[w][g] \in GrantRecord
    BY <1>0 DEF TypeOK
  <2> QED BY <2>1 DEF GrantRecord, NoGrant, Usable, Kept
<1>2. CASE UNCHANGED grant
  BY <1>1, <1>2
<1>3. CASE \E c \in Calls : MarkRevoked(c)
  <2>1. PICK c \in Calls : MarkRevoked(c)
    BY <1>3
  <2>2. PICK x \in Registries, j \in Grants :
          /\ grant'[x][j].status = "revoked"
          /\ \A i \in Grants \ {j} : grant'[x][i] = grant[x][i]
          /\ \A y \in Registries \ {x} : grant'[y] = grant[y]
    BY <1>0, <2>1, Revoking
  <2>3. grant'[w][g] = grant[w][g] \/ grant'[w][g].status = "revoked"
    BY <2>2
  <2> QED BY <1>1, <2>3
<1>4. CASE \E c \in Calls : StoreGrant(c)
  <2>1. PICK c \in Calls : StoreGrant(c)
    BY <1>4
  <2>2. PICK x \in Registries, j \in Grants, d \in Destinations, made \in Nat,
             victims \in SUBSET Grants :
          /\ j = call[c].id /\ made = call[c].at /\ Drawing(c, "grant")
          /\ PutGrant(x, j, d, made, victims)
          /\ victims = {} \/ \E v \in Compactable(x, made) : victims = {v}
    BY <1>0, <2>1, Granting
  <2>3. /\ \A y \in Registries \ {x} : grant'[y] = grant[y]
        /\ grant'[x][j] = Active(d, made)
        /\ \A i \in For(x, d) \ (victims \cup {j}) : grant'[x][i].status = "revoked"
        /\ \A i \in Grants \ (victims \cup For(x, d) \cup {j}) : grant'[x][i] = grant[x][i]
    BY <1>0, <2>2, Putting
  <2>4. w # x \/ g \notin victims
    <3>1. clock < grant[w][g].made + GrantLifetime /\ grant[w][g].dest \in destination[w[1]]
      BY DEF Usable
    <3>2. made <= clock /\ clock \in Nat /\ GrantLifetime \in Nat
      BY <1>0, <2>2, PushAssumption DEF ClocksInv, TypeOK
    <3>3. ~(grant[w][g].made + GrantLifetime <= made)
      BY <1>1, <3>1, <3>2
    <3>4. g \notin Compactable(w, made)
      BY <1>1, <3>1, <3>3 DEF Compactable
    <3> QED BY <2>2, <3>4
  <2>5. \/ grant'[w][g] = grant[w][g]
        \/ grant'[w][g] = Active(d, made)
        \/ grant'[w][g].status = "revoked"
    BY <2>3, <2>4
  <2> QED BY <1>1, <2>5 DEF Active
<1>5. UNCHANGED grant \/ \E c \in Calls : StoreGrant(c) \/ MarkRevoked(c)
  <2>1. ASSUME NEW c \in Calls, StoreChallenge(c) \/ StoreDestination(c) \/ RemoveDestination(c)
        PROVE  UNCHANGED grant
    BY <2>1 DEF StoreChallenge, StoreDestination, RemoveDestination
  <2> QED BY <1>0, <2>1, CallSteps DEF Stores, documents
<1> QED BY <1>2, <1>3, <1>4, <1>5

(* No step deletes a grant that can be used when it is taken. *)
THEOREM UsableSpared == Spec => CompactionSparesUsable
<1>1. Init => ClocksInv
  BY DEF Init, ClocksInv, Drawing, Done
<1>2. RegistryInv => TypeOK
  BY DEF RegistryInv
<1>3. RegistryInv /\ ClocksInv /\ [Next]_vars =>
        [\A w \in Registries : \A g \in Grants :
           Usable(w, g) => grant'[w][g].status # "absent"]_vars
  BY UsableStays
<1> QED BY RegistryInit, RegistryNext, ClocksNext, <1>1, <1>2, <1>3, PTL
        DEF Spec, CompactionSparesUsable
=============================================================================
