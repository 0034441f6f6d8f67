------------------------------ MODULE HomeKeys ------------------------------
(***************************************************************************)
(* The Home Key registry of the control plane (control-plane/src/store.ts):*)
(* keys are created by the owner or by redeeming a pairing code, revoked,  *)
(* compacted when the registry is full, and exchanged for access tokens.   *)
(*                                                                         *)
(* Each API call is a process in Calls.  Its Firestore transaction is one  *)
(* atomic step, but what the code captures BEFORE the transaction (the     *)
(* clock, the freshly generated key, issuedAt) is captured when the call   *)
(* begins, and everything after the commit (the acknowledgement, the       *)
(* admission callback, the signature) is a later step.  When a commit lands*)
(* and its acknowledgement is lost the SDK runs the transaction closure    *)
(* again: the call stays in "tx" although its writes are in the database.   *)
(*                                                                         *)
(* A definition whose name begins with Wrong is a deliberately faulty      *)
(* variant of the one after it, for checking that a property can fail.     *)
(***************************************************************************)
EXTENDS Integers, FiniteSets

CONSTANTS
    Users,          \* Firebase principals
    Homes,          \* homes that exist; see HomeDirectory for their creation
    Owner,          \* [Homes -> Users]: owner_uid, which no operation changes
    KeyIds,         \* 128-bit key identifiers
    Materials,      \* generated Home Keys: identifier and secret together
    IdOf,           \* [Materials -> KeyIds]: the identifier inside a key
    Codes,          \* normalised pairing codes
    Calls,          \* API calls in flight at the same time
    None,
    MaxActive,      \* MAX_ACTIVE_HOME_KEYS
    MaxRetained,    \* MAX_RETAINED_HOME_KEYS
    Attempts,       \* draws of an identifier per call
    CodeLifetime,   \* PAIRING_CODE_LIFETIME_MILLISECONDS, in clock ticks
    TokenLifetime,  \* 300 s, in clock ticks
    MaxClock,       \* bound: last clock tick explored
    MaxLostAcks     \* bound: commits whose acknowledgement is lost

ASSUME HomeKeysAssumption ==
    /\ Owner \in [Homes -> Users]
    /\ IdOf \in [Materials -> KeyIds]
    /\ IsFiniteSet(KeyIds)
    /\ None \notin Users \cup Homes \cup KeyIds \cup Materials \cup Codes
    /\ MaxActive \in Nat \ {0} /\ MaxRetained \in Nat \ {0}
    /\ MaxActive <= MaxRetained
    /\ Attempts \in Nat \ {0}
    /\ CodeLifetime \in Nat /\ TokenLifetime \in Nat
    /\ MaxClock \in Nat /\ MaxLostAcks \in Nat

VARIABLES
    clock,      \* the control plane's clock
    active,     \* [Homes -> Nat]: active_key_count
    retained,   \* [Homes -> Nat]: retained_key_count
    key,        \* controlHomes/{h}/homeKeys/{k}
    index,      \* homeKeyIndex/{k}
    code,       \* controlPairingCodes/{p}
    call,       \* [Calls -> CallRecord]
    drawn,      \* key materials generated so far
    lostAcks,   \* acknowledgements still to lose
    handed,     \* history: key materials returned in a response
    origin,     \* history: the code whose redemption stored a material
    deadAt      \* history: when a material was revoked, 0 if it was not

documents == <<active, retained, key, index, code>>
history   == <<handed, origin, deadAt>>
vars      == <<clock, documents, call, drawn, lostAcks, history>>

-----------------------------------------------------------------------------
(* Documents.  An absent document is a record with status "absent". *)

NoKey   == [status |-> "absent", mat |-> None, made |-> 0, used |-> 0]
NoIndex == [status |-> "absent", home |-> None]
NoCode  == [status |-> "absent", home |-> None, by |-> None, expires |-> 0,
            key |-> None]

KeyRecord   == {NoKey} \cup [status: {"active", "revoked"}, mat: Materials,
                             made: Nat, used: Nat]
IndexRecord == {NoIndex} \cup [status: {"active", "revoked"}, home: Homes]
CodeRecord  == {NoCode} \cup [status: {"pending", "redeemed"}, home: Homes,
                              by: Users, expires: Nat, key: KeyIds \cup {None}]

(* A call in flight: the request, the key material and the code it drew or *)
(* was given, and the clock it read before its transaction.                *)
Operations == {"issue", "redeem", "create", "revoke", "exchange"}

CallFields == [pc: {"tx", "sign", "ok", "denied", "unknown"},
               op: Operations \cup {"none"},
               user: Users \cup {None}, home: Homes \cup {None},
               code: Codes \cup {None}, mat: Materials \cup {None},
               key: KeyIds \cup {None}, tries: Nat, at: Nat]

CallRecord ==
    {r \in CallFields :
        /\ r.pc \in {"tx", "sign"} <=> r.op # "none"
        /\ r.pc = "sign" => r.op = "exchange"
        /\ r.op \in {"issue", "create", "revoke"} => r.home \in Homes /\ r.user \in Users
        /\ r.op \in {"redeem", "create", "exchange"} => r.mat \in Materials
        /\ r.op \in {"issue", "redeem"} => r.code \in Codes
        /\ r.op = "revoke" => r.key \in KeyIds}

Registry(h)    == {k \in KeyIds : key[h][k].status # "absent"}
ActiveKeys(h)  == {k \in KeyIds : key[h][k].status = "active"}
RevokedKeys(h) == {k \in KeyIds : key[h][k].status = "revoked"}

(* A finished call keeps only its answer. *)
Answered(answer) ==
    [pc |-> answer, op |-> "none", user |-> None, home |-> None, code |-> None,
     mat |-> None, key |-> None, tries |-> 0, at |-> 0]

Request(op, u, h, p, m, k, at) ==
    [pc |-> "tx", op |-> op, user |-> u, home |-> h, code |-> p,
     mat |-> m, key |-> k, tries |-> 1, at |-> at]

Init ==
    /\ clock = 1
    /\ active = [h \in Homes |-> 0]
    /\ retained = [h \in Homes |-> 0]
    /\ key = [h \in Homes |-> [k \in KeyIds |-> NoKey]]
    /\ index = [k \in KeyIds |-> NoIndex]
    /\ code = [p \in Codes |-> NoCode]
    /\ call = [c \in Calls |-> Answered("ok")]
    /\ drawn = {}
    /\ lostAcks = MaxLostAcks
    /\ handed = {}
    /\ origin = [m \in Materials |-> None]
    /\ deadAt = [m \in Materials |-> 0]

-----------------------------------------------------------------------------
(* Life of a call. *)

Free(c)        == call[c].pc \notin {"tx", "sign"}
InTx(c, op)    == call[c].pc = "tx" /\ call[c].op = op
Finish(c, ans) == call' = [call EXCEPT ![c] = Answered(ans)]

(* The response is sent without awaiting the transaction's outcome. *)
WrongCommitAcked(c, next) ==
    /\ call' = [call EXCEPT ![c] = next] \/ call' = call
    /\ UNCHANGED lostAcks

(* The transaction committed.  The SDK learns it and the call goes on to   *)
(* `next', or the acknowledgement is lost and the closure will run again.  *)
CommitAcked(c, next) ==
    /\ call' = [call EXCEPT ![c] = next]
    /\ UNCHANGED lostAcks

CommitUnacked ==
    /\ lostAcks > 0
    /\ lostAcks' = lostAcks - 1
    /\ UNCHANGED call

(* Another attempt of call r with code p and material m, drawn anew. *)
Retried(r, p, m, at) ==
    [Request(r.op, r.user, r.home, p, m, r.key, at) EXCEPT !.tries = r.tries + 1]

(* An IdentifierCollision: draw another key, at most Attempts times; only  *)
(* createHomeKey reads the clock before its transaction.                   *)
Redraw(c) ==
    LET r == call[c] IN
    IF r.tries >= Attempts \/ drawn = Materials
    THEN Finish(c, "unknown") /\ UNCHANGED drawn
    ELSE \E m \in Materials \ drawn :
            /\ call' = [call EXCEPT ![c] =
                    Retried(r, r.code, m, IF r.op = "create" THEN clock ELSE r.at)]
            /\ drawn' = drawn \cup {m}

Begin(c, request) ==
    /\ Free(c)
    /\ call' = [call EXCEPT ![c] = request]
    /\ UNCHANGED <<clock, documents, lostAcks, history>>

BeginIssue(c, u, h) ==
    \E p \in Codes :
        /\ Begin(c, Request("issue", u, h, p, None, None, clock))
        /\ UNCHANGED drawn

BeginRedeem(c, p) ==
    \E m \in Materials \ drawn :
        /\ Begin(c, Request("redeem", None, None, p, m, None, 0))
        /\ drawn' = drawn \cup {m}

BeginCreate(c, u, h) ==
    \E m \in Materials \ drawn :
        /\ Begin(c, Request("create", u, h, None, m, None, clock))
        /\ drawn' = drawn \cup {m}

BeginRevoke(c, u, h, k) ==
    /\ Begin(c, Request("revoke", u, h, None, None, k, 0))
    /\ UNCHANGED drawn

BeginExchange(c, m) ==
    /\ m \in handed
    /\ Begin(c, Request("exchange", None, None, None, m, None, clock))
    /\ UNCHANGED drawn

(* The instance dies, the SDK gives up, or the admission callback throws. *)
Abandon(c) ==
    /\ ~Free(c)
    /\ Finish(c, "unknown")
    /\ UNCHANGED <<clock, documents, drawn, lostAcks, history>>

-----------------------------------------------------------------------------
(* #stageHomeKey: the verdict on storing material m in the registry of h.  *)

Reconciles(h) ==
    /\ retained[h] = Cardinality(Registry(h)) /\ retained[h] <= MaxRetained
    /\ active[h] = Cardinality(ActiveKeys(h)) /\ active[h] <= MaxActive

IndexAgrees(h, k) == index[k] = [status |-> key[h][k].status, home |-> h]

(* A revoked key does not occupy its identifier. *)
WrongTaken(h, k) == key[h][k].status = "active"

Taken(h, k) == key[h][k].status # "absent" \/ index[k].status # "absent"

(* Compaction picks the oldest key, revoked or not. *)
WrongOldestRevoked(h) ==
    {k \in Registry(h) : \A j \in Registry(h) : key[h][k].made <= key[h][j].made}

(* compareKeyRecords; it breaks ties by identifier, whose order is random. *)
OldestRevoked(h) ==
    {k \in RevokedKeys(h) :
        \A j \in RevokedKeys(h) : key[h][k].made <= key[h][j].made}

Verdict(h, m) ==
    LET k == IdOf[m] IN
    IF ~Reconciles(h) THEN "unavailable"
    ELSE IF Taken(h, k)
    THEN IF key[h][k].status = "absent" THEN "collision"
         ELSE IF ~IndexAgrees(h, k) THEN "unavailable"
         ELSE IF key[h][k].status = "active" /\ key[h][k].mat = m
         THEN "existing" ELSE "collision"
    ELSE IF active[h] >= MaxActive THEN "limit"
    ELSE IF retained[h] < MaxRetained THEN "room"
    ELSE IF RevokedKeys(h) = {} THEN "limit"
    ELSE IF \E v \in OldestRevoked(h) : IndexAgrees(h, v) THEN "compact"
    ELSE "unavailable"

(* Compaction leaves the index entry of the key it deletes. *)
WrongPutKey(h, m, made, victims) ==
    LET k == IdOf[m] IN
    /\ key' = [key EXCEPT ![h] = [j \in KeyIds |->
            IF j = k THEN [status |-> "active", mat |-> m, made |-> made, used |-> 0]
            ELSE IF j \in victims THEN NoKey ELSE key[h][j]]]
    /\ index' = [index EXCEPT ![k] = [status |-> "active", home |-> h]]
    /\ active' = [active EXCEPT ![h] = @ + 1]
    /\ retained' = [retained EXCEPT ![h] = IF victims = {} THEN @ + 1 ELSE @]
    /\ deadAt' = [deadAt EXCEPT ![m] = 0]

(* Store m in h, deleting the keys in `victims' with their index entries. *)
PutKey(h, m, made, victims) ==
    LET k == IdOf[m] IN
    /\ key' = [key EXCEPT ![h] = [j \in KeyIds |->
            IF j = k THEN [status |-> "active", mat |-> m, made |-> made, used |-> 0]
            ELSE IF j \in victims THEN NoKey ELSE key[h][j]]]
    /\ index' = [j \in KeyIds |->
            IF j = k THEN [status |-> "active", home |-> h]
            ELSE IF j \in victims THEN NoIndex ELSE index[j]]
    /\ active' = [active EXCEPT ![h] = @ + 1]
    /\ retained' = [retained EXCEPT ![h] = IF victims = {} THEN @ + 1 ELSE @]
    /\ deadAt' = [deadAt EXCEPT ![m] = 0]

StoreKey(h, m, made) ==
    \/ Verdict(h, m) = "room" /\ PutKey(h, m, made, {})
    \/ /\ Verdict(h, m) = "compact"
       /\ \E v \in OldestRevoked(h) : PutKey(h, m, made, {v})

(* The answer to a verdict that ends the call without a commit. *)
Refused(h, m) == Verdict(h, m) \in {"unavailable", "limit"}
RefusalOf(h, m) == IF Verdict(h, m) = "limit" THEN "denied" ELSE "unknown"

-----------------------------------------------------------------------------
(* Transactions. *)

(* createHomeKey, one run of its transaction closure. *)
CreateTx(c) ==
    LET h == call[c].home
        m == call[c].mat
    IN
    /\ InTx(c, "create")
    /\ UNCHANGED <<clock, code, origin>>
    /\ \/ /\ Owner[h] # call[c].user
          /\ Finish(c, "denied")
          /\ UNCHANGED <<active, retained, key, index, drawn, lostAcks, handed, deadAt>>
       \/ /\ Owner[h] = call[c].user
          /\ \/ /\ Refused(h, m)
                /\ Finish(c, RefusalOf(h, m))
                /\ UNCHANGED <<active, retained, key, index, drawn, lostAcks, handed, deadAt>>
             \/ /\ Verdict(h, m) = "collision"
                /\ Redraw(c)
                /\ UNCHANGED <<active, retained, key, index, lostAcks, handed, deadAt>>
             \/ /\ Verdict(h, m) = "existing"
                /\ Finish(c, "ok")
                /\ handed' = handed \cup {m}
                /\ UNCHANGED <<active, retained, key, index, drawn, lostAcks, deadAt>>
             \/ /\ StoreKey(h, m, call[c].at)
                /\ \/ CommitAcked(c, Answered("ok")) /\ handed' = handed \cup {m}
                   \/ CommitUnacked /\ UNCHANGED handed
                /\ UNCHANGED drawn

(* #pendingPairingCode and the ownership check of redeemPairingCode. *)
Replayed(c) ==
    LET p == code[call[c].code] IN
    p.status = "redeemed" /\ p.key = IdOf[call[c].mat]

(* A code that was redeemed can be redeemed again. *)
WrongRedeemable(c) ==
    LET p == code[call[c].code] IN
    p.status # "absent" /\ clock < p.expires /\ Owner[p.home] = p.by

Redeemable(c) ==
    LET p == code[call[c].code] IN
    /\ p.status = "pending"
    /\ clock < p.expires
    /\ Owner[p.home] = p.by

(* redeemPairingCode, one run of its transaction closure. *)
RedeemTx(c) ==
    LET p == call[c].code
        h == code[p].home
        m == call[c].mat
    IN
    /\ InTx(c, "redeem")
    /\ UNCHANGED clock
    /\ \/ /\ ~Replayed(c) /\ ~Redeemable(c)
          /\ Finish(c, "denied")
          /\ UNCHANGED <<documents, drawn, lostAcks, history>>
       \/ /\ Replayed(c)
          /\ Finish(c, "ok")
          /\ handed' = handed \cup {m}
          /\ UNCHANGED <<documents, drawn, lostAcks, origin, deadAt>>
       \/ /\ Redeemable(c)
          /\ \/ /\ Refused(h, m)
                /\ Finish(c, RefusalOf(h, m))
                /\ UNCHANGED <<documents, drawn, lostAcks, history>>
             \/ /\ Verdict(h, m) \in {"collision", "existing"}
                /\ Redraw(c)
                /\ UNCHANGED <<documents, lostAcks, history>>
             \/ /\ StoreKey(h, m, clock)
                /\ code' = [code EXCEPT ![p].status = "redeemed",
                                        ![p].key = IdOf[m]]
                /\ origin' = [origin EXCEPT ![m] = p]
                /\ \/ CommitAcked(c, Answered("ok")) /\ handed' = handed \cup {m}
                   \/ CommitUnacked /\ UNCHANGED handed
                /\ UNCHANGED drawn

(* issuePairingCode, one run of its transaction closure. *)
IssueTx(c) ==
    LET h == call[c].home
        p == call[c].code
    IN
    /\ InTx(c, "issue")
    /\ UNCHANGED <<clock, active, retained, key, index, drawn, history>>
    /\ \/ /\ Owner[h] # call[c].user
          /\ Finish(c, "denied")
          /\ UNCHANGED <<code, lostAcks>>
       \/ /\ Owner[h] = call[c].user /\ code[p].status # "absent"
          /\ IF call[c].tries >= Attempts THEN Finish(c, "unknown")
             ELSE \E q \in Codes : call' = [call EXCEPT ![c] =
                        Retried(call[c], q, None, call[c].at)]
          /\ UNCHANGED <<code, lostAcks>>
       \/ /\ Owner[h] = call[c].user /\ code[p].status = "absent"
          /\ code' = [code EXCEPT ![p] =
                [status |-> "pending", home |-> h, by |-> call[c].user,
                 expires |-> call[c].at + CodeLifetime, key |-> None]]
          /\ CommitAcked(c, Answered("ok")) \/ CommitUnacked

(* revokeHomeKey, one run of its transaction closure. *)
RevokeTx(c) ==
    LET h == call[c].home
        k == call[c].key
    IN
    /\ InTx(c, "revoke")
    /\ UNCHANGED <<clock, code, retained, drawn, handed, origin>>
    /\ \/ /\ Owner[h] # call[c].user
          /\ Finish(c, "denied")
          /\ UNCHANGED <<active, key, index, lostAcks, deadAt>>
       \/ /\ Owner[h] = call[c].user
          /\ ~Reconciles(h) \/ key[h][k].status # "active" \/ index[k].status = "absent"
          /\ Finish(c, IF Reconciles(h) /\ key[h][k].status # "active"
                       THEN "ok" ELSE "unknown")
          /\ UNCHANGED <<active, key, index, lostAcks, deadAt>>
       \/ /\ Owner[h] = call[c].user
          /\ Reconciles(h) /\ key[h][k].status = "active" /\ index[k].status # "absent"
          /\ key' = [key EXCEPT ![h][k].status = "revoked"]
          /\ index' = [index EXCEPT ![k].status = "revoked"]
          /\ active' = [active EXCEPT ![h] = @ - 1]
          /\ deadAt' = [deadAt EXCEPT ![key[h][k].mat] = clock]
          /\ CommitAcked(c, Answered("ok")) \/ CommitUnacked

(* An exchange looks at the verifier and not at the status. *)
WrongExchangeable(c) ==
    LET m == call[c].mat
        k == IdOf[m]
    IN  index[k].status # "absent" /\ key[index[k].home][k].mat = m

(* #reserveGrant: the authoritative read of an exchange. *)
Exchangeable(c) ==
    LET m == call[c].mat
        k == IdOf[m]
        h == index[k].home
    IN
    /\ index[k].status = "active"
    /\ key[h][k].status = "active"
    /\ key[h][k].mat = m

ReserveTx(c) ==
    LET m == call[c].mat
        k == IdOf[m]
    IN
    /\ InTx(c, "exchange")
    /\ UNCHANGED <<clock, active, retained, index, code, drawn, history>>
    /\ \/ /\ ~Exchangeable(c) \/ call[c].at + TokenLifetime <= clock
          /\ Finish(c, IF Exchangeable(c) THEN "unknown" ELSE "denied")
          /\ UNCHANGED <<key, lostAcks>>
       \/ /\ Exchangeable(c) /\ clock < call[c].at + TokenLifetime
          /\ key' = [key EXCEPT ![index[k].home][k].used = call[c].at]
          /\ \/ CommitAcked(c, [call[c] EXCEPT !.pc = "sign"])
             \/ CommitUnacked

(* issuer.sign(grant), outside any transaction. *)
Sign(c) ==
    /\ call[c].pc = "sign"
    /\ Finish(c, "ok")
    /\ UNCHANGED <<clock, documents, drawn, lostAcks, history>>

Tick ==
    /\ clock < MaxClock
    /\ clock' = clock + 1
    /\ UNCHANGED <<documents, call, drawn, lostAcks, history>>

Transaction(c) ==
    IssueTx(c) \/ RedeemTx(c) \/ CreateTx(c) \/ RevokeTx(c) \/ ReserveTx(c)

BeginCall(c) ==
    \/ \E u \in Users, h \in Homes : BeginIssue(c, u, h) \/ BeginCreate(c, u, h)
    \/ \E u \in Users, h \in Homes, k \in KeyIds : BeginRevoke(c, u, h, k)
    \/ \E p \in Codes : BeginRedeem(c, p)
    \/ \E m \in Materials : BeginExchange(c, m)

Next ==
    \/ Tick
    \/ \E c \in Calls : BeginCall(c) \/ Transaction(c) \/ Sign(c) \/ Abandon(c)

Spec == Init /\ [][Next]_vars

-----------------------------------------------------------------------------
(* Properties. *)

(* Every document, call and history variable has its type. *)
TypeOK ==
    /\ clock \in Nat \ {0}
    /\ active \in [Homes -> Nat] /\ retained \in [Homes -> Nat]
    /\ key \in [Homes -> [KeyIds -> KeyRecord]]
    /\ index \in [KeyIds -> IndexRecord]
    /\ code \in [Codes -> CodeRecord]
    /\ call \in [Calls -> CallRecord]
    /\ drawn \subseteq Materials /\ lostAcks \in Nat
    /\ handed \subseteq Materials
    /\ origin \in [Materials -> Codes \cup {None}]
    /\ deadAt \in [Materials -> Nat]

(* The two counters of a home, which createHomeKey and revokeHomeKey       *)
(* maintain without recounting, always reconcile with its key documents    *)
(* and respect the ceilings: reconcileKeyRegistry never locks an owner out *)
(* with temporarily_unavailable.                                           *)
RegistryReconciles == \A h \in Homes : Reconciles(h)

(* The global index and the per-home registries describe the same keys: an *)
(* identifier is indexed for h exactly when h stores it, with the same     *)
(* status.  So an exchange, which starts from the index, never sees a key  *)
(* that its home revoked or compacted, and an identifier is in one home.   *)
IndexMirrorsRegistry ==
    \A k \in KeyIds, h \in Homes :
        IF index[k].status # "absent" /\ index[k].home = h
        THEN IndexAgrees(h, k)
        ELSE key[h][k].status = "absent"

(* Concurrent or repeated redemptions of one code, with any number of lost *)
(* acknowledgements, store at most one key, and only while the code says   *)
(* "redeemed" with the identifier of that key.                             *)
OneKeyPerCode ==
    \A m \in Materials : origin[m] # None =>
        /\ code[origin[m]].status = "redeemed"
        /\ code[origin[m]].key = IdOf[m]
        /\ \A n \in Materials : origin[n] = origin[m] => n = m

(* Compaction and every other step leave an active key in its registry: it *)
(* may become revoked and nothing else, and it keeps its secret.           *)
ActiveKeyOnlyRevoked ==
    [][\A h \in Homes, k \in KeyIds : key[h][k].status = "active" =>
          /\ key'[h][k].status \in {"active", "revoked"}
          /\ key'[h][k].mat = key[h][k].mat]_vars

(* A secret somebody already holds never starts to work (again): a key     *)
(* becomes active only with material that no response has yet carried.     *)
HandedSecretNeverRevived ==
    [][\A h \in Homes, k \in KeyIds :
          key'[h][k].status = "active" /\ key[h][k] # key'[h][k]
              /\ key[h][k].status # "active"
          => key'[h][k].mat \notin handed]_vars

(* A grant still waiting for its signature after the key was revoked was   *)
(* issued no later than the revocation, so the token it becomes expires at *)
(* most TokenLifetime after it.                                            *)
GrantPredatesRevocation ==
    \A c \in Calls : call[c].pc = "sign" /\ deadAt[call[c].mat] # 0 =>
        call[c].at <= deadAt[call[c].mat]

(* RFC 0004 section 6.4 says a revoked key cannot mint a new access token. *)
(* That needs revocation to be final: material once revoked stays so.  The *)
(* code breaks it when createHomeKey's commit loses its acknowledgement,   *)
(* the owner revokes the key, another creation compacts it away, and the   *)
(* closure runs again: it stores the same key afresh.                      *)
RevocationIsFinal ==
    [][\A m \in Materials : deadAt[m] # 0 => deadAt'[m] # 0]_vars

=============================================================================
