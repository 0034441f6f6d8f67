--------------------------- MODULE HomeKeysProofs ---------------------------
(* Proofs of the safety properties of HomeKeys. *)
EXTENDS HomeKeys, FiniteSetTheorems, TLAPS

-----------------------------------------------------------------------------
(* Type correctness. *)

(* The records that actions build have their types. *)
LEMMA RecordTypes ==
    /\ NoKey \in KeyRecord
    /\ NoIndex \in IndexRecord
    /\ NoCode \in CodeRecord
    /\ \A ans \in {"ok", "denied", "unknown"} : Answered(ans) \in CallRecord
BY DEF NoKey, NoIndex, NoCode, Answered, KeyRecord, IndexRecord, CodeRecord,
       CallRecord, CallFields

LEMMA RequestType ==
    ASSUME NEW op \in Operations,
           NEW u \in Users \cup {None}, NEW h \in Homes \cup {None},
           NEW p \in Codes \cup {None}, NEW m \in Materials \cup {None},
           NEW k \in KeyIds \cup {None}, NEW at \in Nat,
           op \in {"issue", "create", "revoke"} => h \in Homes /\ u \in Users,
           op \in {"redeem", "create", "exchange"} => m \in Materials,
           op \in {"issue", "redeem"} => p \in Codes,
           op = "revoke" => k \in KeyIds
    PROVE  Request(op, u, h, p, m, k, at) \in CallRecord
BY DEF Request, CallRecord, CallFields, Operations

LEMMA RetriedType ==
    ASSUME NEW r \in CallRecord, r.pc = "tx", NEW at \in Nat,
           NEW p \in Codes \cup {None}, NEW m \in Materials \cup {None},
           r.op \in {"issue", "redeem"} => p \in Codes,
           r.op \in {"redeem", "create", "exchange"} => m \in Materials
    PROVE  Retried(r, p, m, at) \in CallRecord
BY DEF Retried, Request, CallRecord, CallFields, Operations

(* Finishing, committing or redrawing keeps the calls well-typed. *)
LEMMA FinishType ==
    ASSUME TypeOK, NEW c \in Calls, NEW ans \in {"ok", "denied", "unknown"},
           Finish(c, ans)
    PROVE  call' \in [Calls -> CallRecord]
BY RecordTypes DEF TypeOK, Finish

LEMMA CommitType ==
    ASSUME TypeOK, NEW c \in Calls, NEW next \in CallRecord,
           CommitAcked(c, next) \/ CommitUnacked
    PROVE  call' \in [Calls -> CallRecord] /\ lostAcks' \in Nat
BY DEF TypeOK, CommitAcked, CommitUnacked

LEMMA RedrawType ==
    ASSUME TypeOK, NEW c \in Calls, call[c].pc = "tx", Redraw(c)
    PROVE  call' \in [Calls -> CallRecord] /\ drawn' \subseteq Materials
<1> DEFINE at == IF call[c].op = "create" THEN clock ELSE call[c].at
<1>0. /\ call \in [Calls -> CallRecord] /\ call[c] \in CallRecord
      /\ clock \in Nat /\ drawn \subseteq Materials /\ lostAcks \in Nat
  BY DEF TypeOK
<1>1. /\ at \in Nat /\ call[c].code \in Codes \cup {None}
      /\ call[c].op \in {"issue", "redeem"} => call[c].code \in Codes
  BY <1>0 DEF CallRecord, CallFields
<1>2. ASSUME NEW m \in Materials \ drawn, drawn' = drawn \cup {m},
             call' = [call EXCEPT ![c] = Retried(call[c], call[c].code, m, at)]
      PROVE  call' \in [Calls -> CallRecord] /\ drawn' \subseteq Materials
  <2> HIDE DEF at
  <2>1. Retried(call[c], call[c].code, m, at) \in CallRecord
    BY <1>0, <1>1, RetriedType
  <2>2. QED  BY <1>0, <1>2, <2>1
<1>3. ASSUME Finish(c, "unknown"), UNCHANGED drawn
      PROVE  call' \in [Calls -> CallRecord] /\ drawn' \subseteq Materials
  BY <1>0, <1>3, FinishType
<1>4. QED  BY <1>2, <1>3, Zenon DEF Redraw

(* Storing a key keeps the documents well-typed. *)
LEMMA PutKeyType ==
    ASSUME TypeOK, NEW h \in Homes, NEW m \in Materials, NEW made \in Nat,
           NEW victims, PutKey(h, m, made, victims)
    PROVE  /\ active' \in [Homes -> Nat] /\ retained' \in [Homes -> Nat]
           /\ key' \in [Homes -> [KeyIds -> KeyRecord]]
           /\ index' \in [KeyIds -> IndexRecord]
           /\ deadAt' \in [Materials -> Nat]
<1> DEFINE stored == [status |-> "active", mat |-> m, made |-> made, used |-> 0]
           entry  == [status |-> "active", home |-> h]
<1>1. stored \in KeyRecord /\ entry \in IndexRecord
  BY DEF KeyRecord, IndexRecord
<1>2. [j \in KeyIds |-> IF j = IdOf[m] THEN stored
         ELSE IF j \in victims THEN NoKey ELSE key[h][j]] \in [KeyIds -> KeyRecord]
  <2> HIDE DEF stored
  <2> QED  BY <1>1, RecordTypes DEF TypeOK
<1>3. [j \in KeyIds |-> IF j = IdOf[m] THEN entry
         ELSE IF j \in victims THEN NoIndex ELSE index[j]] \in [KeyIds -> IndexRecord]
  <2> HIDE DEF entry
  <2> QED  BY <1>1, RecordTypes DEF TypeOK
<1>4. key' \in [Homes -> [KeyIds -> KeyRecord]] /\ index' \in [KeyIds -> IndexRecord]
  BY <1>2, <1>3, Zenon DEF PutKey, TypeOK
<1>5. /\ active' \in [Homes -> Nat] /\ retained' \in [Homes -> Nat]
      /\ deadAt' \in [Materials -> Nat]
  BY DEF PutKey, TypeOK
<1> QED  BY <1>4, <1>5

LEMMA StoreKeyType ==
    ASSUME TypeOK, NEW h \in Homes, NEW m \in Materials, NEW made \in Nat,
           StoreKey(h, m, made)
    PROVE  /\ active' \in [Homes -> Nat] /\ retained' \in [Homes -> Nat]
           /\ key' \in [Homes -> [KeyIds -> KeyRecord]]
           /\ index' \in [KeyIds -> IndexRecord]
           /\ deadAt' \in [Materials -> Nat]
<1>1. PICK victims : PutKey(h, m, made, victims)
  BY Zenon DEF StoreKey
<1> QED  BY <1>1, PutKeyType

(* A call that begins is well-typed. *)
LEMMA BeginType ==
    ASSUME TypeOK, NEW c \in Calls, NEW r \in CallRecord, Begin(c, r),
           drawn' \subseteq Materials
    PROVE  TypeOK'
BY DEF Begin, TypeOK, documents, history

LEMMA BeginCallType ==
    ASSUME HomeKeysAssumption, TypeOK, NEW c \in Calls, BeginCall(c)
    PROVE  TypeOK'
<1>0. clock \in Nat /\ drawn \subseteq Materials
  BY DEF TypeOK
<1> USE DEF Operations
<1>1. ASSUME NEW u \in Users, NEW h \in Homes, BeginIssue(c, u, h)
      PROVE  TypeOK'
  <2>1. PICK p \in Codes : /\ Begin(c, Request("issue", u, h, p, None, None, clock))
                           /\ UNCHANGED drawn
    BY <1>1 DEF BeginIssue
  <2>2. Request("issue", u, h, p, None, None, clock) \in CallRecord
    BY <1>0, RequestType
  <2>3. QED  BY <1>0, <2>1, <2>2, BeginType
<1>2. ASSUME NEW u \in Users, NEW h \in Homes, BeginCreate(c, u, h)
      PROVE  TypeOK'
  <2>1. PICK m \in Materials : /\ Begin(c, Request("create", u, h, None, m, None, clock))
                               /\ drawn' = drawn \cup {m}
    BY <1>2 DEF BeginCreate
  <2>2. Request("create", u, h, None, m, None, clock) \in CallRecord
    BY <1>0, RequestType
  <2>3. QED  BY <1>0, <2>1, <2>2, BeginType
<1>3. ASSUME NEW u \in Users, NEW h \in Homes, NEW k \in KeyIds,
             BeginRevoke(c, u, h, k)
      PROVE  TypeOK'
  <2>1. Request("revoke", u, h, None, None, k, 0) \in CallRecord
    BY <1>0, RequestType
  <2>2. QED  BY <1>0, <1>3, <2>1, BeginType DEF BeginRevoke
<1>4. ASSUME NEW p \in Codes, BeginRedeem(c, p)
      PROVE  TypeOK'
  <2>1. PICK m \in Materials : /\ Begin(c, Request("redeem", None, None, p, m, None, 0))
                               /\ drawn' = drawn \cup {m}
    BY <1>4 DEF BeginRedeem
  <2>2. Request("redeem", None, None, p, m, None, 0) \in CallRecord
    BY <1>0, RequestType
  <2>3. QED  BY <1>0, <2>1, <2>2, BeginType
<1>5. ASSUME NEW m \in Materials, BeginExchange(c, m)
      PROVE  TypeOK'
  <2>1. Request("exchange", None, None, None, m, None, clock) \in CallRecord
    BY <1>0, RequestType
  <2>2. QED  BY <1>0, <1>5, <2>1, BeginType DEF BeginExchange
<1>6. QED  BY <1>1, <1>2, <1>3, <1>4, <1>5 DEF BeginCall

(* Every run of a transaction closure keeps the types. *)
LEMMA CreateTxType ==
    ASSUME HomeKeysAssumption, TypeOK, NEW c \in Calls, CreateTx(c)
    PROVE  TypeOK'
<1> DEFINE h == call[c].home
           m == call[c].mat
<1>0. /\ call[c] \in CallRecord /\ call[c].pc = "tx"
      /\ h \in Homes /\ m \in Materials /\ call[c].at \in Nat
      /\ clock' = clock /\ code' = code /\ origin' = origin
  BY DEF TypeOK, CreateTx, InTx, CallRecord, CallFields
<1>1. CASE Finish(c, "denied") /\ UNCHANGED <<active, retained, key, index, drawn, lostAcks, handed, deadAt>>
  BY <1>0, <1>1, FinishType DEF TypeOK
<1>2. CASE Finish(c, RefusalOf(h, m)) /\ UNCHANGED <<active, retained, key, index, drawn, lostAcks, handed, deadAt>>
  <2>1. RefusalOf(h, m) \in {"ok", "denied", "unknown"}
    BY DEF RefusalOf
  <2>2. QED  BY <1>0, <1>2, <2>1, FinishType DEF TypeOK
<1>3. CASE Redraw(c) /\ UNCHANGED <<active, retained, key, index, lostAcks, handed, deadAt>>
  BY <1>0, <1>3, RedrawType DEF TypeOK
<1>4. CASE /\ Finish(c, "ok") /\ handed' = handed \cup {m}
           /\ UNCHANGED <<active, retained, key, index, drawn, lostAcks, deadAt>>
  BY <1>0, <1>4, FinishType DEF TypeOK
<1>5. CASE /\ StoreKey(h, m, call[c].at)
           /\ CommitAcked(c, Answered("ok")) \/ CommitUnacked
           /\ handed' \in {handed, handed \cup {m}}
           /\ UNCHANGED drawn
  <2>1. call' \in [Calls -> CallRecord] /\ lostAcks' \in Nat
    BY <1>5, CommitType, RecordTypes
  <2>2. QED  BY <1>0, <1>5, <2>1, StoreKeyType DEF TypeOK
<1>6. QED  BY <1>1, <1>2, <1>3, <1>4, <1>5, Zenon DEF CreateTx

LEMMA RedeemTxType ==
    ASSUME HomeKeysAssumption, TypeOK, NEW c \in Calls, RedeemTx(c)
    PROVE  TypeOK'
<1> DEFINE p == call[c].code
           h == code[p].home
           m == call[c].mat
<1>0. /\ call[c] \in CallRecord /\ call[c].pc = "tx"
      /\ p \in Codes /\ m \in Materials /\ clock \in Nat /\ clock' = clock
  BY DEF TypeOK, RedeemTx, InTx, CallRecord, CallFields
<1>1. CASE Finish(c, "denied") /\ UNCHANGED <<documents, drawn, lostAcks, history>>
  BY <1>0, <1>1, FinishType DEF TypeOK, documents, history
<1>2. CASE /\ Finish(c, "ok") /\ handed' = handed \cup {m}
           /\ UNCHANGED <<documents, drawn, lostAcks, origin, deadAt>>
  BY <1>0, <1>2, FinishType DEF TypeOK, documents
<1>3. CASE Finish(c, RefusalOf(h, m)) /\ UNCHANGED <<documents, drawn, lostAcks, history>>
  <2>1. RefusalOf(h, m) \in {"ok", "denied", "unknown"}
    BY DEF RefusalOf
  <2>2. QED  BY <1>0, <1>3, <2>1, FinishType DEF TypeOK, documents, history
<1>4. CASE Redraw(c) /\ UNCHANGED <<documents, lostAcks, history>>
  BY <1>0, <1>4, RedrawType DEF TypeOK, documents, history
<1>5. CASE /\ Redeemable(c)
           /\ StoreKey(h, m, clock)
           /\ code' = [code EXCEPT ![p].status = "redeemed", ![p].key = IdOf[m]]
           /\ origin' = [origin EXCEPT ![m] = p]
           /\ CommitAcked(c, Answered("ok")) \/ CommitUnacked
           /\ handed' \in {handed, handed \cup {m}}
           /\ UNCHANGED drawn
  <2>1. call' \in [Calls -> CallRecord] /\ lostAcks' \in Nat
    BY <1>5, CommitType, RecordTypes
  <2>2. code[p] \in CodeRecord \ {NoCode} /\ h \in Homes
    BY <1>0, <1>5 DEF TypeOK, Redeemable, CodeRecord, NoCode
  <2>3. [code[p] EXCEPT !.status = "redeemed", !.key = IdOf[m]] \in CodeRecord
    BY <1>0, <2>2 DEF CodeRecord, HomeKeysAssumption
  <2>4. code' \in [Codes -> CodeRecord]
    BY <1>0, <1>5, <2>3 DEF TypeOK
  <2>5. QED  BY <1>0, <1>5, <2>1, <2>2, <2>4, StoreKeyType DEF TypeOK
<1>6. QED  BY <1>1, <1>2, <1>3, <1>4, <1>5, Zenon DEF RedeemTx

LEMMA IssueTxType ==
    ASSUME HomeKeysAssumption, TypeOK, NEW c \in Calls, IssueTx(c)
    PROVE  TypeOK'
<1> DEFINE h == call[c].home
           p == call[c].code
<1>0. /\ call[c] \in CallRecord /\ call[c].pc = "tx" /\ call[c].op = "issue"
      /\ h \in Homes /\ p \in Codes /\ call[c].user \in Users
      /\ call[c].at \in Nat /\ clock' = clock
      /\ UNCHANGED <<active, retained, key, index, drawn, handed, origin, deadAt>>
  BY DEF TypeOK, IssueTx, InTx, CallRecord, CallFields, history
<1>1. CASE Finish(c, "denied") /\ UNCHANGED <<code, lostAcks>>
  BY <1>0, <1>1, FinishType DEF TypeOK
<1>2. CASE Finish(c, "unknown") /\ UNCHANGED <<code, lostAcks>>
  BY <1>0, <1>2, FinishType DEF TypeOK
<1>3. ASSUME NEW q \in Codes, UNCHANGED <<code, lostAcks>>,
             call' = [call EXCEPT ![c] = Retried(call[c], q, None, call[c].at)]
      PROVE  TypeOK'
  <2>1. Retried(call[c], q, None, call[c].at) \in CallRecord
    BY <1>0, RetriedType
  <2>2. QED  BY <1>0, <1>3, <2>1 DEF TypeOK
<1>4. CASE /\ code' = [code EXCEPT ![p] =
                [status |-> "pending", home |-> h, by |-> call[c].user,
                 expires |-> call[c].at + CodeLifetime, key |-> None]]
           /\ CommitAcked(c, Answered("ok")) \/ CommitUnacked
  <2>1. [status |-> "pending", home |-> h, by |-> call[c].user,
         expires |-> call[c].at + CodeLifetime, key |-> None] \in CodeRecord
    BY <1>0 DEF CodeRecord, HomeKeysAssumption
  <2>2. code' \in [Codes -> CodeRecord]
    BY <1>0, <1>4, <2>1 DEF TypeOK
  <2>3. QED  BY <1>0, <1>4, <2>2, CommitType, RecordTypes DEF TypeOK
<1>5. QED  BY <1>1, <1>2, <1>3, <1>4, Zenon DEF IssueTx

LEMMA RevokeTxType ==
    ASSUME HomeKeysAssumption, TypeOK, NEW c \in Calls, RevokeTx(c)
    PROVE  TypeOK'
<1> DEFINE h == call[c].home
           k == call[c].key
<1>0. /\ call[c] \in CallRecord /\ h \in Homes /\ k \in KeyIds
      /\ clock \in Nat /\ clock' = clock
      /\ UNCHANGED <<code, retained, drawn, handed, origin>>
  BY DEF TypeOK, RevokeTx, InTx, CallRecord, CallFields
<1>1. ASSUME NEW ans \in {"ok", "denied", "unknown"}, Finish(c, ans),
             UNCHANGED <<active, key, index, lostAcks, deadAt>>
      PROVE  TypeOK'
  BY <1>0, <1>1, FinishType DEF TypeOK
<1>2. CASE /\ Reconciles(h) /\ key[h][k].status = "active" /\ index[k].status # "absent"
           /\ key' = [key EXCEPT ![h][k].status = "revoked"]
           /\ index' = [index EXCEPT ![k].status = "revoked"]
           /\ active' = [active EXCEPT ![h] = @ - 1]
           /\ deadAt' = [deadAt EXCEPT ![key[h][k].mat] = clock]
           /\ CommitAcked(c, Answered("ok")) \/ CommitUnacked
  <2>1. key[h][k] \in KeyRecord \ {NoKey} /\ index[k] \in IndexRecord \ {NoIndex}
    BY <1>0, <1>2 DEF TypeOK, NoKey, NoIndex
  <2>2. /\ [key[h][k] EXCEPT !.status = "revoked"] \in KeyRecord
        /\ [index[k] EXCEPT !.status = "revoked"] \in IndexRecord
        /\ key[h][k].mat \in Materials
    BY <2>1 DEF KeyRecord, IndexRecord
  <2>3. key' \in [Homes -> [KeyIds -> KeyRecord]] /\ index' \in [KeyIds -> IndexRecord]
    BY <1>0, <1>2, <2>2 DEF TypeOK
  <2>4. active[h] \in Nat /\ active[h] # 0
    <3>1. /\ IsFiniteSet(ActiveKeys(h)) /\ k \in ActiveKeys(h)
      BY <1>0, <1>2, FS_Subset DEF ActiveKeys, HomeKeysAssumption
    <3>2. Cardinality(ActiveKeys(h)) # 0
      BY <3>1, FS_EmptySet
    <3>3. QED  BY <1>0, <1>2, <3>2 DEF TypeOK, Reconciles
  <2>5. active' \in [Homes -> Nat] /\ deadAt' \in [Materials -> Nat]
    <3>1. active[h] - 1 \in Nat
      BY <2>4
    <3>2. active' \in [Homes -> Nat]
      BY <1>0, <1>2, <3>1 DEF TypeOK
    <3>3. deadAt' \in [Materials -> Nat]
      BY <1>0, <1>2 DEF TypeOK
    <3>4. QED  BY <3>2, <3>3
  <2>6. QED  BY <1>0, <1>2, <2>3, <2>5, CommitType, RecordTypes DEF TypeOK
<1>3. QED  BY <1>1, <1>2, Zenon DEF RevokeTx

LEMMA ReserveTxType ==
    ASSUME HomeKeysAssumption, TypeOK, NEW c \in Calls, ReserveTx(c)
    PROVE  TypeOK'
<1> DEFINE m == call[c].mat
           k == IdOf[m]
           h == index[k].home
<1>0. /\ call[c] \in CallRecord /\ call[c].pc = "tx" /\ call[c].op = "exchange"
      /\ m \in Materials /\ k \in KeyIds
      /\ call[c].at \in Nat /\ clock' = clock
      /\ UNCHANGED <<active, retained, index, code, drawn, handed, origin, deadAt>>
  BY DEF TypeOK, ReserveTx, InTx, CallRecord, CallFields, history, HomeKeysAssumption
<1>1. ASSUME NEW ans \in {"ok", "denied", "unknown"}, Finish(c, ans),
             UNCHANGED <<key, lostAcks>>
      PROVE  TypeOK'
  BY <1>0, <1>1, FinishType DEF TypeOK
<1>2. CASE /\ Exchangeable(c)
           /\ key' = [key EXCEPT ![h][k].used = call[c].at]
           /\ \/ CommitAcked(c, [call[c] EXCEPT !.pc = "sign"])
              \/ CommitUnacked
  <2>0. index[k].status = "active" /\ key[h][k].status = "active"
    BY <1>2, Zenon DEF Exchangeable
  <2> HIDE DEF h, k
  <2>1. /\ index[k] \in IndexRecord /\ index[k] # NoIndex
    BY <1>0, <2>0 DEF TypeOK, NoIndex
  <2>a. h \in Homes
    BY <2>1 DEF IndexRecord, h
  <2>b. key[h][k] \in KeyRecord /\ key[h][k] # NoKey
    BY <1>0, <2>0, <2>a DEF TypeOK, NoKey
  <2>2. [key[h][k] EXCEPT !.used = call[c].at] \in KeyRecord
    BY <1>0, <2>b DEF KeyRecord
  <2>3. key' \in [Homes -> [KeyIds -> KeyRecord]]
    BY <1>0, <1>2, <2>a, <2>2 DEF TypeOK
  <2>4. [call[c] EXCEPT !.pc = "sign"] \in CallRecord
    BY <1>0 DEF CallRecord, CallFields, Operations
  <2>5. QED  BY <1>0, <1>2, <2>3, <2>4, CommitType DEF TypeOK
<1>3. QED  BY <1>1, <1>2, Zenon DEF ReserveTx

(* Every document, call and history variable always has its type. *)
THEOREM TypeCorrect ==
    ASSUME HomeKeysAssumption
    PROVE  Spec => []TypeOK
<1>1. Init => TypeOK
  BY RecordTypes DEF Init, TypeOK, HomeKeysAssumption
<1>2. TypeOK /\ [Next]_vars => TypeOK'
  <2> SUFFICES ASSUME TypeOK, [Next]_vars PROVE TypeOK'
    OBVIOUS
  <2>1. CASE Tick
    BY <2>1 DEF Tick, TypeOK, documents, history
  <2>2. ASSUME NEW c \in Calls, BeginCall(c) PROVE TypeOK'
    BY <2>2, BeginCallType
  <2>3. ASSUME NEW c \in Calls, Transaction(c) PROVE TypeOK'
    BY <2>3, IssueTxType, RedeemTxType, CreateTxType, RevokeTxType, ReserveTxType
       DEF Transaction
  <2>4. ASSUME NEW c \in Calls, Sign(c) PROVE TypeOK'
    BY <2>4, FinishType DEF Sign, TypeOK, documents, history
  <2>5. ASSUME NEW c \in Calls, Abandon(c) PROVE TypeOK'
    BY <2>5, FinishType DEF Abandon, TypeOK, documents, history
  <2>6. CASE UNCHANGED vars
    BY <2>6 DEF vars, TypeOK, documents, history
  <2>7. QED  BY <2>1, <2>2, <2>3, <2>4, <2>5, <2>6 DEF Next
<1>3. QED  BY <1>1, <1>2, PTL DEF Spec

-----------------------------------------------------------------------------
(* The key registry: counters and index. *)

RegistryInv == RegistryReconciles /\ IndexMirrorsRegistry

(* Steps that change no status keep the registry consistent. *)
LEMMA SameStatuses ==
    ASSUME RegistryInv, UNCHANGED <<active, retained, index>>,
           \A h \in Homes, k \in KeyIds : key'[h][k].status = key[h][k].status
    PROVE  RegistryInv'
<1>1. \A h \in Homes : /\ Registry(h)' = Registry(h)
                       /\ ActiveKeys(h)' = ActiveKeys(h)
  BY DEF Registry, ActiveKeys
<1>2. RegistryReconciles'
  <2> SUFFICES ASSUME NEW h \in Homes PROVE Reconciles(h)'
    BY DEF RegistryReconciles
  <2>1. Reconciles(h)
    BY DEF RegistryInv, RegistryReconciles
  <2>2. QED  BY <1>1, <2>1 DEF Reconciles
<1>3. IndexMirrorsRegistry'
  BY DEF RegistryInv, IndexMirrorsRegistry, IndexAgrees
<1>4. QED  BY <1>2, <1>3 DEF RegistryInv

(* The verdict "room" or "compact" leaves space for one more key. *)
LEMMA StoreKeyRegistry ==
    ASSUME HomeKeysAssumption, TypeOK, RegistryInv,
           NEW h \in Homes, NEW m \in Materials, NEW made \in Nat,
           StoreKey(h, m, made)
    PROVE  RegistryInv'
<1> DEFINE k == IdOf[m]
<1>0. /\ k \in KeyIds /\ Reconciles(h) /\ ~Taken(h, k) /\ active[h] < MaxActive
      /\ active[h] \in Nat /\ retained[h] \in Nat /\ IsFiniteSet(KeyIds)
      /\ MaxActive \in Nat /\ MaxRetained \in Nat
  BY DEF HomeKeysAssumption, TypeOK, StoreKey, Verdict
<1>1. PICK victims : /\ PutKey(h, m, made, victims)
                     /\ \/ victims = {} /\ retained[h] < MaxRetained
                        \/ \E v \in RevokedKeys(h) : victims = {v} /\ IndexAgrees(h, v)
  <2>1. CASE Verdict(h, m) = "room" /\ PutKey(h, m, made, {})
    BY <1>0, <2>1 DEF Verdict
  <2>2. ASSUME NEW v \in OldestRevoked(h), PutKey(h, m, made, {v})
        PROVE  \E w \in RevokedKeys(h) : PutKey(h, m, made, {w}) /\ IndexAgrees(h, w)
    <3>1. v \in RevokedKeys(h) /\ key[h][v].status = "revoked" /\ v \in KeyIds
      BY DEF OldestRevoked, RevokedKeys
    <3>2. IndexAgrees(h, v)
      BY <3>1 DEF RegistryInv, IndexMirrorsRegistry
    <3>3. QED  BY <2>2, <3>1, <3>2
  <2>3. QED  BY <2>1, <2>2, Zenon DEF StoreKey
<1>2. \A j \in KeyIds :
        /\ j = k => key'[h][j].status = "active" /\ index'[j] = [status |-> "active", home |-> h]
        /\ j # k /\ j \in victims => key'[h][j].status = "absent" /\ index'[j] = NoIndex
        /\ j # k /\ j \notin victims => key'[h][j] = key[h][j] /\ index'[j] = index[j]
  BY <1>1 DEF PutKey, TypeOK, NoKey
<1>3. \A g \in Homes \ {h} : key'[g] = key[g] /\ active'[g] = active[g] /\ retained'[g] = retained[g]
  BY <1>1 DEF PutKey, TypeOK
<1>4. /\ active'[h] = active[h] + 1
      /\ retained'[h] = IF victims = {} THEN retained[h] + 1 ELSE retained[h]
  BY <1>1 DEF PutKey, TypeOK
<1>5. \A g \in Homes : key[g][k].status = "absent"
  BY <1>0 DEF Taken, RegistryInv, IndexMirrorsRegistry
<1>6. \A v \in victims : /\ v \in KeyIds /\ v # k
                         /\ key[h][v].status = "revoked" /\ IndexAgrees(h, v)
  BY <1>1, <1>5 DEF RevokedKeys
<1>7. Reconciles(h)'
  <2>1. /\ ActiveKeys(h)' = ActiveKeys(h) \cup {k} /\ k \notin ActiveKeys(h)
        /\ Registry(h)' = (Registry(h) \ victims) \cup {k} /\ k \notin Registry(h)
        /\ victims \subseteq Registry(h)
    BY <1>0, <1>2, <1>5, <1>6 DEF ActiveKeys, Registry
  <2>2. IsFiniteSet(ActiveKeys(h)) /\ IsFiniteSet(Registry(h))
    BY <1>0, FS_Subset DEF ActiveKeys, Registry
  <2>3. Cardinality(ActiveKeys(h)') = Cardinality(ActiveKeys(h)) + 1
    BY <2>1, <2>2, FS_AddElement
  <2>4. CASE victims = {} /\ retained[h] < MaxRetained
    <3>1. Registry(h)' = Registry(h) \cup {k}
      BY <2>1, <2>4
    <3>2. Cardinality(Registry(h) \cup {k}) = Cardinality(Registry(h)) + 1
      BY <2>1, <2>2, FS_AddElement
    <3>3. QED  BY <1>0, <1>4, <2>3, <2>4, <3>1, <3>2 DEF Reconciles
  <2>5. ASSUME NEW v \in RevokedKeys(h), victims = {v}
        PROVE  Reconciles(h)'
    <3>1. v \in Registry(h) /\ v # k
      BY <2>1, <2>5
    <3>2. /\ IsFiniteSet(Registry(h) \ {v})
          /\ Cardinality(Registry(h) \ {v}) = Cardinality(Registry(h)) - 1
      BY <2>2, <3>1, FS_RemoveElement
    <3>3. Cardinality((Registry(h) \ {v}) \cup {k}) = Cardinality(Registry(h) \ {v}) + 1
      BY <2>1, <3>2, FS_AddElement
    <3>4. Registry(h)' = (Registry(h) \ {v}) \cup {k}
      BY <2>1, <2>5
    <3>5. Cardinality(Registry(h)') = Cardinality(Registry(h))
      BY <1>0, <3>2, <3>3, <3>4 DEF Reconciles
    <3>6. QED  BY <1>0, <1>4, <2>3, <2>5, <3>5 DEF Reconciles
  <2>6. QED  BY <1>1, <2>4, <2>5
<1>8. ASSUME NEW g \in Homes \ {h} PROVE Reconciles(g)'
  <2>1. Registry(g)' = Registry(g) /\ ActiveKeys(g)' = ActiveKeys(g)
    BY <1>3 DEF Registry, ActiveKeys
  <2>2. QED  BY <1>3, <2>1 DEF Reconciles, RegistryInv, RegistryReconciles
<1>9. IndexMirrorsRegistry'
  <2> SUFFICES ASSUME NEW j \in KeyIds, NEW g \in Homes
               PROVE  IF index'[j].status # "absent" /\ index'[j].home = g
                      THEN IndexAgrees(g, j)' ELSE key'[g][j].status = "absent"
    BY DEF IndexMirrorsRegistry
  <2>1. CASE j = k
    BY <1>2, <1>3, <1>5, <2>1 DEF IndexAgrees
  <2>2. CASE j # k /\ j \in victims
    <3>1. index'[j].status = "absent"
      BY <1>2, <2>2 DEF NoIndex
    <3>2. key[h][j].status = "revoked" /\ index[j] = [status |-> "revoked", home |-> h]
      BY <1>6, <2>2 DEF IndexAgrees
    <3>3. g # h => key[g][j].status = "absent"
      BY <3>2 DEF RegistryInv, IndexMirrorsRegistry
    <3>4. QED  BY <1>2, <1>3, <2>2, <3>1, <3>3
  <2>3. CASE j # k /\ j \notin victims
    <3>1. key'[g][j] = key[g][j] /\ index'[j] = index[j]
      BY <1>2, <1>3, <2>3
    <3>2. QED  BY <3>1 DEF RegistryInv, IndexMirrorsRegistry, IndexAgrees
  <2>4. QED  BY <2>1, <2>2, <2>3
<1>10. QED  BY <1>7, <1>8, <1>9 DEF RegistryInv, RegistryReconciles

(* Revoking an active key lowers the active count and marks the index. *)
LEMMA RevokedRegistry ==
    ASSUME HomeKeysAssumption, TypeOK, RegistryInv,
           NEW h \in Homes, NEW k \in KeyIds,
           key[h][k].status = "active", index[k].status # "absent",
           key' = [key EXCEPT ![h][k].status = "revoked"],
           index' = [index EXCEPT ![k].status = "revoked"],
           active' = [active EXCEPT ![h] = @ - 1],
           retained' = retained
    PROVE  RegistryInv'
<1>0. IsFiniteSet(KeyIds) /\ MaxActive \in Nat
  BY DEF HomeKeysAssumption
<1>1. /\ key[h][k] \in KeyRecord /\ key[h][k] # NoKey
      /\ index[k] \in IndexRecord
  BY <1>0 DEF TypeOK, NoKey
<1>2. [key[h][k] EXCEPT !.status = "revoked"].status = "revoked"
  BY <1>1 DEF KeyRecord
<1>3. \A g \in Homes, j \in KeyIds : key'[g][j].status =
          IF g = h /\ j = k THEN "revoked" ELSE key[g][j].status
  BY <1>0, <1>2 DEF TypeOK
<1>4. index[k] = [status |-> "active", home |-> h]
  BY <1>0 DEF RegistryInv, IndexMirrorsRegistry, IndexAgrees
<1>5. /\ index'[k] = [status |-> "revoked", home |-> h]
      /\ \A j \in KeyIds \ {k} : index'[j] = index[j]
  BY <1>0, <1>4 DEF TypeOK
<1>6. /\ active'[h] = active[h] - 1 /\ active[h] \in Nat
      /\ \A g \in Homes \ {h} : active'[g] = active[g]
  BY <1>0 DEF TypeOK
<1>7. \A g \in Homes : /\ Registry(g)' = Registry(g)
                       /\ g # h => ActiveKeys(g)' = ActiveKeys(g)
  BY <1>0, <1>3 DEF Registry, ActiveKeys
<1>8. /\ ActiveKeys(h)' = ActiveKeys(h) \ {k} /\ k \in ActiveKeys(h)
      /\ IsFiniteSet(ActiveKeys(h))
  <2>1. ActiveKeys(h)' = ActiveKeys(h) \ {k}
    BY <1>0, <1>3 DEF ActiveKeys
  <2>2. k \in ActiveKeys(h)
    BY <1>0 DEF ActiveKeys
  <2>3. IsFiniteSet(ActiveKeys(h))
    <3>1. ActiveKeys(h) \subseteq KeyIds
      BY DEF ActiveKeys
    <3>2. QED  BY <1>0, <3>1, FS_Subset
  <2>4. QED  BY <2>1, <2>2, <2>3
<1>9. Cardinality(ActiveKeys(h) \ {k}) = Cardinality(ActiveKeys(h)) - 1
  BY <1>8, FS_RemoveElement
<1>10. ASSUME NEW g \in Homes PROVE Reconciles(g)'
  <2>1. Reconciles(g)
    BY DEF RegistryInv, RegistryReconciles
  <2>2. CASE g = h
    <3>1. active[h] = Cardinality(ActiveKeys(h)) /\ active[h] <= MaxActive
      BY <2>1, <2>2 DEF Reconciles
    <3>2. active'[h] = Cardinality(ActiveKeys(h)')
      BY <1>6, <1>8, <1>9, <3>1
    <3>3. active'[h] <= MaxActive
      BY <1>0, <1>6, <3>1
    <3>4. QED  BY <1>0, <1>7, <2>1, <2>2, <3>2, <3>3 DEF Reconciles
  <2>3. CASE g # h
    BY <1>0, <1>6, <1>7, <2>1, <2>3 DEF Reconciles
  <2>4. QED  BY <2>2, <2>3
<1>11. IndexMirrorsRegistry'
  <2> SUFFICES ASSUME NEW j \in KeyIds, NEW g \in Homes
               PROVE  IF index'[j].status # "absent" /\ index'[j].home = g
                      THEN IndexAgrees(g, j)' ELSE key'[g][j].status = "absent"
    BY DEF IndexMirrorsRegistry
  <2>1. CASE j = k /\ g = h
    BY <1>3, <1>5, <2>1 DEF IndexAgrees
  <2>2. CASE j = k /\ g # h
    BY <1>3, <1>4, <1>5, <2>2 DEF RegistryInv, IndexMirrorsRegistry
  <2>3. CASE j # k
    BY <1>3, <1>5, <2>3 DEF RegistryInv, IndexMirrorsRegistry, IndexAgrees
  <2>4. QED  BY <2>1, <2>2, <2>3
<1>12. QED  BY <1>10, <1>11 DEF RegistryInv, RegistryReconciles

(* revokeHomeKey keeps the registry consistent on each of its paths. *)
LEMMA RevokeTxRegistry ==
    ASSUME HomeKeysAssumption, TypeOK, RegistryInv, NEW c \in Calls, RevokeTx(c)
    PROVE  RegistryInv'
<1>0. call[c].home \in Homes /\ call[c].key \in KeyIds /\ retained' = retained
  BY DEF TypeOK, RevokeTx, InTx, CallRecord
<1>1. CASE UNCHANGED <<active, key, index>>
  BY <1>0, <1>1, SameStatuses
<1>2. ASSUME ~UNCHANGED <<active, key, index>>
      PROVE  LET h == call[c].home
                 k == call[c].key
             IN  /\ key[h][k].status = "active" /\ index[k].status # "absent"
                 /\ key' = [key EXCEPT ![h][k].status = "revoked"]
                 /\ index' = [index EXCEPT ![k].status = "revoked"]
                 /\ active' = [active EXCEPT ![h] = @ - 1]
  BY <1>2, Zenon DEF RevokeTx
<1>3. QED  BY <1>0, <1>1, <1>2, RevokedRegistry

(* Recording the last use of a key leaves every status alone. *)
LEMMA ReserveTxRegistry ==
    ASSUME HomeKeysAssumption, TypeOK, RegistryInv, NEW c \in Calls, ReserveTx(c)
    PROVE  RegistryInv'
<1> DEFINE m == call[c].mat
           k == IdOf[m]
           h == index[k].home
<1>1. UNCHANGED <<active, retained, index>>
  BY DEF ReserveTx
<1>2. CASE key' = key
  BY <1>1, <1>2, SameStatuses
<1>3. CASE key' = [key EXCEPT ![h][k].used = call[c].at]
  <2> HIDE DEF h, k
  <2>1. ASSUME NEW g \in Homes, NEW j \in KeyIds
        PROVE  key'[g][j].status = key[g][j].status
    <3>1. key[g][j] \in KeyRecord
      BY DEF TypeOK
    <3>2. [key[g][j] EXCEPT !.used = call[c].at].status = key[g][j].status
      BY <3>1 DEF KeyRecord, NoKey
    <3>3. QED  BY <1>3, <3>2 DEF TypeOK
  <2>2. QED  BY <1>1, <2>1, SameStatuses
<1>4. QED  BY <1>2, <1>3, Zenon DEF ReserveTx

(* The counters of every home reconcile with its documents, and the global *)
(* index mirrors them, in every reachable state.                           *)
THEOREM RegistryCorrect ==
    ASSUME HomeKeysAssumption
    PROVE  Spec => [](RegistryReconciles /\ IndexMirrorsRegistry)
<1>1. Init => RegistryInv
  <2> SUFFICES ASSUME Init PROVE RegistryInv
    OBVIOUS
  <2>1. \A h \in Homes : Registry(h) = {} /\ ActiveKeys(h) = {}
    BY DEF Init, Registry, ActiveKeys, NoKey
  <2>2. RegistryReconciles
    <3>1. Cardinality({}) = 0 /\ MaxActive >= 0 /\ MaxRetained >= 0
      BY FS_EmptySet DEF HomeKeysAssumption
    <3>2. QED  BY <2>1, <3>1 DEF Init, RegistryReconciles, Reconciles
  <2>3. IndexMirrorsRegistry
    BY DEF Init, IndexMirrorsRegistry, NoIndex, NoKey
  <2>4. QED  BY <2>2, <2>3 DEF RegistryInv
<1>2. TypeOK /\ RegistryInv /\ [Next]_vars => RegistryInv'
  <2> SUFFICES ASSUME TypeOK, RegistryInv, [Next]_vars PROVE RegistryInv'
    OBVIOUS
  <2>1. CASE UNCHANGED documents
    BY <2>1, SameStatuses DEF documents
  <2>2. ASSUME NEW c \in Calls, BeginCall(c) PROVE UNCHANGED documents
    BY <2>2, Zenon DEF BeginCall, BeginIssue, BeginCreate, BeginRevoke, BeginRedeem,
                BeginExchange, Begin
  <2>3. ASSUME NEW c \in Calls, IssueTx(c) PROVE RegistryInv'
    BY <2>3, SameStatuses DEF IssueTx
  <2>4. ASSUME NEW c \in Calls, CreateTx(c) PROVE RegistryInv'
    <3>1. CASE UNCHANGED <<active, retained, key, index>>
      BY <3>1, SameStatuses
    <3>2. CASE StoreKey(call[c].home, call[c].mat, call[c].at)
      <4>1. /\ call[c].home \in Homes /\ call[c].mat \in Materials /\ call[c].at \in Nat
        BY <2>4 DEF TypeOK, CreateTx, InTx, CallRecord, CallFields
      <4>2. QED  BY <3>2, <4>1, StoreKeyRegistry
    <3>3. QED  BY <2>4, <3>1, <3>2, Zenon DEF CreateTx
  <2>5. ASSUME NEW c \in Calls, RedeemTx(c) PROVE RegistryInv'
    <3>1. CASE UNCHANGED documents
      BY <3>1, SameStatuses DEF documents
    <3>2. CASE Redeemable(c) /\ StoreKey(code[call[c].code].home, call[c].mat, clock)
      <4>1. /\ call[c].code \in Codes /\ call[c].mat \in Materials /\ clock \in Nat
        BY <2>5 DEF TypeOK, RedeemTx, InTx, CallRecord
      <4>2. code[call[c].code].home \in Homes
        BY <3>2, <4>1 DEF TypeOK, Redeemable, CodeRecord, NoCode
      <4>3. QED  BY <3>2, <4>1, <4>2, StoreKeyRegistry
    <3>3. QED  BY <2>5, <3>1, <3>2, Zenon DEF RedeemTx
  <2>6. ASSUME NEW c \in Calls, RevokeTx(c) \/ ReserveTx(c) PROVE RegistryInv'
    BY <2>6, RevokeTxRegistry, ReserveTxRegistry
  <2>7. QED
    BY <2>1, <2>2, <2>3, <2>4, <2>5, <2>6
       DEF Next, Transaction, Tick, Sign, Abandon, vars
<1>3. QED  BY <1>1, <1>2, TypeCorrect, PTL DEF Spec, RegistryInv

-----------------------------------------------------------------------------
(* What a step may do to a stored key. *)

KeepsActive(h, k) ==
    key[h][k].status = "active" =>
        /\ key'[h][k].status \in {"active", "revoked"}
        /\ key'[h][k].mat = key[h][k].mat

(* A new key takes a free identifier and displaces revoked keys only. *)
LEMMA StoreKeyKeepsActive ==
    ASSUME HomeKeysAssumption, TypeOK,
           NEW g \in Homes, NEW m \in Materials, NEW made \in Nat,
           StoreKey(g, m, made),
           NEW h \in Homes, NEW k \in KeyIds
    PROVE  KeepsActive(h, k)
<1>1. PICK victims : /\ PutKey(g, m, made, victims)
                     /\ \A v \in victims : key[g][v].status = "revoked"
  <2>1. CASE PutKey(g, m, made, {})
    BY <2>1
  <2>2. ASSUME NEW v \in OldestRevoked(g), PutKey(g, m, made, {v})
        PROVE  \E victims : /\ PutKey(g, m, made, victims)
                            /\ \A w \in victims : key[g][w].status = "revoked"
    <3>1. \A w \in {v} : key[g][w].status = "revoked"
      BY DEF OldestRevoked, RevokedKeys
    <3>2. WITNESS {v}
    <3>3. QED  BY <2>2, <3>1
  <2>3. QED  BY <2>1, <2>2, Zenon DEF StoreKey
<1>2. key[g][IdOf[m]].status = "absent"
  BY DEF StoreKey, Verdict, Taken
<1>3. SUFFICES ASSUME key[h][k].status = "active" PROVE key'[h][k] = key[h][k]
  BY DEF KeepsActive
<1>4. CASE h = g
  <2>1. k # IdOf[m] /\ k \notin victims
    BY <1>1, <1>2, <1>3, <1>4
  <2>2. QED  BY <1>1, <1>4, <2>1 DEF PutKey, TypeOK
<1>5. CASE h # g
  BY <1>1, <1>5 DEF PutKey, TypeOK
<1>6. QED  BY <1>4, <1>5

(* Revoking changes the status only, reserving a grant the last use only. *)
LEMMA UpdateKeepsActive ==
    ASSUME TypeOK, NEW g \in Homes, NEW j \in KeyIds, NEW at \in Nat,
           \/ key' = [key EXCEPT ![g][j].status = "revoked"]
           \/ key' = [key EXCEPT ![g][j].used = at],
           NEW h \in Homes, NEW k \in KeyIds
    PROVE  KeepsActive(h, k)
<1> SUFFICES ASSUME key[h][k].status = "active"
             PROVE  /\ key'[h][k].status \in {"active", "revoked"}
                    /\ key'[h][k].mat = key[h][k].mat
  BY DEF KeepsActive
<1>1. key[h][k] \in KeyRecord
  BY DEF TypeOK
<1>2. /\ [key[h][k] EXCEPT !.status = "revoked"].status = "revoked"
      /\ [key[h][k] EXCEPT !.status = "revoked"].mat = key[h][k].mat
      /\ [key[h][k] EXCEPT !.used = at].status = "active"
      /\ [key[h][k] EXCEPT !.used = at].mat = key[h][k].mat
  BY <1>1 DEF KeyRecord, NoKey
<1>3. \/ key'[h][k] = key[h][k]
      \/ key'[h][k] = [key[h][k] EXCEPT !.status = "revoked"]
      \/ key'[h][k] = [key[h][k] EXCEPT !.used = at]
  <2>1. CASE key' = [key EXCEPT ![g][j].status = "revoked"]
    BY <2>1 DEF TypeOK
  <2>2. CASE key' = [key EXCEPT ![g][j].used = at]
    BY <2>2 DEF TypeOK
  <2>3. QED  BY <2>1, <2>2
<1>4. QED  BY <1>2, <1>3

(* No step of any operation, compaction included, removes an active key or *)
(* changes its secret: it stays active or becomes revoked.                 *)
THEOREM ActiveKeysKept ==
    ASSUME HomeKeysAssumption
    PROVE  Spec => ActiveKeyOnlyRevoked
<1>1. TypeOK /\ [Next]_vars => [\A h \in Homes, k \in KeyIds : KeepsActive(h, k)]_vars
  <2> SUFFICES ASSUME TypeOK, Next, NEW h \in Homes, NEW k \in KeyIds
               PROVE  KeepsActive(h, k)
    OBVIOUS
  <2>1. CASE key' = key
    <3>1. key[h][k] \in KeyRecord
      BY DEF TypeOK
    <3>2. QED  BY <2>1, <3>1 DEF KeepsActive
  <2>2. ASSUME NEW c \in Calls, BeginCall(c) PROVE key' = key
    BY <2>2, Zenon DEF BeginCall, BeginIssue, BeginCreate, BeginRevoke, BeginRedeem,
                BeginExchange, Begin, documents
  <2>3. ASSUME NEW c \in Calls, CreateTx(c), key' # key PROVE KeepsActive(h, k)
    <3>1. StoreKey(call[c].home, call[c].mat, call[c].at)
      BY <2>3, Zenon DEF CreateTx
    <3>2. call[c].home \in Homes /\ call[c].mat \in Materials /\ call[c].at \in Nat
      BY <2>3 DEF TypeOK, CreateTx, InTx, CallRecord, CallFields
    <3>3. QED  BY <3>1, <3>2, StoreKeyKeepsActive
  <2>4. ASSUME NEW c \in Calls, RedeemTx(c), key' # key PROVE KeepsActive(h, k)
    <3>1. Redeemable(c) /\ StoreKey(code[call[c].code].home, call[c].mat, clock)
      BY <2>4, Zenon DEF RedeemTx, documents
    <3>2. call[c].code \in Codes /\ call[c].mat \in Materials /\ clock \in Nat
      BY <2>4 DEF TypeOK, RedeemTx, InTx, CallRecord
    <3>3. code[call[c].code].home \in Homes
      BY <3>1, <3>2 DEF TypeOK, Redeemable, CodeRecord, NoCode
    <3>4. QED  BY <3>1, <3>2, <3>3, StoreKeyKeepsActive
  <2>5. ASSUME NEW c \in Calls, RevokeTx(c), key' # key PROVE KeepsActive(h, k)
    <3>1. call[c].home \in Homes /\ call[c].key \in KeyIds
      BY <2>5 DEF TypeOK, RevokeTx, InTx, CallRecord
    <3>2. key' = [key EXCEPT ![call[c].home][call[c].key].status = "revoked"]
      BY <2>5, Zenon DEF RevokeTx
    <3>3. QED  BY <3>1, <3>2, UpdateKeepsActive
  <2>6. ASSUME NEW c \in Calls, ReserveTx(c), key' # key PROVE KeepsActive(h, k)
    <3> DEFINE j == IdOf[call[c].mat]
               g == index[j].home
    <3>1. /\ key' = [key EXCEPT ![g][j].used = call[c].at]
          /\ index[j].status = "active"
      BY <2>6, Zenon DEF ReserveTx, Exchangeable
    <3>2. j \in KeyIds /\ call[c].at \in Nat
      BY <2>6 DEF TypeOK, ReserveTx, InTx, CallRecord, CallFields, HomeKeysAssumption
    <3> HIDE DEF j
    <3>3. g \in Homes
      BY <3>1, <3>2 DEF TypeOK, IndexRecord, NoIndex
    <3>4. QED  BY <3>1, <3>2, <3>3, UpdateKeepsActive
  <2>7. QED
    BY <2>1, <2>2, <2>3, <2>4, <2>5, <2>6
       DEF Next, Transaction, Tick, IssueTx, Sign, Abandon, documents
<1>2. QED
  BY <1>1, TypeCorrect, PTL DEF Spec, ActiveKeyOnlyRevoked, KeepsActive

-----------------------------------------------------------------------------
(* Pairing codes. *)

(* Steps that store nothing by a code and rewrite no code that was used    *)
(* keep one key per code.                                                  *)
LEMMA OneKeyFrame ==
    ASSUME TypeOK, OneKeyPerCode, origin' = origin,
           \A p \in Codes : code[p].status = "redeemed" => code'[p] = code[p]
    PROVE  OneKeyPerCode'
<1>1. \A m \in Materials : origin[m] # None => origin[m] \in Codes
  BY DEF TypeOK
<1>2. QED  BY <1>1 DEF OneKeyPerCode

(* Redeeming a pending code: no key came from it before, and it now names  *)
(* the key stored.                                                         *)
LEMMA RedeemedOnce ==
    ASSUME HomeKeysAssumption, TypeOK, OneKeyPerCode,
           NEW p \in Codes, NEW m \in Materials,
           code[p].status = "pending",
           code' = [code EXCEPT ![p].status = "redeemed", ![p].key = IdOf[m]],
           origin' = [origin EXCEPT ![m] = p]
    PROVE  OneKeyPerCode'
<1>1. code[p] \in CodeRecord /\ IdOf[m] \in KeyIds
  BY DEF TypeOK, HomeKeysAssumption
<1>2. /\ code'[p].status = "redeemed" /\ code'[p].key = IdOf[m]
      /\ \A q \in Codes \ {p} : code'[q] = code[q]
  BY <1>1 DEF TypeOK, CodeRecord, NoCode
<1>3. /\ origin'[m] = p
      /\ \A n \in Materials \ {m} : origin'[n] = origin[n] /\ origin[n] # p
      /\ \A n \in Materials : origin[n] # None => origin[n] \in Codes
  <2>1. origin \in [Materials -> Codes \cup {None}]
    BY DEF TypeOK
  <2>2. origin'[m] = p /\ \A n \in Materials \ {m} : origin'[n] = origin[n]
    BY <2>1
  <2>3. \A n \in Materials : origin[n] # None => origin[n] \in Codes
    BY <2>1
  <2>4. None \notin Codes
    BY DEF HomeKeysAssumption
  <2>5. \A n \in Materials : origin[n] # p
    BY <2>4, Zenon DEF OneKeyPerCode
  <2>6. QED  BY <2>2, <2>3, <2>5
<1>4. SUFFICES ASSUME NEW n \in Materials, origin'[n] # None
               PROVE  /\ code'[origin'[n]].status = "redeemed"
                      /\ code'[origin'[n]].key = IdOf[n]
                      /\ \A l \in Materials : origin'[l] = origin'[n] => l = n
  BY Zenon DEF OneKeyPerCode
<1>5. CASE n = m
  BY <1>2, <1>3, <1>5
<1>6. CASE n # m
  <2>1. origin'[n] = origin[n] /\ origin[n] \in Codes \ {p}
    BY <1>3, <1>4, <1>6
  <2>2. code'[origin[n]] = code[origin[n]]
    BY <1>2, <2>1
  <2>3. QED  BY <1>3, <1>4, <2>1, <2>2 DEF OneKeyPerCode
<1>7. QED  BY <1>5, <1>6

(* However redemptions interleave and whatever acknowledgements are lost,  *)
(* a pairing code stores at most one key, the one it names.                *)
THEOREM CodeRedeemedOnce ==
    ASSUME HomeKeysAssumption
    PROVE  Spec => []OneKeyPerCode
<1>1. Init => OneKeyPerCode
  BY DEF Init, OneKeyPerCode
<1>2. TypeOK /\ OneKeyPerCode /\ [Next]_vars => OneKeyPerCode'
  <2> SUFFICES ASSUME TypeOK, OneKeyPerCode, [Next]_vars PROVE OneKeyPerCode'
    OBVIOUS
  <2>1. CASE UNCHANGED <<code, origin>>
    BY <2>1, OneKeyFrame
  <2>2. ASSUME NEW c \in Calls, BeginCall(c) PROVE UNCHANGED <<code, origin>>
    BY <2>2, Zenon DEF BeginCall, BeginIssue, BeginCreate, BeginRevoke, BeginRedeem,
                BeginExchange, Begin, documents, history
  <2>3. ASSUME NEW c \in Calls, IssueTx(c) PROVE OneKeyPerCode'
    <3>1. origin' = origin /\ call[c].code \in Codes
      BY <2>3 DEF TypeOK, IssueTx, InTx, CallRecord, history
    <3>2. CASE code' = code
      BY <3>1, <3>2, OneKeyFrame
    <3>3. CASE /\ code[call[c].code].status = "absent"
               /\ \E r : code' = [code EXCEPT ![call[c].code] = r]
      <4>1. \A p \in Codes : p # call[c].code => code'[p] = code[p]
        BY <3>1, <3>3 DEF TypeOK
      <4>2. QED  BY <3>1, <3>3, <4>1, OneKeyFrame
    <3>4. \/ /\ code[call[c].code].status = "absent"
             /\ \E r : code' = [code EXCEPT ![call[c].code] = r]
          \/ code' = code
      BY <2>3, Zenon DEF IssueTx
    <3>5. QED  BY <3>2, <3>3, <3>4, Zenon
  <2>4. ASSUME NEW c \in Calls, RedeemTx(c), ~UNCHANGED <<code, origin>>
        PROVE  OneKeyPerCode'
    <3>1. call[c].code \in Codes /\ call[c].mat \in Materials
      BY <2>4 DEF TypeOK, RedeemTx, InTx, CallRecord
    <3>2. /\ Redeemable(c)
          /\ code' = [code EXCEPT ![call[c].code].status = "redeemed",
                                  ![call[c].code].key = IdOf[call[c].mat]]
          /\ origin' = [origin EXCEPT ![call[c].mat] = call[c].code]
      BY <2>4, Zenon DEF RedeemTx, documents, history
    <3>3. QED  BY <3>1, <3>2, RedeemedOnce DEF Redeemable
  <2>5. QED
    BY <2>1, <2>2, <2>3, <2>4
       DEF Next, Transaction, CreateTx, RevokeTx, ReserveTx, Tick, Sign, Abandon,
           vars, documents, history
<1>3. QED  BY <1>1, <1>2, TypeCorrect, PTL DEF Spec

-----------------------------------------------------------------------------
(* Secrets and grants. *)

(* A call that may store a key: it drew the material, nobody was handed    *)
(* it, and no other call has it.                                           *)
Mints(c) == call[c].pc = "tx" /\ call[c].op \in {"create", "redeem"}

MintsInv ==
    /\ handed \subseteq drawn
    /\ \A c \in Calls : Mints(c) => call[c].mat \in drawn \ handed
    /\ \A c, d \in Calls : Mints(c) /\ Mints(d) /\ c # d => call[c].mat # call[d].mat

(* A stored key is under its identifier, an active one was not revoked,    *)
(* and an exchange reads the clock before its transaction.                 *)
GrantInv ==
    /\ \A h \in Homes, k \in KeyIds :
         /\ key[h][k].status # "absent" => IdOf[key[h][k].mat] = k
         /\ key[h][k].status = "active" => deadAt[key[h][k].mat] = 0
    /\ \A c \in Calls : call[c].op = "exchange" => call[c].at <= clock
    /\ GrantPredatesRevocation

(* What a step does to call c, to what is drawn and to what is handed.     *)
Alone(c) == \A d \in Calls \ {c} : call'[d] = call[d]

Answers(c) ==
    /\ \E ans \in {"ok", "denied", "unknown"} : call'[c] = Answered(ans)
    /\ UNCHANGED drawn
    /\ UNCHANGED handed \/ (Mints(c) /\ handed' = handed \cup {call[c].mat})

Asks(c) ==
    /\ call'[c].pc = "tx" /\ call'[c].op \in {"issue", "revoke", "exchange"}
    /\ call'[c].op = "exchange" => call'[c].at = clock
    /\ UNCHANGED <<drawn, handed>>

Draws(c) ==
    /\ call'[c].pc = "tx" /\ call'[c].op \in {"create", "redeem"}
    /\ call'[c].mat \in Materials \ drawn /\ drawn' = drawn \cup {call'[c].mat}
    /\ UNCHANGED handed

Reserves(c) ==
    /\ call[c].pc = "tx" /\ call[c].op = "exchange" /\ Exchangeable(c)
    /\ call'[c] = [call[c] EXCEPT !.pc = "sign"]
    /\ UNCHANGED <<drawn, handed, deadAt>>

Moves(c) == Alone(c) /\ (Answers(c) \/ Asks(c) \/ Draws(c) \/ Reserves(c))
Rests    == UNCHANGED <<call, drawn, handed>>

LEMMA Becomes ==
    ASSUME TypeOK, NEW c \in Calls, NEW r, call' = [call EXCEPT ![c] = r]
    PROVE  call'[c] = r /\ Alone(c)
BY DEF TypeOK, Alone

LEMMA Answering ==
    ASSUME TypeOK, NEW c \in Calls, NEW ans \in {"ok", "denied", "unknown"}, Finish(c, ans),
           UNCHANGED drawn,
           UNCHANGED handed \/ (Mints(c) /\ handed' = handed \cup {call[c].mat})
    PROVE  Moves(c)
<1>1. call'[c] = Answered(ans) /\ Alone(c)
  BY Becomes DEF Finish
<1> QED BY <1>1 DEF Moves, Answers

LEMMA Redrawing ==
    ASSUME TypeOK, NEW c \in Calls, Mints(c), Redraw(c), UNCHANGED handed
    PROVE  Moves(c)
<1>1. CASE Finish(c, "unknown") /\ UNCHANGED drawn
  BY <1>1, Answering
<1>2. ASSUME NEW m \in Materials \ drawn, NEW at, drawn' = drawn \cup {m},
             call' = [call EXCEPT ![c] = Retried(call[c], call[c].code, m, at)]
      PROVE  Moves(c)
  <2>1. call'[c] = Retried(call[c], call[c].code, m, at) /\ Alone(c)
    BY <1>2, Becomes
  <2>2. call'[c].pc = "tx" /\ call'[c].op = call[c].op /\ call'[c].mat = m
    BY <2>1 DEF Retried, Request
  <2> QED BY <1>2, <2>1, <2>2 DEF Moves, Draws, Mints
<1> QED BY <1>1, <1>2, Zenon DEF Redraw

LEMMA Asking ==
    ASSUME TypeOK, NEW c \in Calls, BeginCall(c)
    PROVE  Moves(c)
<1>0. \A r : Begin(c, r) => call' = [call EXCEPT ![c] = r] /\ UNCHANGED handed
  BY DEF Begin, history
<1>1. ASSUME NEW u \in Users, NEW h \in Homes, BeginIssue(c, u, h) PROVE Moves(c)
  <2>1. PICK p \in Codes : /\ Begin(c, Request("issue", u, h, p, None, None, clock))
                           /\ UNCHANGED drawn
    BY <1>1 DEF BeginIssue
  <2>2. call'[c] = Request("issue", u, h, p, None, None, clock) /\ Alone(c)
    BY <1>0, <2>1, Becomes
  <2> QED BY <1>0, <2>1, <2>2 DEF Moves, Asks, Request
<1>2. ASSUME NEW u \in Users, NEW h \in Homes, BeginCreate(c, u, h) PROVE Moves(c)
  <2>1. PICK m \in Materials \ drawn :
          /\ Begin(c, Request("create", u, h, None, m, None, clock))
          /\ drawn' = drawn \cup {m}
    BY <1>2 DEF BeginCreate
  <2>2. call'[c] = Request("create", u, h, None, m, None, clock) /\ Alone(c)
    BY <1>0, <2>1, Becomes
  <2> QED BY <1>0, <2>1, <2>2 DEF Moves, Draws, Request
<1>3. ASSUME NEW u \in Users, NEW h \in Homes, NEW k \in KeyIds, BeginRevoke(c, u, h, k)
      PROVE  Moves(c)
  <2>1. call'[c] = Request("revoke", u, h, None, None, k, 0) /\ Alone(c) /\ UNCHANGED drawn
    BY <1>0, <1>3, Becomes DEF BeginRevoke
  <2> QED BY <1>0, <1>3, <2>1 DEF Moves, Asks, Request, BeginRevoke
<1>4. ASSUME NEW p \in Codes, BeginRedeem(c, p) PROVE Moves(c)
  <2>1. PICK m \in Materials \ drawn :
          /\ Begin(c, Request("redeem", None, None, p, m, None, 0))
          /\ drawn' = drawn \cup {m}
    BY <1>4 DEF BeginRedeem
  <2>2. call'[c] = Request("redeem", None, None, p, m, None, 0) /\ Alone(c)
    BY <1>0, <2>1, Becomes
  <2> QED BY <1>0, <2>1, <2>2 DEF Moves, Draws, Request
<1>5. ASSUME NEW m \in Materials, BeginExchange(c, m) PROVE Moves(c)
  <2>1. /\ call'[c] = Request("exchange", None, None, None, m, None, clock) /\ Alone(c)
        /\ UNCHANGED drawn
    BY <1>0, <1>5, Becomes DEF BeginExchange
  <2> QED BY <1>0, <1>5, <2>1 DEF Moves, Asks, Request, BeginExchange
<1> QED BY <1>1, <1>2, <1>3, <1>4, <1>5 DEF BeginCall

(* The end of a transaction that stored a key. *)
LEMMA Committing ==
    ASSUME TypeOK, NEW c \in Calls, UNCHANGED drawn,
           \/ CommitAcked(c, Answered("ok")) /\ handed' = handed \cup {call[c].mat} /\ Mints(c)
           \/ CommitAcked(c, Answered("ok")) /\ UNCHANGED handed
           \/ CommitUnacked /\ UNCHANGED handed
    PROVE  Moves(c) \/ Rests
<1>1. CASE CommitUnacked /\ UNCHANGED handed
  BY <1>1 DEF CommitUnacked, Rests
<1>2. CASE /\ CommitAcked(c, Answered("ok"))
           /\ UNCHANGED handed \/ (Mints(c) /\ handed' = handed \cup {call[c].mat})
  BY <1>2, Answering DEF CommitAcked, Finish
<1> QED BY <1>1, <1>2

LEMMA TransactionMoves ==
    ASSUME HomeKeysAssumption, TypeOK, NEW c \in Calls, Transaction(c)
    PROVE  Moves(c) \/ Rests
<1>1. CASE CreateTx(c)
  <2> DEFINE h == call[c].home
             m == call[c].mat
  <2>0. Mints(c) /\ RefusalOf(h, m) \in {"ok", "denied", "unknown"}
    BY <1>1 DEF CreateTx, InTx, Mints, RefusalOf
  <2>1. \/ \E ans \in {"ok", "denied", "unknown"} : Finish(c, ans) /\ UNCHANGED <<drawn, handed>>
        \/ Redraw(c) /\ UNCHANGED handed
        \/ Finish(c, "ok") /\ handed' = handed \cup {m} /\ UNCHANGED drawn
        \/ /\ CommitAcked(c, Answered("ok")) /\ handed' = handed \cup {m}
           /\ UNCHANGED drawn
        \/ CommitUnacked /\ UNCHANGED handed /\ UNCHANGED drawn
    BY <1>1, <2>0, Zenon DEF CreateTx
  <2> QED BY <2>0, <2>1, Answering, Redrawing, Committing
<1>2. CASE RedeemTx(c)
  <2> DEFINE h == code[call[c].code].home
             m == call[c].mat
  <2>0. Mints(c) /\ RefusalOf(h, m) \in {"ok", "denied", "unknown"}
    BY <1>2 DEF RedeemTx, InTx, Mints, RefusalOf
  <2>1. \/ \E ans \in {"ok", "denied", "unknown"} : Finish(c, ans) /\ UNCHANGED <<drawn, handed>>
        \/ Redraw(c) /\ UNCHANGED handed
        \/ Finish(c, "ok") /\ handed' = handed \cup {m} /\ UNCHANGED drawn
        \/ /\ CommitAcked(c, Answered("ok")) /\ handed' = handed \cup {m}
           /\ UNCHANGED drawn
        \/ CommitUnacked /\ UNCHANGED handed /\ UNCHANGED drawn
    BY <1>2, <2>0, Zenon DEF RedeemTx, history
  <2> QED BY <2>0, <2>1, Answering, Redrawing, Committing
<1>3. CASE IssueTx(c)
  <2>0. UNCHANGED <<drawn, handed>> /\ call[c].op = "issue"
    BY <1>3 DEF IssueTx, history, InTx
  <2>1. \/ \E ans \in {"ok", "denied", "unknown"} : Finish(c, ans)
        \/ \E q \in Codes : call' = [call EXCEPT ![c] = Retried(call[c], q, None, call[c].at)]
        \/ CommitAcked(c, Answered("ok")) \/ CommitUnacked
    BY <1>3, Zenon DEF IssueTx
  <2>2. ASSUME NEW q \in Codes,
               call' = [call EXCEPT ![c] = Retried(call[c], q, None, call[c].at)]
        PROVE  Moves(c)
    <3>1. call'[c] = Retried(call[c], q, None, call[c].at) /\ Alone(c)
      BY <2>2, Becomes
    <3>2. call'[c].pc = "tx" /\ call'[c].op = "issue"
      BY <2>0, <3>1 DEF Retried, Request
    <3> QED BY <2>0, <3>1, <3>2 DEF Moves, Asks
  <2> QED BY <2>0, <2>1, <2>2, Answering, Committing
<1>4. CASE RevokeTx(c)
  <2>0. UNCHANGED <<drawn, handed>>
    BY <1>4 DEF RevokeTx
  <2>1. \/ \E ans \in {"ok", "denied", "unknown"} : Finish(c, ans)
        \/ CommitAcked(c, Answered("ok")) \/ CommitUnacked
    BY <1>4, Zenon DEF RevokeTx
  <2> QED BY <2>0, <2>1, Answering, Committing
<1>5. CASE ReserveTx(c)
  <2>0. UNCHANGED <<drawn, handed, deadAt>> /\ call[c].pc = "tx" /\ call[c].op = "exchange"
    BY <1>5 DEF ReserveTx, history, InTx
  <2>1. \/ \E ans \in {"ok", "denied", "unknown"} : Finish(c, ans)
        \/ Exchangeable(c) /\ CommitAcked(c, [call[c] EXCEPT !.pc = "sign"])
        \/ CommitUnacked
    BY <1>5, Zenon DEF ReserveTx
  <2>2. CASE Exchangeable(c) /\ CommitAcked(c, [call[c] EXCEPT !.pc = "sign"])
    <3>1. call'[c] = [call[c] EXCEPT !.pc = "sign"] /\ Alone(c)
      BY <2>2, Becomes DEF CommitAcked
    <3> QED BY <2>0, <2>2, <3>1 DEF Moves, Reserves
  <2>3. CASE CommitUnacked
    BY <2>0, <2>3 DEF CommitUnacked, Rests
  <2> QED BY <2>0, <2>1, <2>2, <2>3, Answering
<1> QED BY <1>1, <1>2, <1>3, <1>4, <1>5 DEF Transaction

LEMMA CallMoves ==
    ASSUME HomeKeysAssumption, TypeOK, Next
    PROVE  Rests \/ \E c \in Calls : Moves(c)
<1>1. CASE Tick
  BY <1>1 DEF Tick, Rests, history
<1>2. ASSUME NEW c \in Calls, Sign(c) \/ Abandon(c) PROVE Moves(c)
  <2>1. PICK ans \in {"ok", "denied", "unknown"} : Finish(c, ans)
    BY <1>2 DEF Sign, Abandon
  <2> QED BY <1>2, <2>1, Answering DEF Sign, Abandon, history
<1> QED BY <1>1, <1>2, Asking, TransactionMoves DEF Next

LEMMA MintsNext ==
    ASSUME HomeKeysAssumption, TypeOK, MintsInv, Next
    PROVE  MintsInv'
<1>1. CASE Rests
  BY <1>1 DEF Rests, MintsInv, Mints
<1>2. ASSUME NEW c \in Calls, Moves(c) PROVE MintsInv'
  <2>1. \A d \in Calls \ {c} : (Mints(d)' <=> Mints(d)) /\ call'[d] = call[d]
    BY <1>2 DEF Moves, Alone, Mints
  <2>2. CASE Answers(c)
    <3>1. ~Mints(c)'
      BY <2>2 DEF Answers, Answered, Mints
    <3> QED BY <2>1, <2>2, <3>1 DEF MintsInv, Answers
  <2>3. CASE Asks(c)
    <3>1. ~Mints(c)'
      BY <2>3 DEF Asks, Mints
    <3> QED BY <2>1, <2>3, <3>1 DEF MintsInv, Asks
  <2>4. CASE Draws(c)
    BY <2>1, <2>4 DEF MintsInv, Draws
  <2>5. CASE Reserves(c)
    <3>1. call[c] \in CallRecord
      BY DEF TypeOK
    <3>2. ~Mints(c)'
      BY <2>5, <3>1 DEF Reserves, Mints, CallRecord, CallFields
    <3> QED BY <2>1, <2>5, <3>2 DEF MintsInv, Reserves
  <2> QED BY <1>2, <2>2, <2>3, <2>4, <2>5 DEF Moves
<1> QED BY <1>1, <1>2, CallMoves

(* The material of a call that may store a key is drawn, known to no other *)
(* such call and to no caller.                                             *)
THEOREM SecretsDrawnOnce ==
    ASSUME HomeKeysAssumption
    PROVE  Spec => []MintsInv
<1>1. Init => MintsInv
  BY DEF Init, MintsInv, Mints, Answered
<1>2. TypeOK /\ MintsInv /\ [Next]_vars => MintsInv'
  <2>1. ASSUME MintsInv, UNCHANGED vars PROVE MintsInv'
    BY <2>1 DEF MintsInv, Mints, vars, history
  <2> QED BY <2>1, MintsNext
<1> QED BY <1>1, <1>2, TypeCorrect, PTL DEF Spec

(* What a step does to the key documents and to the time of revocation.    *)
Leaves == UNCHANGED <<key, deadAt>>

Stores(c, h) ==
    /\ Mints(c)
    /\ \E made \in Nat : StoreKey(h, call[c].mat, made)

Revokes(h, k) ==
    /\ key[h][k].status = "active"
    /\ key' = [key EXCEPT ![h][k].status = "revoked"]
    /\ deadAt' = [deadAt EXCEPT ![key[h][k].mat] = clock]

Uses(h, k) ==
    /\ \E at \in Nat : key' = [key EXCEPT ![h][k].used = at]
    /\ UNCHANGED deadAt

KeyStep ==
    \/ Leaves
    \/ \E c \in Calls, h \in Homes : Stores(c, h)
    \/ \E h \in Homes, k \in KeyIds : Revokes(h, k) \/ Uses(h, k)

LEMMA NextIsKeyStep ==
    ASSUME HomeKeysAssumption, TypeOK, Next
    PROVE  KeyStep
<1>1. CASE Tick
  BY <1>1 DEF Tick, KeyStep, Leaves, documents, history
<1>2. ASSUME NEW c \in Calls, BeginCall(c) PROVE Leaves
  <2>1. \A r : Begin(c, r) => Leaves
    BY DEF Begin, Leaves, documents, history
  <2> QED BY <1>2, <2>1, Zenon DEF BeginCall, BeginIssue, BeginCreate, BeginRevoke,
                BeginRedeem, BeginExchange
<1>3. ASSUME NEW c \in Calls, Sign(c) \/ Abandon(c) PROVE Leaves
  BY <1>3 DEF Sign, Abandon, Leaves, documents, history
<1>4. ASSUME NEW c \in Calls, IssueTx(c) PROVE Leaves
  BY <1>4 DEF IssueTx, Leaves, history
<1>5. ASSUME NEW c \in Calls, CreateTx(c), ~Leaves PROVE KeyStep
  <2>1. Mints(c) /\ call[c].home \in Homes /\ call[c].at \in Nat
    BY <1>5 DEF TypeOK, CreateTx, InTx, CallRecord, CallFields, Mints
  <2>2. StoreKey(call[c].home, call[c].mat, call[c].at)
    BY <1>5, Zenon DEF CreateTx, Leaves
  <2> QED BY <2>1, <2>2, Zenon DEF KeyStep, Stores
<1>6. ASSUME NEW c \in Calls, RedeemTx(c), ~Leaves PROVE KeyStep
  <2> DEFINE p == call[c].code
  <2>1. Mints(c) /\ p \in Codes /\ clock \in Nat
    BY <1>6 DEF TypeOK, RedeemTx, InTx, CallRecord, CallFields, Mints
  <2>2. Redeemable(c) /\ StoreKey(code[p].home, call[c].mat, clock)
    BY <1>6, Zenon DEF RedeemTx, Leaves, documents, history
  <2>3. code[p].home \in Homes
    BY <2>1, <2>2 DEF TypeOK, Redeemable, CodeRecord, NoCode
  <2> QED BY <2>1, <2>2, <2>3, Zenon DEF KeyStep, Stores
<1>7. ASSUME NEW c \in Calls, RevokeTx(c), ~Leaves PROVE KeyStep
  <2>1. call[c].home \in Homes /\ call[c].key \in KeyIds
    BY <1>7 DEF TypeOK, RevokeTx, InTx, CallRecord
  <2>2. Revokes(call[c].home, call[c].key)
    BY <1>7, Zenon DEF RevokeTx, Leaves, Revokes
  <2> QED BY <2>1, <2>2, Zenon DEF KeyStep
<1>8. ASSUME NEW c \in Calls, ReserveTx(c), ~Leaves PROVE KeyStep
  <2> DEFINE j == IdOf[call[c].mat]
             g == index[j].home
  <2>1. /\ key' = [key EXCEPT ![g][j].used = call[c].at]
        /\ index[j].status = "active" /\ UNCHANGED deadAt
    BY <1>8, Zenon DEF ReserveTx, Exchangeable, Leaves, history
  <2>2. j \in KeyIds /\ call[c].at \in Nat
    BY <1>8 DEF TypeOK, ReserveTx, InTx, CallRecord, CallFields, HomeKeysAssumption
  <2>3. g \in Homes
    <3> HIDE DEF j
    <3> QED BY <2>1, <2>2 DEF TypeOK, IndexRecord, NoIndex
  <2>4. Uses(g, j)
    BY <2>1, <2>2, Zenon DEF Uses
  <2> QED BY <2>2, <2>3, <2>4, Zenon DEF KeyStep
<1> QED BY <1>1, <1>2, <1>3, <1>4, <1>5, <1>6, <1>7, <1>8, Zenon
        DEF Next, Transaction, KeyStep

(* A stored key is the new one under its own identifier; nothing else      *)
(* appears in any registry.                                                *)
LEMMA StoredKey ==
    ASSUME HomeKeysAssumption, TypeOK,
           NEW h \in Homes, NEW m \in Materials, NEW made \in Nat,
           StoreKey(h, m, made), NEW g \in Homes, NEW j \in KeyIds
    PROVE  \/ key'[g][j] = key[g][j]
           \/ key'[g][j].status = "absent"
           \/ key'[g][j].status = "active" /\ key'[g][j].mat = m /\ j = IdOf[m]
<1>1. PICK victims : PutKey(h, m, made, victims)
  BY Zenon DEF StoreKey
<1>2. key'[h][j] = IF j = IdOf[m]
                   THEN [status |-> "active", mat |-> m, made |-> made, used |-> 0]
                   ELSE IF j \in victims THEN NoKey ELSE key[h][j]
  BY <1>1 DEF PutKey, TypeOK
<1>3. g # h => key'[g] = key[g]
  BY <1>1 DEF PutKey, TypeOK
<1> QED BY <1>2, <1>3 DEF NoKey

LEMMA StoredDeath ==
    ASSUME TypeOK, NEW h \in Homes, NEW m \in Materials, NEW made \in Nat,
           StoreKey(h, m, made), NEW n \in Materials
    PROVE  deadAt'[n] = IF n = m THEN 0 ELSE deadAt[n]
<1>1. deadAt' = [deadAt EXCEPT ![m] = 0]
  BY Zenon DEF StoreKey, PutKey
<1> QED BY <1>1 DEF TypeOK

LEMMA UsedKey ==
    ASSUME TypeOK, NEW h \in Homes, NEW k \in KeyIds, Uses(h, k),
           NEW g \in Homes, NEW j \in KeyIds
    PROVE  key'[g][j].status = key[g][j].status /\ key'[g][j].mat = key[g][j].mat
<1>1. PICK at \in Nat : key' = [key EXCEPT ![h][k].used = at]
  BY DEF Uses
<1>2. key[g][j] \in KeyRecord
  BY DEF TypeOK
<1>3. /\ [key[g][j] EXCEPT !.used = at].status = key[g][j].status
      /\ [key[g][j] EXCEPT !.used = at].mat = key[g][j].mat
  BY <1>2 DEF KeyRecord, NoKey
<1>4. key'[g][j] = key[g][j] \/ key'[g][j] = [key[g][j] EXCEPT !.used = at]
  BY <1>1 DEF TypeOK
<1> QED BY <1>3, <1>4

LEMMA RevokedKey ==
    ASSUME TypeOK, NEW h \in Homes, NEW k \in KeyIds, Revokes(h, k),
           NEW g \in Homes, NEW j \in KeyIds
    PROVE  IF g = h /\ j = k
           THEN key'[g][j].status = "revoked" /\ key'[g][j].mat = key[g][j].mat
           ELSE key'[g][j] = key[g][j]
<1>1. key[h][k] \in KeyRecord
  BY DEF TypeOK
<1>2. /\ [key[h][k] EXCEPT !.status = "revoked"].status = "revoked"
      /\ [key[h][k] EXCEPT !.status = "revoked"].mat = key[h][k].mat
  BY <1>1 DEF KeyRecord, NoKey
<1>3. key' = [key EXCEPT ![h][k].status = "revoked"]
  BY DEF Revokes
<1> QED BY <1>2, <1>3 DEF TypeOK

NotRevived(h, k) ==
    key'[h][k].status = "active" /\ key[h][k] # key'[h][k]
        /\ key[h][k].status # "active"
    => key'[h][k].mat \notin handed

(* No step activates a key whose secret some response already carried:     *)
(* createHomeKey and redeemPairingCode store only what they drew and have  *)
(* told nobody yet.                                                        *)
THEOREM HandedNeverRevived ==
    ASSUME HomeKeysAssumption
    PROVE  Spec => HandedSecretNeverRevived
<1>1. ASSUME TypeOK, MintsInv, Next, NEW h \in Homes, NEW k \in KeyIds
      PROVE  NotRevived(h, k)
  <2>1. CASE Leaves
    BY <2>1 DEF Leaves, NotRevived
  <2>2. ASSUME NEW c \in Calls, NEW g \in Homes, Stores(c, g) PROVE NotRevived(h, k)
    <3>1. call[c].mat \in Materials \ handed
      BY <1>1, <2>2 DEF Stores, MintsInv, TypeOK
    <3>2. PICK made \in Nat : StoreKey(g, call[c].mat, made)
      BY <2>2 DEF Stores
    <3> QED BY <1>1, <3>1, <3>2, StoredKey DEF NotRevived
  <2>3. ASSUME NEW g \in Homes, NEW j \in KeyIds, Revokes(g, j) PROVE NotRevived(h, k)
    BY <1>1, <2>3, RevokedKey DEF NotRevived
  <2>4. ASSUME NEW g \in Homes, NEW j \in KeyIds, Uses(g, j) PROVE NotRevived(h, k)
    BY <1>1, <2>4, UsedKey DEF NotRevived
  <2> QED BY <1>1, <2>1, <2>2, <2>3, <2>4, NextIsKeyStep DEF KeyStep
<1>2. TypeOK /\ MintsInv /\ [Next]_vars =>
        [\A h \in Homes, k \in KeyIds : NotRevived(h, k)]_vars
  BY <1>1
<1> QED BY <1>2, TypeCorrect, SecretsDrawnOnce, PTL
        DEF Spec, HandedSecretNeverRevived, NotRevived

(* The part of GrantInv about stored keys.                                 *)
LivesWell(h, k) ==
    /\ key[h][k].status # "absent" => IdOf[key[h][k].mat] = k
    /\ key[h][k].status = "active" => deadAt[key[h][k].mat] = 0

LEMMA KeysLiveWell ==
    ASSUME HomeKeysAssumption, TypeOK, RegistryInv, KeyStep,
           \A h \in Homes, k \in KeyIds : LivesWell(h, k),
           NEW g \in Homes, NEW j \in KeyIds
    PROVE  LivesWell(g, j)'
<1>0. LivesWell(g, j) /\ key[g][j] \in KeyRecord
  BY DEF TypeOK
<1>a. key[g][j].status # "absent" => key[g][j].mat \in Materials
  BY <1>0 DEF KeyRecord, NoKey
<1>1. CASE Leaves
  BY <1>0, <1>1 DEF Leaves, LivesWell
<1>2. ASSUME NEW c \in Calls, NEW h \in Homes, Stores(c, h) PROVE LivesWell(g, j)'
  <2>1. call[c].mat \in Materials
    BY <1>2 DEF Stores, Mints, TypeOK, CallRecord
  <2>2. PICK m \in Materials, made \in Nat : StoreKey(h, m, made)
    BY <1>2, <2>1 DEF Stores
  <2>3. \A n \in Materials : deadAt'[n] = IF n = m THEN 0 ELSE deadAt[n]
    BY <2>2, StoredDeath
  <2>4. \/ key'[g][j] = key[g][j]
        \/ key'[g][j].status = "absent"
        \/ key'[g][j].status = "active" /\ key'[g][j].mat = m /\ j = IdOf[m]
    BY <2>2, StoredKey
  <2> QED BY <1>0, <1>a, <2>3, <2>4 DEF LivesWell
<1>3. ASSUME NEW h \in Homes, NEW k \in KeyIds, Uses(h, k) PROVE LivesWell(g, j)'
  <2>1. deadAt' = deadAt
    BY <1>3 DEF Uses
  <2> QED BY <1>0, <1>3, <2>1, UsedKey DEF LivesWell
<1>4. ASSUME NEW h \in Homes, NEW k \in KeyIds, Revokes(h, k) PROVE LivesWell(g, j)'
  <2>1. IF g = h /\ j = k
        THEN key'[g][j].status = "revoked" /\ key'[g][j].mat = key[g][j].mat
        ELSE key'[g][j] = key[g][j]
    BY <1>4, RevokedKey
  <2>2. key[h][k].status = "active" /\ IdOf[key[h][k].mat] = k
    BY <1>4 DEF Revokes, LivesWell
  <2>3. CASE g = h /\ j = k
    BY <1>0, <2>1, <2>2, <2>3 DEF LivesWell
  <2>4. CASE (g # h \/ j # k) /\ key[g][j].status = "active"
    <3>1. key[g][j].mat # key[h][k].mat
      <4>1. CASE j # k
        BY <1>0, <2>2, <2>4, <4>1 DEF LivesWell
      <4>2. CASE j = k /\ g # h
        BY <2>2, <2>4, <4>2 DEF RegistryInv, IndexMirrorsRegistry
      <4> QED BY <2>4, <4>1, <4>2
    <3>2. deadAt' = [deadAt EXCEPT ![key[h][k].mat] = clock]
      BY <1>4 DEF Revokes
    <3>3. deadAt'[key[g][j].mat] = deadAt[key[g][j].mat]
      BY <1>a, <2>4, <3>1, <3>2 DEF TypeOK
    <3> QED BY <1>0, <2>1, <2>4, <3>3 DEF LivesWell
  <2>5. CASE (g # h \/ j # k) /\ key[g][j].status # "active"
    BY <1>0, <2>1, <2>5 DEF LivesWell
  <2> QED BY <2>3, <2>4, <2>5
<1> QED BY <1>1, <1>2, <1>3, <1>4 DEF KeyStep

(* A key dies now, comes to life, or neither.                              *)
LEMMA DeathIsNow ==
    ASSUME HomeKeysAssumption, TypeOK, KeyStep, NEW n \in Materials
    PROVE  deadAt'[n] \in {deadAt[n], 0, clock}
<1>1. CASE Leaves
  BY <1>1 DEF Leaves
<1>2. ASSUME NEW c \in Calls, NEW h \in Homes, Stores(c, h)
      PROVE  deadAt'[n] \in {deadAt[n], 0}
  <2>1. call[c].mat \in Materials
    BY <1>2 DEF Stores, Mints, TypeOK, CallRecord
  <2> QED BY <1>2, <2>1, StoredDeath DEF Stores
<1>3. ASSUME NEW h \in Homes, NEW k \in KeyIds, Uses(h, k)
      PROVE  deadAt'[n] = deadAt[n]
  BY <1>3 DEF Uses
<1>4. ASSUME NEW h \in Homes, NEW k \in KeyIds, Revokes(h, k)
      PROVE  deadAt'[n] \in {deadAt[n], clock}
  BY <1>4 DEF Revokes, TypeOK
<1> QED BY <1>1, <1>2, <1>3, <1>4 DEF KeyStep

(* What becomes of a call: it is as it was, or it was reserved in this     *)
(* step, or it has nothing to do with an exchange, or asks for one now.    *)
LEMMA ExchangeMoves ==
    ASSUME HomeKeysAssumption, TypeOK, Next, NEW d \in Calls
    PROVE  \/ call'[d] = call[d]
           \/ Reserves(d)
           \/ Asks(d)
           \/ call'[d].pc # "sign" /\ call'[d].op # "exchange"
<1>1. CASE Rests
  BY <1>1 DEF Rests
<1>2. ASSUME NEW c \in Calls, Moves(c), d # c PROVE call'[d] = call[d]
  BY <1>2 DEF Moves, Alone
<1>3. ASSUME Answers(d) \/ Draws(d)
      PROVE  call'[d].pc # "sign" /\ call'[d].op # "exchange"
  BY <1>3 DEF Answers, Draws, Answered
<1> QED BY <1>1, <1>2, <1>3, CallMoves DEF Moves

LEMMA ClockAdvances ==
    ASSUME TypeOK, Next
    PROVE  clock <= clock' /\ clock \in Nat /\ clock' \in Nat
<1>1. clock \in Nat
  BY DEF TypeOK
<1>2. clock' = clock + 1 \/ clock' = clock
  <2>1. ASSUME NEW c \in Calls, BeginCall(c) PROVE clock' = clock
    BY <2>1, Zenon DEF BeginCall, BeginIssue, BeginCreate, BeginRevoke, BeginRedeem,
                BeginExchange, Begin
  <2> QED BY <2>1, Zenon DEF Next, Tick, Transaction, IssueTx, CreateTx, RedeemTx,
                RevokeTx, ReserveTx, Sign, Abandon
<1> QED BY <1>1, <1>2

LEMMA GrantNext ==
    ASSUME HomeKeysAssumption, TypeOK, RegistryInv, GrantInv, Next
    PROVE  GrantInv'
<1>0. KeyStep /\ clock <= clock' /\ clock \in Nat /\ clock' \in Nat
  BY NextIsKeyStep, ClockAdvances
<1>1. \A h \in Homes, k \in KeyIds : LivesWell(h, k)
  BY DEF GrantInv, LivesWell
<1>2. \A h \in Homes, k \in KeyIds : LivesWell(h, k)'
  BY <1>0, <1>1, KeysLiveWell
<1>3. ASSUME NEW d \in Calls, call'[d].op = "exchange" PROVE call'[d].at <= clock'
  <2>1. call[d] \in CallRecord /\ call[d].at \in Nat
    BY DEF TypeOK, CallRecord, CallFields
  <2>2. CASE call'[d] = call[d]
    BY <1>0, <1>3, <2>1, <2>2 DEF GrantInv
  <2>3. CASE Reserves(d)
    <3>1. call'[d].at = call[d].at /\ call[d].op = "exchange"
      BY <2>1, <2>3 DEF Reserves, CallRecord, CallFields
    <3> QED BY <1>0, <2>1, <3>1 DEF GrantInv
  <2>4. CASE Asks(d)
    BY <1>0, <1>3, <2>4 DEF Asks
  <2> QED BY <1>3, <2>2, <2>3, <2>4, ExchangeMoves
<1>4. ASSUME NEW d \in Calls, call'[d].pc = "sign", deadAt'[call'[d].mat] # 0
      PROVE  call'[d].at <= deadAt'[call'[d].mat]
  <2>1. call[d] \in CallRecord /\ call[d].at \in Nat
    BY DEF TypeOK, CallRecord, CallFields
  <2>2. CASE call'[d] = call[d]
    <3>1. call[d].op = "exchange" /\ call[d].mat \in Materials /\ call[d].pc = "sign"
      BY <1>4, <2>1, <2>2 DEF CallRecord
    <3>2. deadAt'[call[d].mat] \in {deadAt[call[d].mat], 0, clock}
      BY <1>0, <3>1, DeathIsNow
    <3>3. call[d].at <= clock
      BY <3>1 DEF GrantInv
    <3>4. deadAt[call[d].mat] # 0 => call[d].at <= deadAt[call[d].mat]
      BY <3>1 DEF GrantInv, GrantPredatesRevocation
    <3> QED BY <1>4, <2>2, <3>2, <3>3, <3>4
  <2>3. CASE Reserves(d)
    <3> DEFINE m == call[d].mat
    <3>1. call'[d].mat = m /\ m \in Materials /\ IdOf[m] \in KeyIds
      BY <2>1, <2>3 DEF Reserves, CallRecord, CallFields, HomeKeysAssumption
    <3>2. /\ index[IdOf[m]].status = "active"
          /\ key[index[IdOf[m]].home][IdOf[m]].status = "active"
          /\ key[index[IdOf[m]].home][IdOf[m]].mat = m
      BY <2>3, Zenon DEF Reserves, Exchangeable
    <3>3. index[IdOf[m]].home \in Homes
      BY <3>1, <3>2 DEF TypeOK, IndexRecord, NoIndex
    <3>4. deadAt[m] = 0
      BY <1>1, <3>1, <3>2, <3>3 DEF LivesWell
    <3> QED BY <1>4, <2>3, <3>1, <3>4 DEF Reserves
  <2>4. CASE Asks(d)
    BY <1>4, <2>4 DEF Asks
  <2> QED BY <1>4, <2>2, <2>3, <2>4, ExchangeMoves
<1> QED BY <1>2, <1>3, <1>4 DEF GrantInv, GrantPredatesRevocation, LivesWell

(* The global index and the registries of the homes always agree.          *)
THEOREM IndexMirrors ==
    ASSUME HomeKeysAssumption
    PROVE  Spec => []IndexMirrorsRegistry
BY RegistryCorrect, PTL

(* A grant that waits for its signature after its key was revoked was      *)
(* issued no later than the revocation.                                    *)
THEOREM GrantsPredateRevocation ==
    ASSUME HomeKeysAssumption
    PROVE  Spec => []GrantPredatesRevocation
<1>1. Init => GrantInv
  BY DEF Init, GrantInv, GrantPredatesRevocation, Answered, NoKey
<1>2. TypeOK /\ RegistryInv /\ GrantInv /\ [Next]_vars => GrantInv'
  <2>1. ASSUME GrantInv, UNCHANGED vars PROVE GrantInv'
    BY <2>1 DEF GrantInv, GrantPredatesRevocation, vars, documents, history
  <2> QED BY <2>1, GrantNext
<1>3. Spec => []RegistryInv
  BY RegistryCorrect DEF RegistryInv
<1>4. GrantInv => GrantPredatesRevocation
  BY DEF GrantInv
<1> QED BY <1>1, <1>2, <1>3, <1>4, TypeCorrect, PTL DEF Spec
=============================================================================
