------------------------- MODULE PublicationProofs -------------------------
(* Proofs of the safety properties of ComponentPublication and of the      *)
(* refinement of PublishedInterface, for any homes, publishers, uploads,   *)
(* capabilities and calls.                                                 *)
EXTENDS ComponentPublication, TLAPS

-----------------------------------------------------------------------------
(* The inductive invariant. *)

(* Bytes are staged only for an upload whose capability was consumed. *)
StagedOnceReserved ==
    \A u \in Uploads : upload[u].status \in {"absent", "awaiting"} => staging[u] = None

(* A finalization that was begun has verified the bytes and stored them.   *)
FinalizesVerified ==
    \A c \in Calls : call[c].pc = "finalize" =>
        /\ upload[call[c].up].status \in {"reserved", "delivered", "finalized"}
        /\ Verified(call[c].up) /\ staging[call[c].up] \in artifacts

(* An activation moves the pointer forward. *)
ActivatesForward ==
    \A c \in Calls : call[c].pc = "activate" =>
        call[c].expected < call[c].gen /\ call[c].gen \in 0..MaxGeneration

(* An issuance never hands out a capability that it did not draw. *)
IssuesDrawn ==
    \A c \in Calls : call[c].pc = "issue" => call[c].token \in drawn

-----------------------------------------------------------------------------
(* Records. *)

LEMMA Uploaded ==
    ASSUME NEW r \in UploadRecord
    PROVE  /\ r.status \in {"absent", "awaiting", "reserved", "delivered", "finalized"}
           /\ r = NoUpload <=> r.status = "absent"
           /\ r.status # "absent" =>
                /\ r.binding \in Bindings /\ r.token \in Tokens
                /\ r.created \in Nat /\ r.consumed \in Nat
                /\ r.delivered \in Nat /\ r.finalized \in Nat
BY DEF UploadRecord, NoUpload

LEMMA UploadSteps ==
    ASSUME NEW r \in UploadRecord, r.status # "absent", NEW at \in Nat
    PROVE  /\ Reserved(r, at) \in UploadRecord /\ Reserved(r, at).status = "reserved"
           /\ Reserved(r, at).binding = r.binding
           /\ Marked(r, at) \in UploadRecord /\ Marked(r, at).status = "delivered"
           /\ Marked(r, at).binding = r.binding
<1>1. r \in [status: {"awaiting", "reserved", "delivered", "finalized"}, binding: Bindings,
             token: Tokens, created: Nat, consumed: Nat, delivered: Nat, finalized: Nat]
  BY DEF UploadRecord, NoUpload
<1>2. /\ Reserved(r, at) \in UploadRecord /\ Reserved(r, at).status = "reserved"
      /\ Reserved(r, at).binding = r.binding
  BY <1>1 DEF Reserved, UploadRecord
<1>3. /\ Marked(r, at) \in UploadRecord /\ Marked(r, at).status = "delivered"
      /\ Marked(r, at).binding = r.binding
  BY <1>1 DEF Marked, UploadRecord
<1> QED BY <1>2, <1>3

LEMMA FinalizedType ==
    ASSUME NEW r \in UploadRecord, r.status # "absent", NEW at \in Nat
    PROVE  /\ Finalized(r, at) \in UploadRecord /\ Finalized(r, at).status = "finalized"
           /\ Finalized(r, at).binding = r.binding
<1>1. r \in [status: {"awaiting", "reserved", "delivered", "finalized"}, binding: Bindings,
             token: Tokens, created: Nat, consumed: Nat, delivered: Nat, finalized: Nat]
  BY DEF UploadRecord, NoUpload
<1>2. CASE r.status = "finalized"
  BY <1>2 DEF Finalized
<1>3. CASE r.status # "finalized"
  <2> DEFINE x == IF r.delivered = 0 THEN at ELSE r.delivered
  <2>1. x \in Nat
    BY <1>1
  <2>2. Finalized(r, at) = [r EXCEPT !.status = "finalized", !.finalized = at,
                                     !.delivered = x]
    BY <1>3 DEF Finalized
  <2> HIDE DEF x
  <2> QED BY <1>1, <2>1, <2>2 DEF UploadRecord
<1> QED BY <1>2, <1>3

LEMMA CallTypes ==
    ASSUME NEW r \in CallRecord
    PROVE  /\ r.pc = "issue" =>
                /\ r.pub \in Publishers /\ r.input \in Inputs /\ r.token \in Tokens
                /\ r.tries \in Nat /\ r.at \in Nat
           /\ r.pc = "reserve" => r.token \in Tokens /\ r.digest \in Digests /\ r.at \in Nat
           /\ r.pc \in {"stage", "staged"} => r.up \in Uploads /\ r.digest \in Digests
           /\ r.pc \in {"mark", "finalize"} => r.up \in Uploads /\ r.at \in Nat
           /\ r.pc = "activate" =>
                /\ r.pub \in Publishers /\ r.digest \in Digests
                /\ r.expected \in Nat /\ r.gen \in Nat
BY DEF CallRecord, Answers
(* The fields that an answered or a waiting call does not have are never   *)
(* read: a step that only moves such a call leaves the documents' promises *)
(* alone.                                                                  *)
Taken(u) == upload[u].status \in {"reserved", "delivered", "finalized"}

Harmless(r) ==
    /\ r \in CallRecord
    /\ r.pc \notin {"stage", "finalize"}
    /\ r.pc = "activate" => r.expected < r.gen /\ r.gen \in 0..MaxGeneration

IInv ==
    /\ TypeOK
    /\ StagedOnceReserved /\ FinalizedMatchesRelease /\ PointerServes
    /\ SingleDelivery /\ FinalizesVerified /\ ActivatesForward /\ IssuesDrawn

LEMMA AnswersAreCalls ==
    \A ans \in Answers : Harmless([pc |-> ans])
BY DEF Harmless, CallRecord, Answers

LEMMA Answered ==
    ASSUME TypeOK, NEW c \in Calls, NEW ans \in Answers, Answer(c, ans)
    PROVE  /\ call' = [call EXCEPT ![c] = [pc |-> ans]]
           /\ lostAcks' = lostAcks /\ Harmless([pc |-> ans])
BY AnswersAreCalls DEF Answer

(* A step that gives call c the record r. *)
LEMMA Moved ==
    ASSUME TypeOK, NEW c \in Calls, NEW r \in CallRecord,
           call' = [call EXCEPT ![c] = r]
    PROVE  /\ call' \in [Calls -> CallRecord] /\ call'[c] = r
           /\ \A b \in Calls \ {c} : call'[b] = call[b]
BY DEF TypeOK

LEMMA Committed ==
    ASSUME TypeOK, NEW c \in Calls, NEW r \in CallRecord, Commit(c, r)
    PROVE  /\ call' \in [Calls -> CallRecord] /\ lostAcks' \in Nat
           /\ call'[c] \in {call[c], r}
           /\ \A b \in Calls \ {c} : call'[b] = call[b]
<1>1. CASE call' = [call EXCEPT ![c] = r] /\ lostAcks' = lostAcks
  BY <1>1, Moved DEF TypeOK
<1>2. CASE lostAcks > 0 /\ lostAcks' = lostAcks - 1 /\ call' = call
  BY <1>2 DEF TypeOK
<1> QED BY <1>1, <1>2 DEF Commit

(* What the calls rely on survives a step that only advances uploads. *)
LEMMA CallsKeep ==
    ASSUME IInv, call' \in [Calls -> CallRecord],
           staging' = staging, artifacts' = artifacts,
           \A u \in Uploads : Taken(u) => Taken(u)' /\ upload'[u].binding = upload[u].binding,
           \A b \in Calls : call'[b] = call[b] \/ Harmless(call'[b])
    PROVE  SingleDelivery' /\ FinalizesVerified' /\ ActivatesForward'
<1>1. \A b \in Calls : call'[b].pc \in {"stage", "finalize"} => call'[b] = call[b]
  BY DEF Harmless
<1>2. \A b \in Calls : call'[b].pc \in {"stage", "finalize"} => call'[b].up \in Uploads
  BY CallTypes
<1>3. \A u \in Uploads : upload[u].status \in {"absent", "awaiting", "reserved",
                                               "delivered", "finalized"}
  BY Uploaded DEF IInv, TypeOK
<1>4. SingleDelivery'
  <2>1. ASSUME NEW b \in Calls, call'[b].pc = "stage"
        PROVE  /\ staging'[call'[b].up] = None
               /\ upload'[call'[b].up].status \notin {"absent", "awaiting"}
    BY <2>1, <1>1, <1>2, <1>3 DEF IInv, SingleDelivery, Taken
  <2>2. ASSUME NEW b \in Calls, call'[b].pc = "stage",
               NEW d \in Calls, call'[d].pc = "stage", call'[d].up = call'[b].up
        PROVE  d = b
    BY <2>2, <1>1 DEF IInv, SingleDelivery
  <2> QED BY <2>1, <2>2 DEF SingleDelivery
<1>5. FinalizesVerified'
  <2> SUFFICES ASSUME NEW b \in Calls, call'[b].pc = "finalize"
               PROVE  /\ upload'[call'[b].up].status \in {"reserved", "delivered", "finalized"}
                      /\ staging'[call'[b].up] = DigestOf[upload'[call'[b].up].binding.input]
                      /\ staging'[call'[b].up] \in artifacts'
    BY DEF FinalizesVerified, Verified
  <2>1. call'[b] = call[b] /\ call[b].up \in Uploads /\ call[b].pc = "finalize"
    BY <1>1, <1>2
  <2>2. /\ Taken(call[b].up) /\ Verified(call[b].up) /\ staging[call[b].up] \in artifacts
    BY <2>1 DEF IInv, FinalizesVerified, Taken
  <2> QED BY <2>1, <2>2 DEF Verified, Taken
<1>6. ActivatesForward'
  <2> SUFFICES ASSUME NEW b \in Calls, call'[b].pc = "activate"
               PROVE  call'[b].expected < call'[b].gen /\ call'[b].gen \in 0..MaxGeneration
    BY DEF ActivatesForward
  <2>1. CASE call'[b] = call[b]
    BY <2>1 DEF IInv, ActivatesForward
  <2>2. CASE Harmless(call'[b])
    BY <2>2 DEF Harmless
  <2> QED BY <2>1, <2>2
<1> QED BY <1>4, <1>5, <1>6

(* A step that touches no document and leaves call c in a harmless record. *)
LEMMA HarmlessKeeps ==
    ASSUME IInv, NEW c \in Calls, NEW r, Harmless(r),
           call' = [call EXCEPT ![c] = r], UNCHANGED documents,
           clock' = clock, lostAcks' \in Nat,
           drawn \subseteq drawn', drawn' \subseteq Tokens, handed' \subseteq drawn',
           r.pc = "issue" => r.token \in drawn'
    PROVE  IInv'
<1>1. /\ upload' = upload /\ staging' = staging /\ artifacts' = artifacts
      /\ published' = published /\ release' = release /\ pointer' = pointer
      /\ quarantined' = quarantined
  BY DEF documents
<1>2. /\ call' \in [Calls -> CallRecord]
      /\ \A b \in Calls : call'[b] = call[b] \/ Harmless(call'[b])
  BY Moved DEF Harmless, IInv
<1>3. TypeOK'
  BY <1>1, <1>2 DEF IInv, TypeOK
<1>4. \A u \in Uploads : Taken(u) => Taken(u)' /\ upload'[u].binding = upload[u].binding
  BY <1>1 DEF Taken
<1>5. SingleDelivery' /\ FinalizesVerified' /\ ActivatesForward'
  BY <1>1, <1>2, <1>4, CallsKeep
<1>6. StagedOnceReserved' /\ FinalizedMatchesRelease' /\ PointerServes'
  BY <1>1 DEF IInv, StagedOnceReserved, FinalizedMatchesRelease, PointerServes, Verified
<1>7. IssuesDrawn'
  <2> SUFFICES ASSUME NEW b \in Calls, call'[b].pc = "issue"
               PROVE  call'[b].token \in drawn'
    BY DEF IssuesDrawn
  <2>1. CASE b = c
    BY <2>1, Moved DEF Harmless, IInv
  <2>2. CASE b # c
    BY <2>2, Moved DEF Harmless, IInv, IssuesDrawn
  <2> QED BY <2>1, <2>2
<1> QED BY <1>3, <1>5, <1>6, <1>7 DEF IInv

LEMMA AnswerKeeps ==
    ASSUME IInv, NEW c \in Calls, NEW ans \in Answers, Answer(c, ans), UNCHANGED documents,
           clock' = clock, drawn' = drawn, handed' \subseteq drawn
    PROVE  IInv'
BY Answered, HarmlessKeeps DEF IInv, TypeOK, Answers

-----------------------------------------------------------------------------
(* The steps. *)

LEMMA BeginsKeep ==
    ASSUME IInv, NEW c \in Calls,
           \/ \E p \in Publishers, i \in Inputs : BeginIssue(c, p, i)
           \/ \E t \in Tokens, d \in Digests : BeginDeliver(c, t, d)
           \/ \E p \in Publishers, u \in Uploads : BeginInspect(c, p, u)
           \/ \E p \in Publishers, d \in Digests, e, g \in 0..MaxGeneration :
                BeginActivate(c, p, d, e, g)
    PROVE  IInv'
<1>0. clock \in Nat /\ drawn \subseteq Tokens /\ handed \subseteq drawn /\ lostAcks \in Nat
  BY DEF IInv, TypeOK
<1>1. ASSUME NEW p \in Publishers, NEW i \in Inputs, BeginIssue(c, p, i)
      PROVE  IInv'
  <2>1. PICK t \in Tokens \ drawn :
            /\ Begin(c, [pc |-> "issue", pub |-> p, input |-> i, token |-> t,
                         tries |-> 1, at |-> clock])
            /\ drawn' = drawn \cup {t}
            /\ UNCHANGED <<clock, documents, handed, lostAcks>>
    BY <1>1 DEF BeginIssue
  <2>2. PICK r : r = [pc |-> "issue", pub |-> p, input |-> i, token |-> t,
                      tries |-> 1, at |-> clock]
    OBVIOUS
  <2>3. Harmless(r)
    BY <1>0, <2>2 DEF Harmless, CallRecord
  <2>4. r.token = t
    BY <2>2
  <2> QED BY <1>0, <2>1, <2>2, <2>3, <2>4, HarmlessKeeps DEF Begin
<1>2. ASSUME NEW t \in Tokens, NEW d \in Digests, BeginDeliver(c, t, d)
      PROVE  IInv'
  <2>1. PICK r : r = [pc |-> "reserve", token |-> t, digest |-> d, at |-> clock]
    OBVIOUS
  <2>2. Harmless(r)
    BY <1>0, <2>1 DEF Harmless, CallRecord
  <2> QED BY <1>0, <1>2, <2>1, <2>2, HarmlessKeeps DEF BeginDeliver, Begin
<1>3. ASSUME NEW p \in Publishers, NEW u \in Uploads, BeginInspect(c, p, u)
      PROVE  IInv'
  <2>1. PICK r : r = [pc |-> "mark", up |-> u, at |-> clock]
    OBVIOUS
  <2>2. Harmless(r)
    BY <1>0, <2>1 DEF Harmless, CallRecord
  <2> QED BY <1>0, <1>3, <2>1, <2>2, HarmlessKeeps DEF BeginInspect, Begin
<1>4. ASSUME NEW p \in Publishers, NEW d \in Digests, NEW e \in 0..MaxGeneration,
             NEW g \in 0..MaxGeneration, BeginActivate(c, p, d, e, g)
      PROVE  IInv'
  <2>1. PICK r : r = [pc |-> "activate", pub |-> p, digest |-> d, expected |-> e, gen |-> g]
    OBVIOUS
  <2>2. Harmless(r)
    BY <1>4, <2>1, PublicationAssumption DEF BeginActivate, Harmless, CallRecord
  <2> QED BY <1>0, <1>4, <2>1, <2>2, HarmlessKeeps DEF BeginActivate, Begin
<1> QED BY <1>1, <1>2, <1>3, <1>4

LEMMA StartMarkKeeps ==
    ASSUME IInv, NEW c \in Calls, StartMark(c)
    PROVE  IInv'
<1>0. clock \in Nat /\ drawn \subseteq Tokens /\ handed \subseteq drawn /\ lostAcks \in Nat
  BY DEF IInv, TypeOK
<1>1. PICK r : r = [pc |-> "mark", up |-> call[c].up, at |-> clock]
  OBVIOUS
<1>2. call[c] \in CallRecord /\ call[c].pc = "staged"
  BY DEF IInv, TypeOK, StartMark
<1>3. call[c].up \in Uploads
  BY <1>2, CallTypes
<1>4. Harmless(r)
  BY <1>0, <1>1, <1>3 DEF Harmless, CallRecord
<1> QED BY <1>0, <1>1, <1>4, HarmlessKeeps DEF StartMark

LEMMA AbandonKeeps ==
    ASSUME IInv, NEW c \in Calls, Abandon(c)
    PROVE  IInv'
<1>1. drawn \subseteq Tokens /\ handed \subseteq drawn
  BY DEF IInv, TypeOK
<1> QED BY <1>1, AnswerKeeps DEF Abandon, Answers

LEMMA TickKeeps ==
    ASSUME IInv, Tick
    PROVE  IInv'
<1>1. /\ upload' = upload /\ staging' = staging /\ artifacts' = artifacts
      /\ published' = published /\ release' = release /\ pointer' = pointer
      /\ quarantined' = quarantined /\ call' = call /\ drawn' = drawn
      /\ handed' = handed /\ lostAcks' = lostAcks /\ clock' = clock + 1
  BY DEF Tick, documents
<1>2. clock \in Nat \ {0}
  BY DEF IInv, TypeOK
<1>3. clock' \in Nat \ {0}
  BY <1>1, <1>2
<1>4. TypeOK'
  BY <1>1, <1>3 DEF IInv, TypeOK
<1>5. /\ StagedOnceReserved' /\ FinalizedMatchesRelease' /\ PointerServes'
      /\ SingleDelivery' /\ FinalizesVerified' /\ ActivatesForward' /\ IssuesDrawn'
  BY <1>1 DEF IInv, StagedOnceReserved, FinalizedMatchesRelease, PointerServes,
     SingleDelivery, FinalizesVerified, ActivatesForward, IssuesDrawn, Verified
<1> QED BY <1>4, <1>5 DEF IInv

LEMMA QuarantineKeeps ==
    ASSUME IInv, NEW d \in Suspects, QuarantineDigest(d)
    PROVE  IInv'
<1>1. /\ upload' = upload /\ staging' = staging /\ artifacts' = artifacts
      /\ published' = published /\ release' = release /\ pointer' = pointer
      /\ call' = call /\ drawn' = drawn /\ clock' = clock
      /\ handed' = handed /\ lostAcks' = lostAcks /\ quarantined' = quarantined \cup {d}
  BY DEF QuarantineDigest
<1>2. TypeOK'
  BY <1>1, PublicationAssumption DEF IInv, TypeOK
<1>3. /\ StagedOnceReserved' /\ FinalizedMatchesRelease' /\ PointerServes'
      /\ SingleDelivery' /\ FinalizesVerified' /\ ActivatesForward' /\ IssuesDrawn'
  BY <1>1 DEF IInv, StagedOnceReserved, FinalizedMatchesRelease, PointerServes,
     SingleDelivery, FinalizesVerified, ActivatesForward, IssuesDrawn, Verified
<1> QED BY <1>2, <1>3 DEF IInv

(* A step that advances upload u, and at most stages no bytes and finalizes*)
(* nothing.                                                                *)
LEMMA UploadKeeps ==
    ASSUME IInv, NEW c \in Calls, NEW u \in Uploads, NEW r \in UploadRecord,
           upload' = [upload EXCEPT ![u] = r], r.status # "finalized",
           \/ upload[u] = NoUpload /\ r.status = "awaiting"
           \/ /\ upload[u].status \in {"awaiting", "reserved"}
              /\ r.status \in {"reserved", "delivered"}
              /\ r.binding = upload[u].binding,
           UNCHANGED <<staging, artifacts, published, release, pointer, quarantined, drawn>>
    PROVE  /\ upload' \in [Uploads -> UploadRecord]
           /\ StagedOnceReserved' /\ FinalizedMatchesRelease' /\ PointerServes'
           /\ \A v \in Uploads : Taken(v) => Taken(v)' /\ upload'[v].binding = upload[v].binding
<1>1. upload \in [Uploads -> UploadRecord]
  BY DEF IInv, TypeOK
<1>2. /\ upload' \in [Uploads -> UploadRecord] /\ upload'[u] = r
      /\ \A v \in Uploads \ {u} : upload'[v] = upload[v]
  BY <1>1
<1>3. upload[u].status \in {"absent", "awaiting", "reserved"}
  BY DEF NoUpload
<1>4. r.status \in {"awaiting", "reserved", "delivered"}
  OBVIOUS
<1>5. StagedOnceReserved'
  <2> SUFFICES ASSUME NEW v \in Uploads, upload'[v].status \in {"absent", "awaiting"}
               PROVE  staging'[v] = None
    BY DEF StagedOnceReserved
  <2>1. upload[v].status \in {"absent", "awaiting"}
    BY <1>2 DEF NoUpload
  <2> QED BY <2>1 DEF IInv, StagedOnceReserved
<1>6. FinalizedMatchesRelease'
  <2> SUFFICES ASSUME NEW v \in Uploads, upload'[v].status = "finalized"
               PROVE  /\ release'[HomeOf[upload'[v].binding.pub]][DigestOf[upload'[v].binding.input]]
                           = upload'[v].binding
                      /\ staging'[v] = DigestOf[upload'[v].binding.input]
    BY DEF FinalizedMatchesRelease, Verified
  <2>1. v # u
    BY <1>2
  <2>2. upload'[v] = upload[v]
    BY <1>2, <2>1
  <2> QED BY <2>2 DEF IInv, FinalizedMatchesRelease, Verified
<1>7. PointerServes'
  BY DEF IInv, PointerServes
<1>8. ASSUME NEW v \in Uploads, Taken(v)
      PROVE  Taken(v)' /\ upload'[v].binding = upload[v].binding
  BY <1>2, <1>8 DEF Taken, NoUpload
<1> QED BY <1>2, <1>5, <1>6, <1>7, <1>8

LEMMA IssueKeeps ==
    ASSUME IInv, NEW c \in Calls, IssueTx(c)
    PROVE  IInv'
<1>0. PICK r, u : r = call[c] /\ u = UploadOf[call[c].token]
  OBVIOUS
<1>1. /\ r \in CallRecord /\ r.pc = "issue"
      /\ clock' = clock /\ staging' = staging /\ artifacts' = artifacts
      /\ published' = published /\ release' = release /\ pointer' = pointer
      /\ quarantined' = quarantined
  BY <1>0 DEF IssueTx, IInv, TypeOK
<1>2. /\ r.pub \in Publishers /\ r.input \in Inputs /\ r.token \in Tokens
      /\ r.tries \in Nat /\ r.at \in Nat
  BY <1>1, CallTypes
<1>3. u \in Uploads
  BY <1>0, <1>2, PublicationAssumption
<1>4. /\ clock \in Nat \ {0} /\ drawn \subseteq Tokens /\ handed \subseteq drawn
      /\ lostAcks \in Nat /\ upload \in [Uploads -> UploadRecord]
  BY DEF IInv, TypeOK
<1>9. r.token \in drawn
  BY <1>0, <1>1 DEF IInv, IssuesDrawn
<1>5. CASE r.pub \notin Authorized /\ Answer(c, "denied") /\ UNCHANGED <<upload, drawn, handed>>
  BY <1>1, <1>4, <1>5, AnswerKeeps DEF Answers, documents
<1>6. CASE /\ upload[u] = NewUpload(r) /\ Answer(c, "ok")
           /\ handed' = handed \cup {r.token} /\ UNCHANGED <<upload, drawn>>
  BY <1>1, <1>4, <1>6, <1>9, AnswerKeeps DEF Answers, documents
<1>7. CASE /\ IF Elsewhere(r.pub, u) \/ Readable(upload[u]) THEN Redraw(c)
              ELSE Answer(c, "unknown") /\ UNCHANGED drawn
           /\ UNCHANGED <<upload, handed>>
  <2>1. CASE Answer(c, "unknown") /\ UNCHANGED drawn
    BY <1>1, <1>4, <1>7, <2>1, AnswerKeeps DEF Answers, documents
  <2>2. ASSUME NEW t \in Tokens \ drawn,
               call' = [call EXCEPT ![c] = [@ EXCEPT !.token = t, !.tries = call[c].tries + 1]],
               drawn' = drawn \cup {t}, lostAcks' = lostAcks
        PROVE  IInv'
    <3>0. PICK k \in Nat : k = r.tries + 1
      BY <1>2
    <3>1. PICK n : n = [r EXCEPT !.token = t, !.tries = k]
      OBVIOUS
    <3>2. r \in [pc: {"issue"}, pub: Publishers, input: Inputs, token: Tokens,
                 tries: Nat, at: Nat]
      BY <1>1 DEF CallRecord, Answers
    <3>3. n \in [pc: {"issue"}, pub: Publishers, input: Inputs, token: Tokens,
                  tries: Nat, at: Nat]
      BY <3>1, <3>2
    <3>4. Harmless(n)
      BY <3>3 DEF Harmless, CallRecord
    <3>5. call' = [call EXCEPT ![c] = n]
      BY <1>0, <2>2, <3>0, <3>1
    <3>6. n.token \in drawn'
      BY <2>2, <3>1, <3>2
    <3> QED BY <1>1, <1>4, <1>7, <2>2, <3>4, <3>5, <3>6, HarmlessKeeps DEF documents
  <2> QED BY <1>7, <2>1, <2>2 DEF Redraw
<1>8. CASE /\ upload[u] = NoUpload /\ upload' = [upload EXCEPT ![u] = NewUpload(r)]
           /\ Commit(c, [pc |-> "ok"]) /\ drawn' = drawn
           /\ handed' \subseteq handed \cup {r.token}
  <2>1. PICK n : n = NewUpload(r)
    OBVIOUS
  <2>2. n \in UploadRecord /\ n.status = "awaiting"
    BY <1>2, <2>1 DEF NewUpload, UploadRecord, Bindings
  <2>3. [pc |-> "ok"] \in CallRecord /\ Harmless([pc |-> "ok"])
    BY AnswersAreCalls DEF Harmless, Answers
  <2>4. /\ call' \in [Calls -> CallRecord] /\ lostAcks' \in Nat
        /\ \A b \in Calls : call'[b] = call[b] \/ Harmless(call'[b])
    BY <1>8, <2>3, Committed DEF IInv
  <2>5. /\ upload' \in [Uploads -> UploadRecord]
        /\ StagedOnceReserved' /\ FinalizedMatchesRelease' /\ PointerServes'
        /\ \A v \in Uploads : Taken(v) => Taken(v)' /\ upload'[v].binding = upload[v].binding
    BY <1>1, <1>3, <1>8, <2>1, <2>2, UploadKeeps
  <2>6. SingleDelivery' /\ FinalizesVerified' /\ ActivatesForward'
    BY <1>1, <2>4, <2>5, CallsKeep
  <2>7. TypeOK'
    BY <1>1, <1>4, <1>8, <1>9, <2>4, <2>5 DEF IInv, TypeOK
  <2>8. IssuesDrawn'
    BY <1>8, <2>3, Committed DEF IInv, IssuesDrawn
  <2> QED BY <2>5, <2>6, <2>7, <2>8 DEF IInv
<1> QED BY <1>0, <1>5, <1>6, <1>7, <1>8 DEF IssueTx

LEMMA ReserveKeeps ==
    ASSUME IInv, NEW c \in Calls, ReserveTx(c)
    PROVE  IInv'
<1>0. PICK r, u : r = call[c] /\ u = UploadOf[call[c].token]
  OBVIOUS
<1>1. /\ r \in CallRecord /\ r.pc = "reserve"
      /\ clock' = clock /\ staging' = staging /\ artifacts' = artifacts
      /\ published' = published /\ release' = release /\ pointer' = pointer
      /\ quarantined' = quarantined /\ drawn' = drawn /\ handed' = handed
  BY <1>0 DEF ReserveTx, IInv, TypeOK
<1>2. r.token \in Tokens /\ r.digest \in Digests /\ r.at \in Nat
  BY <1>1, CallTypes
<1>3. u \in Uploads
  BY <1>0, <1>2, PublicationAssumption
<1>4. /\ clock \in Nat \ {0} /\ drawn \subseteq Tokens /\ handed \subseteq drawn
      /\ lostAcks \in Nat /\ upload \in [Uploads -> UploadRecord]
  BY DEF IInv, TypeOK
<1>5. CASE /\ Answer(c, IF Readable(upload[u]) THEN "denied" ELSE "unknown")
           /\ UNCHANGED upload
  BY <1>1, <1>4, <1>5, AnswerKeeps DEF Answers, documents
<1>6. CASE /\ Reservable(c) /\ upload' = [upload EXCEPT ![u] = Reserved(upload[u], r.at)]
           /\ Commit(c, [pc |-> "stage", up |-> u, digest |-> r.digest])
  <2>1. PICK n, s : n = Reserved(upload[u], r.at) /\ s = [pc |-> "stage", up |-> u, digest |-> r.digest]
    OBVIOUS
  <2>2. upload[u].status = "awaiting" /\ upload[u] \in UploadRecord
    BY <1>0, <1>3, <1>4, <1>6 DEF Reservable
  <2>3. n \in UploadRecord /\ n.status = "reserved" /\ n.binding = upload[u].binding
    BY <1>2, <2>1, <2>2, UploadSteps
  <2>4. s \in CallRecord
    BY <1>2, <1>3, <2>1 DEF CallRecord
  <2>5. /\ call' \in [Calls -> CallRecord] /\ lostAcks' \in Nat
        /\ call'[c] \in {r, s}
        /\ \A b \in Calls \ {c} : call'[b] = call[b]
    BY <1>0, <1>6, <2>1, <2>4, Committed DEF IInv
  <2>6. /\ upload' \in [Uploads -> UploadRecord]
        /\ StagedOnceReserved' /\ FinalizedMatchesRelease' /\ PointerServes'
        /\ \A v \in Uploads : Taken(v) => Taken(v)' /\ upload'[v].binding = upload[v].binding
    BY <1>1, <1>3, <1>6, <2>1, <2>2, <2>3, UploadKeeps
  <2>7. upload'[u] = n /\ staging[u] = None
    BY <1>3, <1>4, <1>6, <2>1, <2>2 DEF IInv, StagedOnceReserved
  <2>8. \A b \in Calls : call[b].pc = "stage" => call[b].up # u
    BY <2>2 DEF IInv, SingleDelivery
  <2>9. SingleDelivery'
    <3>1. ASSUME NEW b \in Calls, call'[b].pc = "stage"
          PROVE  /\ staging'[call'[b].up] = None
                 /\ upload'[call'[b].up].status \notin {"absent", "awaiting"}
                 /\ call'[b].up = u => b = c
      <4>1. CASE b = c
        <5>1. call'[b] = s
          BY <1>1, <2>1, <2>5, <3>1, <4>1
        <5> QED BY <1>1, <2>1, <2>3, <2>7, <4>1, <5>1
      <4>2. CASE b # c
        <5>1. call'[b] = call[b] /\ call[b].pc = "stage"
          BY <2>5, <3>1, <4>2
        <5>2. call[b].up \in Uploads
          BY <5>1, CallTypes DEF IInv, TypeOK
        <5>3. call[b].up # u /\ upload'[call[b].up] = upload[call[b].up]
          BY <1>3, <1>4, <1>6, <2>8, <5>1, <5>2
        <5> QED BY <1>1, <5>1, <5>3 DEF IInv, SingleDelivery
      <4> QED BY <4>1, <4>2
    <3>2. ASSUME NEW b \in Calls, call'[b].pc = "stage",
                 NEW d \in Calls, call'[d].pc = "stage", call'[d].up = call'[b].up
          PROVE  d = b
      <4>1. CASE call'[b].up = u
        BY <3>1, <3>2, <4>1
      <4>2. CASE call'[b].up # u
        <5>1. b # c /\ d # c
          BY <1>1, <2>1, <2>5, <3>2, <4>2
        <5>2. call'[b] = call[b] /\ call'[d] = call[d]
          BY <2>5, <5>1
        <5> QED BY <3>2, <5>2 DEF IInv, SingleDelivery
      <4> QED BY <4>1, <4>2
    <3> QED BY <3>1, <3>2 DEF SingleDelivery
  <2>10. \A b \in Calls : call'[b].pc \in {"finalize", "activate"} => call'[b] = call[b]
    BY <1>0, <1>1, <2>1, <2>5
  <2>11. FinalizesVerified'
    <3> SUFFICES ASSUME NEW b \in Calls, call'[b].pc = "finalize"
                 PROVE  /\ upload'[call'[b].up].status \in {"reserved", "delivered", "finalized"}
                        /\ staging'[call'[b].up] = DigestOf[upload'[call'[b].up].binding.input]
                        /\ staging'[call'[b].up] \in artifacts'
      BY DEF FinalizesVerified, Verified
    <3>1. call'[b] = call[b] /\ call[b].pc = "finalize"
      BY <2>10
    <3>2. call[b].up \in Uploads
      BY <3>1, CallTypes DEF IInv, TypeOK
    <3>3. PICK v \in Uploads : v = call[b].up
      BY <3>2
    <3>4. Taken(v) /\ Verified(v) /\ staging[v] \in artifacts
      BY <3>1, <3>3 DEF IInv, FinalizesVerified, Taken
    <3>5. upload'[v].status \in {"reserved", "delivered", "finalized"}
          /\ upload'[v].binding = upload[v].binding
      BY <2>6, <3>4 DEF Taken
    <3> QED BY <1>1, <3>1, <3>3, <3>4, <3>5 DEF Verified
  <2>12. ActivatesForward'
    BY <2>10 DEF IInv, ActivatesForward
  <2>13. TypeOK'
    BY <1>1, <1>4, <2>5, <2>6 DEF IInv, TypeOK
  <2>14. IssuesDrawn'
    BY <1>0, <1>1, <2>1, <2>5 DEF IInv, IssuesDrawn
  <2> QED BY <2>6, <2>9, <2>11, <2>12, <2>13, <2>14 DEF IInv
<1> QED BY <1>0, <1>5, <1>6 DEF ReserveTx

LEMMA MarkKeeps ==
    ASSUME IInv, NEW c \in Calls, MarkTx(c)
    PROVE  IInv'
<1>0. PICK r, u : r = call[c] /\ u = call[c].up
  OBVIOUS
<1>1. /\ r \in CallRecord /\ r.pc = "mark"
      /\ clock' = clock /\ staging' = staging /\ artifacts' = artifacts
      /\ published' = published /\ release' = release /\ pointer' = pointer
      /\ quarantined' = quarantined /\ drawn' = drawn /\ handed' = handed
  BY <1>0 DEF MarkTx, IInv, TypeOK
<1>2. u \in Uploads /\ r.at \in Nat
  BY <1>0, <1>1, CallTypes
<1>3. /\ clock \in Nat \ {0} /\ drawn \subseteq Tokens /\ handed \subseteq drawn
      /\ lostAcks \in Nat /\ upload \in [Uploads -> UploadRecord]
  BY DEF IInv, TypeOK
<1>4. CASE /\ Answer(c, IF Readable(upload[u]) /\ upload[u].status # "awaiting"
                        THEN "ok" ELSE "unknown")
           /\ UNCHANGED upload
  BY <1>1, <1>3, <1>4, AnswerKeeps DEF Answers, documents
<1>5. CASE /\ upload[u].status = "reserved"
           /\ upload' = [upload EXCEPT ![u] = Marked(upload[u], r.at)]
           /\ Commit(c, [pc |-> "ok"])
  <2>1. PICK n : n = Marked(upload[u], r.at)
    OBVIOUS
  <2>2. n \in UploadRecord /\ n.status = "delivered" /\ n.binding = upload[u].binding
    BY <1>2, <1>3, <1>5, <2>1, UploadSteps
  <2>3. [pc |-> "ok"] \in CallRecord /\ Harmless([pc |-> "ok"])
    BY AnswersAreCalls DEF Harmless, Answers
  <2>4. /\ call' \in [Calls -> CallRecord] /\ lostAcks' \in Nat
        /\ \A b \in Calls : call'[b] = call[b] \/ Harmless(call'[b])
    BY <1>5, <2>3, Committed DEF IInv
  <2>5. /\ upload' \in [Uploads -> UploadRecord]
        /\ StagedOnceReserved' /\ FinalizedMatchesRelease' /\ PointerServes'
        /\ \A v \in Uploads : Taken(v) => Taken(v)' /\ upload'[v].binding = upload[v].binding
    BY <1>1, <1>2, <1>5, <2>1, <2>2, UploadKeeps
  <2>6. SingleDelivery' /\ FinalizesVerified' /\ ActivatesForward'
    BY <1>1, <2>4, <2>5, CallsKeep
  <2>7. TypeOK'
    BY <1>1, <1>3, <2>4, <2>5 DEF IInv, TypeOK
  <2>8. IssuesDrawn'
    BY <1>1, <1>5, <2>3, Committed DEF IInv, IssuesDrawn
  <2> QED BY <2>5, <2>6, <2>7, <2>8 DEF IInv
<1> QED BY <1>0, <1>4, <1>5 DEF MarkTx

LEMMA WriteKeeps ==
    ASSUME IInv, NEW c \in Calls, WriteStaging(c)
    PROVE  IInv'
<1>0. PICK u, d : u = call[c].up /\ d = call[c].digest
  OBVIOUS
<1>1. /\ call[c] \in CallRecord /\ call[c].pc = "stage"
      /\ clock' = clock /\ upload' = upload /\ artifacts' = artifacts
      /\ published' = published /\ release' = release /\ pointer' = pointer
      /\ quarantined' = quarantined /\ drawn' = drawn /\ handed' = handed
  BY DEF WriteStaging, IInv, TypeOK
<1>2. u \in Uploads /\ d \in Digests
  BY <1>0, <1>1, CallTypes
<1>3. /\ clock \in Nat \ {0} /\ drawn \subseteq Tokens /\ handed \subseteq drawn
      /\ lostAcks \in Nat /\ staging \in [Uploads -> Digests \cup {None}]
  BY DEF IInv, TypeOK
<1>4. CASE Answer(c, "denied") /\ UNCHANGED staging
  BY <1>1, <1>3, <1>4, AnswerKeeps DEF Answers, documents
<1>5. CASE /\ staging' = [staging EXCEPT ![u] = d] /\ lostAcks' = lostAcks
           /\ call' = [call EXCEPT ![c] = [pc |-> "staged", up |-> u, digest |-> d]]
  <2>1. PICK r : r = [pc |-> "staged", up |-> u, digest |-> d]
    OBVIOUS
  <2>2. r \in CallRecord /\ r.pc = "staged"
    BY <1>2, <2>1 DEF CallRecord
  <2>3. /\ call' \in [Calls -> CallRecord] /\ call'[c] = r
        /\ \A b \in Calls \ {c} : call'[b] = call[b]
    BY <1>5, <2>1, <2>2, Moved DEF IInv
  <2>4. staging[u] = None /\ upload[u].status \notin {"absent", "awaiting"}
    BY <1>0, <1>1 DEF IInv, SingleDelivery
  <2>5. /\ staging' \in [Uploads -> Digests \cup {None}] /\ staging'[u] = d
        /\ \A v \in Uploads \ {u} : staging'[v] = staging[v]
    BY <1>2, <1>3, <1>5
  <2>6. \A b \in Calls : call'[b].pc \in {"stage", "finalize", "activate", "issue"} =>
            b # c /\ call'[b] = call[b]
    BY <2>2, <2>3
  <2>7. ASSUME NEW v \in Uploads, Verified(v)
        PROVE  staging'[v] = staging[v] /\ v # u
    <3>1. CASE v = u /\ upload[u].binding \in Bindings
      BY <2>4, <2>7, <3>1, PublicationAssumption DEF Verified, Bindings
    <3>2. upload[u].binding \in Bindings
      BY <1>2, <2>4, Uploaded DEF IInv, TypeOK
    <3> QED BY <2>5, <3>1, <3>2
  <2>8. TypeOK'
    BY <1>1, <1>3, <1>5, <2>3, <2>5 DEF IInv, TypeOK
  <2>9. StagedOnceReserved'
    BY <1>1, <2>4, <2>5 DEF IInv, StagedOnceReserved
  <2>10. FinalizedMatchesRelease'
    <3> SUFFICES ASSUME NEW v \in Uploads, upload'[v].status = "finalized"
                 PROVE  /\ release'[HomeOf[upload'[v].binding.pub]][DigestOf[upload'[v].binding.input]]
                             = upload'[v].binding
                        /\ staging'[v] = DigestOf[upload'[v].binding.input]
      BY DEF FinalizedMatchesRelease, Verified
    <3>1. Verified(v) /\ release[HomeOf[upload[v].binding.pub]][DigestOf[upload[v].binding.input]]
                             = upload[v].binding
      BY <1>1 DEF IInv, FinalizedMatchesRelease
    <3>2. staging'[v] = staging[v]
      BY <2>7, <3>1
    <3> QED BY <1>1, <3>1, <3>2 DEF Verified
  <2>11. PointerServes'
    BY <1>1 DEF IInv, PointerServes
  <2>12. SingleDelivery'
    <3>1. ASSUME NEW b \in Calls, call'[b].pc = "stage"
          PROVE  /\ staging'[call'[b].up] = None
                 /\ upload'[call'[b].up].status \notin {"absent", "awaiting"}
      <4>1. b # c /\ call'[b] = call[b]
        BY <2>6, <3>1
      <4>2. call[b].up \in Uploads
        BY <3>1, <4>1, CallTypes DEF IInv, TypeOK
      <4>3. call[b].up # u
        BY <1>0, <1>1, <3>1, <4>1 DEF IInv, SingleDelivery
      <4>4. staging'[call[b].up] = staging[call[b].up]
        BY <2>5, <4>2, <4>3
      <4> QED BY <1>1, <3>1, <4>1, <4>4 DEF IInv, SingleDelivery
    <3>2. ASSUME NEW b \in Calls, call'[b].pc = "stage",
                 NEW e \in Calls, call'[e].pc = "stage", call'[e].up = call'[b].up
          PROVE  e = b
      BY <2>6, <3>2 DEF IInv, SingleDelivery
    <3> QED BY <3>1, <3>2 DEF SingleDelivery
  <2>13. FinalizesVerified'
    <3> SUFFICES ASSUME NEW b \in Calls, call'[b].pc = "finalize"
                 PROVE  /\ upload'[call'[b].up].status \in {"reserved", "delivered", "finalized"}
                        /\ staging'[call'[b].up] = DigestOf[upload'[call'[b].up].binding.input]
                        /\ staging'[call'[b].up] \in artifacts'
      BY DEF FinalizesVerified, Verified
    <3>1. call'[b] = call[b] /\ call[b].pc = "finalize"
      BY <2>6
    <3>2. PICK v \in Uploads : v = call[b].up
      BY <3>1, CallTypes DEF IInv, TypeOK
    <3>3. Verified(v) /\ staging[v] \in artifacts
          /\ upload[v].status \in {"reserved", "delivered", "finalized"}
      BY <3>1, <3>2 DEF IInv, FinalizesVerified
    <3>4. staging'[v] = staging[v]
      BY <2>7, <3>3
    <3> QED BY <1>1, <3>1, <3>2, <3>3, <3>4 DEF Verified
  <2>14. ActivatesForward'
    BY <2>6 DEF IInv, ActivatesForward
  <2>15. IssuesDrawn'
    BY <1>1, <2>6 DEF IInv, IssuesDrawn
  <2> QED BY <2>8, <2>9, <2>10, <2>11, <2>12, <2>13, <2>14, <2>15 DEF IInv
<1> QED BY <1>0, <1>4, <1>5 DEF WriteStaging

(* What finalizeRelease goes on with. *)
LEMMA Finalizable ==
    ASSUME IInv, NEW p \in Publishers, NEW u \in Uploads
    PROVE  /\ EarlyAnswer(p, u) \in Answers \cup {"none"}
           /\ EarlyAnswer(p, u) = "none" =>
                /\ upload[u].status \in {"reserved", "delivered"}
                /\ Verified(u) /\ staging[u] \in Digests
<1>1. EarlyAnswer(p, u) \in Answers \cup {"none"}
  BY DEF EarlyAnswer, Answers
<1>2. ASSUME EarlyAnswer(p, u) = "none"
      PROVE  upload[u].status \notin {"absent", "awaiting", "finalized"} /\ Verified(u)
  BY <1>2 DEF EarlyAnswer
<1>3. upload[u] \in UploadRecord
  BY DEF IInv, TypeOK
<1>4. ASSUME EarlyAnswer(p, u) = "none"
      PROVE  upload[u].status \in {"reserved", "delivered"} /\ upload[u].binding \in Bindings
  BY <1>2, <1>3, <1>4, Uploaded
<1>5. ASSUME EarlyAnswer(p, u) = "none"
      PROVE  staging[u] \in Digests
  BY <1>2, <1>4, <1>5, PublicationAssumption DEF Verified, Bindings
<1> QED BY <1>1, <1>2, <1>4, <1>5

LEMMA BeginFinalizeKeeps ==
    ASSUME IInv, NEW c \in Calls, NEW p \in Publishers, NEW u \in Uploads,
           BeginFinalize(c, p, u)
    PROVE  IInv'
<1>1. /\ clock' = clock /\ upload' = upload /\ staging' = staging
      /\ published' = published /\ release' = release /\ pointer' = pointer
      /\ quarantined' = quarantined /\ drawn' = drawn /\ handed' = handed
      /\ lostAcks' = lostAcks
  BY DEF BeginFinalize
<1>2. /\ clock \in Nat \ {0} /\ drawn \subseteq Tokens /\ handed \subseteq drawn
      /\ lostAcks \in Nat
  BY DEF IInv, TypeOK
<1>3. CASE EarlyAnswer(p, u) # "none"
  <2>1. PICK r : r = [pc |-> EarlyAnswer(p, u)]
    OBVIOUS
  <2>2. Harmless(r) /\ r.pc # "issue"
    BY <1>3, <2>1, Finalizable, AnswersAreCalls DEF Answers
  <2>3. call' = [call EXCEPT ![c] = r] /\ artifacts' = artifacts
    BY <1>3, <2>1 DEF BeginFinalize, Begin
  <2> QED BY <1>1, <1>2, <2>2, <2>3, HarmlessKeeps DEF documents
<1>4. CASE EarlyAnswer(p, u) = "none"
  <2>1. PICK r : r = [pc |-> "finalize", up |-> u, at |-> clock]
    OBVIOUS
  <2>2. r \in CallRecord /\ r.pc = "finalize" /\ r.up = u
    BY <1>2, <2>1 DEF CallRecord
  <2>3. call' = [call EXCEPT ![c] = r] /\ artifacts' = artifacts \cup {staging[u]}
    BY <1>4, <2>1 DEF BeginFinalize, Begin
  <2>4. /\ call' \in [Calls -> CallRecord] /\ call'[c] = r
        /\ \A b \in Calls \ {c} : call'[b] = call[b]
    BY <2>2, <2>3, Moved DEF IInv
  <2>5. /\ upload[u].status \in {"reserved", "delivered"}
        /\ Verified(u) /\ staging[u] \in Digests
    BY <1>4, Finalizable
  <2>6. \A b \in Calls : call'[b].pc \in {"stage", "activate", "issue"} => call'[b] = call[b]
    BY <2>2, <2>4
  <2>7. TypeOK'
    BY <1>1, <2>3, <2>4, <2>5 DEF IInv, TypeOK
  <2>8. StagedOnceReserved' /\ FinalizedMatchesRelease'
    BY <1>1 DEF IInv, StagedOnceReserved, FinalizedMatchesRelease, Verified
  <2>9. PointerServes'
    BY <1>1, <2>3 DEF IInv, PointerServes
  <2>10. SingleDelivery' /\ ActivatesForward' /\ IssuesDrawn'
    BY <1>1, <2>6 DEF IInv, SingleDelivery, ActivatesForward, IssuesDrawn
  <2>11. FinalizesVerified'
    <3> SUFFICES ASSUME NEW b \in Calls, call'[b].pc = "finalize"
                 PROVE  /\ upload'[call'[b].up].status \in {"reserved", "delivered", "finalized"}
                        /\ staging'[call'[b].up] = DigestOf[upload'[call'[b].up].binding.input]
                        /\ staging'[call'[b].up] \in artifacts'
      BY DEF FinalizesVerified, Verified
    <3>1. CASE b = c
      BY <1>1, <2>2, <2>3, <2>4, <2>5, <3>1 DEF Verified
    <3>2. CASE b # c
      BY <1>1, <2>3, <2>4, <3>2 DEF IInv, FinalizesVerified, Verified
    <3> QED BY <3>1, <3>2
  <2> QED BY <2>7, <2>8, <2>9, <2>10, <2>11 DEF IInv
<1> QED BY <1>3, <1>4

LEMMA ActivateKeeps ==
    ASSUME IInv, NEW c \in Calls, ActivateTx(c)
    PROVE  IInv'
<1>0. PICK r, h : r = call[c] /\ h = HomeOf[call[c].pub]
  OBVIOUS
<1>1. /\ r \in CallRecord /\ r.pc = "activate"
      /\ clock' = clock /\ upload' = upload /\ staging' = staging /\ artifacts' = artifacts
      /\ published' = published /\ release' = release
      /\ quarantined' = quarantined /\ drawn' = drawn /\ handed' = handed
  BY <1>0 DEF ActivateTx, IInv, TypeOK
<1>2. r.pub \in Publishers /\ r.digest \in Digests /\ r.expected \in Nat /\ r.gen \in Nat
  BY <1>1, CallTypes
<1>3. h \in Homes
  BY <1>0, <1>2, PublicationAssumption
<1>4. /\ clock \in Nat \ {0} /\ drawn \subseteq Tokens /\ handed \subseteq drawn
      /\ lostAcks \in Nat
      /\ release \in [Homes -> [Digests -> Bindings \cup {None}]]
      /\ pointer \in [Homes -> {Nowhere} \cup [gen: Nat, digest: Digests, binding: Bindings]]
  BY DEF IInv, TypeOK
<1>5. ASSUME NEW ans \in Answers, Answer(c, ans), UNCHANGED pointer
      PROVE  IInv'
  BY <1>1, <1>4, <1>5, AnswerKeeps DEF documents
<1>6. CASE /\ release[h][r.digest] # None
           /\ pointer' = [pointer EXCEPT ![h] = [gen |-> r.gen, digest |-> r.digest,
                                                binding |-> release[h][r.digest]]]
           /\ Commit(c, [pc |-> "ok"])
  <2>1. PICK n : n = [gen |-> r.gen, digest |-> r.digest, binding |-> release[h][r.digest]]
    OBVIOUS
  <2>2. release[h][r.digest] \in Bindings
    BY <1>2, <1>3, <1>4, <1>6
  <2>3. n \in [gen: Nat, digest: Digests, binding: Bindings]
        /\ n.binding = release[h][n.digest]
    BY <1>2, <2>1, <2>2
  <2>4. [pc |-> "ok"] \in CallRecord /\ Harmless([pc |-> "ok"])
    BY AnswersAreCalls DEF Harmless, Answers
  <2>5. /\ call' \in [Calls -> CallRecord] /\ lostAcks' \in Nat
        /\ \A b \in Calls : call'[b] = call[b] \/ Harmless(call'[b])
    BY <1>6, <2>4, Committed DEF IInv
  <2>6. \A v \in Uploads : Taken(v) => Taken(v)' /\ upload'[v].binding = upload[v].binding
    BY <1>1 DEF Taken
  <2>7. SingleDelivery' /\ FinalizesVerified' /\ ActivatesForward'
    BY <1>1, <2>5, <2>6, CallsKeep
  <2>8. IssuesDrawn'
    BY <1>1, <1>6, <2>4, Committed DEF IInv, IssuesDrawn
  <2>9. pointer' = [pointer EXCEPT ![h] = n]
    BY <1>6, <2>1
  <2>10. pointer' \in [Homes -> {Nowhere} \cup [gen: Nat, digest: Digests, binding: Bindings]]
    BY <1>4, <2>3, <2>9
  <2>11. TypeOK'
    BY <1>1, <1>4, <2>5, <2>10 DEF IInv, TypeOK
  <2>12. StagedOnceReserved' /\ FinalizedMatchesRelease'
    BY <1>1 DEF IInv, StagedOnceReserved, FinalizedMatchesRelease, Verified
  <2>13. PointerServes'
    <3>1. \A g \in Homes : pointer'[g] # Nowhere =>
                pointer'[g].binding = release[g][pointer'[g].digest]
      BY <1>3, <1>4, <2>3, <2>9 DEF IInv, PointerServes
    <3> QED BY <1>1, <3>1 DEF IInv, PointerServes
  <2> QED BY <2>7, <2>8, <2>11, <2>12, <2>13 DEF IInv
<1>7. \A q : (IF q THEN "unknown" ELSE "denied") \in Answers
  BY DEF Answers
<1>8. CASE ~Activatable(c)
  BY <1>5, <1>7, <1>8 DEF ActivateTx
<1>9. CASE Activatable(c)
  BY <1>0, <1>6, <1>9 DEF ActivateTx, Activatable
<1> QED BY <1>8, <1>9

(* What a committing finalization writes. *)
FinalizationCommits(c, u, b, h, d) ==
    /\ ~Conflicts(h, d, b)
    /\ published' = published \cup {d}
    /\ release' = [release EXCEPT ![h][d] = b]
    /\ upload' = [upload EXCEPT ![u] = Finalized(upload[u], call[c].at)]
    /\ Commit(c, [pc |-> "ok"])
    /\ UNCHANGED <<clock, staging, artifacts, pointer, quarantined, drawn, handed>>

(* A finalization knows its upload, and stores it under its own home. *)
FinalizationKnows(c, u, b, h, d) ==
    /\ u \in Uploads /\ b \in Bindings /\ h \in Homes /\ d \in Digests
    /\ call[c].at \in Nat /\ upload[u] \in UploadRecord /\ upload[u].status # "absent"
    /\ Taken(u) /\ staging[u] = d /\ d \in artifacts
    /\ release[h][d] \in Bindings \cup {None}

LEMMA FinalizationTypes ==
    ASSUME IInv, NEW c \in Calls, call[c].pc = "finalize",
           NEW u, NEW b, NEW h, NEW d,
           u = call[c].up, b = upload[u].binding, h = HomeOf[b.pub], d = DigestOf[b.input]
    PROVE  FinalizationKnows(c, u, b, h, d)
<1>1. call[c] \in CallRecord
  BY DEF IInv, TypeOK
<1>2. u \in Uploads /\ call[c].at \in Nat
  BY <1>1, CallTypes
<1>3. upload[u] \in UploadRecord
  BY <1>2 DEF IInv, TypeOK
<1>4. Taken(u) /\ Verified(u) /\ staging[u] \in artifacts
  BY DEF IInv, FinalizesVerified, Taken
<1>5. upload[u].status # "absent"
  BY <1>4 DEF Taken
<1>6. b \in Bindings
  BY <1>3, <1>5, Uploaded
<1>7. h \in Homes /\ d \in Digests
  BY <1>6, PublicationAssumption DEF Bindings
<1>8. release \in [Homes -> [Digests -> Bindings \cup {None}]]
  BY DEF IInv, TypeOK
<1>9. release[h][d] \in Bindings \cup {None}
  <2>1. release[h] \in [Digests -> Bindings \cup {None}]
    BY <1>7, <1>8
  <2> QED BY <1>7, <2>1
<1>10. staging[u] = d /\ d \in artifacts
  BY <1>4 DEF Verified
<1> QED BY <1>2, <1>3, <1>4, <1>5, <1>6, <1>7, <1>9, <1>10 DEF FinalizationKnows

(* A committing finalization releases exactly one digest, once. *)
ReleasesOnly(h, d, b) ==
    /\ release' \in [Homes -> [Digests -> Bindings \cup {None}]]
    /\ release[h][d] \in {None, b} /\ release'[h][d] = b
    /\ \A g \in Homes, e \in Digests :
            release'[g][e] = release[g][e] \/ (g = h /\ e = d /\ release[g][e] = None)

LEMMA ReleasesOnce ==
    ASSUME IInv, NEW h \in Homes, NEW d \in Digests, NEW b \in Bindings,
           ~Conflicts(h, d, b), release' = [release EXCEPT ![h][d] = b]
    PROVE  ReleasesOnly(h, d, b)
<1>1. release \in [Homes -> [Digests -> Bindings \cup {None}]]
  BY DEF IInv, TypeOK
<1>2. release[h][d] \in {None, b}
  BY DEF Conflicts
<1>3. release' \in [Homes -> [Digests -> Bindings \cup {None}]] /\ release'[h][d] = b
  BY <1>1
<1>4. \A g \in Homes, e \in Digests : g # h \/ e # d => release'[g][e] = release[g][e]
  BY <1>1
<1>5. ASSUME NEW g \in Homes, NEW e \in Digests
      PROVE  release'[g][e] = release[g][e] \/ (g = h /\ e = d /\ release[g][e] = None)
  <2>1. CASE g = h /\ e = d
    BY <1>2, <1>3, <2>1
  <2>2. CASE g # h \/ e # d
    BY <1>4, <2>2
  <2> QED BY <2>1, <2>2
<1> QED BY <1>2, <1>3, <1>5 DEF ReleasesOnly

LEMMA FinalizeKeeps ==
    ASSUME IInv, NEW c \in Calls, FinalizeTx(c)
    PROVE  IInv'
<1>0. PICK u, b, h, d : u = call[c].up /\ b = upload[u].binding /\ h = HomeOf[b.pub]
                        /\ d = DigestOf[b.input]
  OBVIOUS
<1>1. call[c].pc = "finalize"
  BY DEF FinalizeTx
<1>2. /\ u \in Uploads /\ b \in Bindings /\ h \in Homes /\ d \in Digests
      /\ call[c].at \in Nat /\ upload[u] \in UploadRecord /\ upload[u].status # "absent"
      /\ Taken(u) /\ staging[u] = d /\ d \in artifacts
      /\ release[h][d] \in Bindings \cup {None}
  <2>1. FinalizationKnows(c, u, b, h, d)
    BY <1>0, <1>1, FinalizationTypes
  <2> QED BY <2>1 DEF FinalizationKnows
<1>3. /\ clock \in Nat \ {0} /\ drawn \subseteq Tokens /\ handed \subseteq drawn
      /\ upload \in [Uploads -> UploadRecord] /\ published \subseteq Digests
      /\ pointer \in [Homes -> {Nowhere} \cup [gen: Nat, digest: Digests, binding: Bindings]]
      /\ None \notin Bindings /\ None \notin Digests
  <2>1. None \notin Bindings /\ None \notin Digests
    BY PublicationAssumption DEF Bindings
  <2>2. TypeOK
    BY DEF IInv
  <2>3. pointer \in [Homes -> {Nowhere} \cup [gen: Nat, digest: Digests, binding: Bindings]]
    BY <2>2, Zenon DEF TypeOK
  <2>4. /\ clock \in Nat \ {0} /\ drawn \subseteq Tokens /\ handed \subseteq drawn
        /\ upload \in [Uploads -> UploadRecord] /\ published \subseteq Digests
    BY <2>2, Zenon DEF TypeOK
  <2> QED BY <2>1, <2>3, <2>4
<1>4. CASE /\ Answer(c, IF Readable(upload[u]) THEN "denied" ELSE "unknown")
           /\ UNCHANGED <<clock, documents, drawn, handed>>
  BY <1>3, <1>4, AnswerKeeps DEF Answers
<1>5. CASE FinalizationCommits(c, u, b, h, d)
  <2>1. /\ clock' = clock /\ staging' = staging /\ artifacts' = artifacts
        /\ pointer' = pointer /\ quarantined' = quarantined /\ drawn' = drawn
        /\ handed' = handed /\ published' = published \cup {d}
        /\ ~Conflicts(h, d, b) /\ release' = [release EXCEPT ![h][d] = b]
    BY <1>5 DEF FinalizationCommits
  <2>2. PICK n : n = Finalized(upload[u], call[c].at)
    OBVIOUS
  <2>3. n \in UploadRecord /\ n.status = "finalized" /\ n.binding = b
    BY <1>0, <1>2, <2>2, FinalizedType
  <2>4. upload' = [upload EXCEPT ![u] = n]
    BY <1>5, <2>2 DEF FinalizationCommits
  <2>5. /\ upload' \in [Uploads -> UploadRecord] /\ upload'[u] = n
        /\ \A v \in Uploads \ {u} : upload'[v] = upload[v]
    BY <1>2, <1>3, <2>3, <2>4
  <2>6. /\ release' \in [Homes -> [Digests -> Bindings \cup {None}]]
        /\ release[h][d] \in {None, b} /\ release'[h][d] = b
        /\ \A g \in Homes, e \in Digests :
                release'[g][e] = release[g][e] \/ (g = h /\ e = d /\ release[g][e] = None)
    <3>1. ReleasesOnly(h, d, b)
      BY <1>2, <2>1, ReleasesOnce
    <3> QED BY <3>1 DEF ReleasesOnly
  <2>7. [pc |-> "ok"] \in CallRecord /\ Harmless([pc |-> "ok"])
    BY AnswersAreCalls DEF Harmless, Answers
  <2>8. Commit(c, [pc |-> "ok"])
    BY <1>5 DEF FinalizationCommits
  <2>9. /\ call' \in [Calls -> CallRecord] /\ lostAcks' \in Nat
        /\ \A e \in Calls : call'[e] = call[e] \/ Harmless(call'[e])
        /\ \A e \in Calls : call'[e].pc = "issue" => call'[e] = call[e]
    BY <2>7, <2>8, Committed DEF IInv
  <2>10. \A v \in Uploads : Taken(v) => Taken(v)' /\ upload'[v].binding = upload[v].binding
    BY <1>0, <2>3, <2>5 DEF Taken
  <2>11. SingleDelivery' /\ FinalizesVerified' /\ ActivatesForward'
    BY <2>1, <2>9, <2>10, CallsKeep
  <2>12. IssuesDrawn'
    BY <2>1, <2>9 DEF IInv, IssuesDrawn
  <2>13. TypeOK'
    BY <1>2, <1>3, <2>1, <2>5, <2>6, <2>9 DEF IInv, TypeOK
  <2>14. StagedOnceReserved'
    BY <1>0, <1>2, <2>1, <2>3, <2>5 DEF IInv, StagedOnceReserved
  <2>15. FinalizedMatchesRelease'
    <3> SUFFICES ASSUME NEW v \in Uploads, upload'[v].status = "finalized"
                 PROVE  /\ release'[HomeOf[upload'[v].binding.pub]][DigestOf[upload'[v].binding.input]]
                             = upload'[v].binding
                        /\ staging'[v] = DigestOf[upload'[v].binding.input]
      BY DEF FinalizedMatchesRelease, Verified
    <3>1. CASE v = u
      BY <1>0, <1>2, <2>1, <2>3, <2>5, <2>6, <3>1
    <3>2. CASE v # u
      <4>1. upload'[v] = upload[v]
        BY <2>5, <3>2
      <4>2. PICK a, g, e : /\ a = upload[v].binding /\ g = HomeOf[a.pub]
                           /\ e = DigestOf[a.input]
        OBVIOUS
      <4>3. release[g][e] = a /\ staging[v] = e
        BY <4>1, <4>2 DEF IInv, FinalizedMatchesRelease, Verified
      <4>4. a \in Bindings
        BY <4>1, <4>2, Uploaded DEF IInv, TypeOK
      <4>5. g \in Homes /\ e \in Digests
        BY <4>2, <4>4, PublicationAssumption DEF Bindings
      <4>6. release'[g][e] = a
        BY <1>3, <2>6, <4>3, <4>4, <4>5
      <4> QED BY <2>1, <4>1, <4>2, <4>3, <4>6
    <3> QED BY <3>1, <3>2
  <2>16. PointerServes'
    <3>1. ASSUME NEW g \in Homes, NEW e \in Digests, release'[g][e] # None
          PROVE  e \in published' \cap artifacts'
      <4>1. release[g][e] # None \/ e = d
        BY <2>6, <3>1
      <4> QED BY <1>2, <2>1, <4>1 DEF IInv, PointerServes
    <3>2. ASSUME NEW g \in Homes, pointer[g] # Nowhere
          PROVE  pointer[g].binding = release'[g][pointer[g].digest]
      <4>1. pointer[g] \in [gen: Nat, digest: Digests, binding: Bindings]
        BY <1>3, <3>2
      <4>2. pointer[g].binding = release[g][pointer[g].digest]
        BY <3>2 DEF IInv, PointerServes
      <4>3. pointer[g].digest \in Digests /\ pointer[g].binding \in Bindings
        BY <4>1
      <4>4. release[g][pointer[g].digest] # None
        BY <1>3, <4>2, <4>3
      <4> QED BY <2>6, <4>2, <4>3, <4>4
    <3> QED BY <2>1, <3>1, <3>2 DEF PointerServes
  <2> QED BY <2>11, <2>12, <2>13, <2>14, <2>15, <2>16 DEF IInv
<1> QED BY <1>0, <1>4, <1>5 DEF FinalizeTx, FinalizationCommits, documents

-----------------------------------------------------------------------------
(* The theorems. *)

LEMMA InitEstablishes == Init => IInv
<1> SUFFICES ASSUME Init PROVE IInv
  OBVIOUS
<1>1. TypeOK
  BY PublicationAssumption
  DEF Init, TypeOK, UploadRecord, CallRecord, Answers
<1>2. StagedOnceReserved /\ FinalizedMatchesRelease
  BY DEF Init, StagedOnceReserved, FinalizedMatchesRelease, NoUpload
<1>3. PointerServes
  BY DEF Init, PointerServes
<1>4. SingleDelivery /\ FinalizesVerified /\ ActivatesForward /\ IssuesDrawn
  BY DEF Init, SingleDelivery, FinalizesVerified, ActivatesForward, IssuesDrawn
<1> QED BY <1>1, <1>2, <1>3, <1>4 DEF IInv

LEMMA NextPreserves == IInv /\ [Next]_vars => IInv'
<1> SUFFICES ASSUME IInv, [Next]_vars PROVE IInv'
  OBVIOUS
<1>1. CASE Tick
  BY <1>1, TickKeeps
<1>2. ASSUME NEW d \in Suspects, QuarantineDigest(d) PROVE IInv'
  BY <1>2, QuarantineKeeps
<1>3. ASSUME NEW c \in Calls, BeginCall(c) PROVE IInv'
  <2>1. ASSUME NEW p \in Publishers, NEW u \in Uploads, BeginFinalize(c, p, u)
        PROVE  IInv'
    BY <2>1, BeginFinalizeKeeps
  <2>2. CASE \/ \E p \in Publishers, i \in Inputs : BeginIssue(c, p, i)
             \/ \E t \in Tokens, d \in Digests : BeginDeliver(c, t, d)
             \/ \E p \in Publishers, u \in Uploads : BeginInspect(c, p, u)
             \/ \E p \in Publishers, d \in Digests, e, g \in 0..MaxGeneration :
                  BeginActivate(c, p, d, e, g)
    BY <2>2, BeginsKeep
  <2> QED BY <1>3, <2>1, <2>2, Zenon DEF BeginCall
<1>4. ASSUME NEW c \in Calls, Proceed(c) PROVE IInv'
  BY <1>4, IssueKeeps, ReserveKeeps, WriteKeeps, StartMarkKeeps, MarkKeeps,
     FinalizeKeeps, ActivateKeeps, AbandonKeeps, Zenon DEF Proceed
<1>5. CASE UNCHANGED vars
  <2>1. /\ upload' = upload /\ staging' = staging /\ artifacts' = artifacts
        /\ published' = published /\ release' = release /\ pointer' = pointer
        /\ quarantined' = quarantined /\ call' = call /\ drawn' = drawn
        /\ handed' = handed /\ lostAcks' = lostAcks /\ clock' = clock
    BY <1>5 DEF vars, documents
  <2>2. TypeOK'
    BY <2>1 DEF IInv, TypeOK
  <2>3. /\ StagedOnceReserved' /\ FinalizedMatchesRelease' /\ PointerServes'
        /\ SingleDelivery' /\ FinalizesVerified' /\ ActivatesForward' /\ IssuesDrawn'
    BY <2>1 DEF IInv, StagedOnceReserved, FinalizedMatchesRelease, PointerServes,
       SingleDelivery, FinalizesVerified, ActivatesForward, IssuesDrawn, Verified
  <2> QED BY <2>2, <2>3 DEF IInv
<1> QED BY <1>1, <1>2, <1>3, <1>4, <1>5, Zenon DEF Next

(* The inductive invariant holds in every reachable state. *)
LEMMA Invariance == Spec => []IInv
BY InitEstablishes, NextPreserves, PTL DEF Spec

(* Every reachable state is well typed: an upload has its times, a call its*)
(* request, and only capabilities that were drawn are handed out.          *)
THEOREM TypeCorrect == Spec => []TypeOK
<1>1. IInv => TypeOK
  BY DEF IInv
<1> QED BY <1>1, Invariance, PTL

(* However many PUTs carry the same capability, and however many of their  *)
(* commits lose the acknowledgement, one of them reaches Storage.          *)
THEOREM DeliveredOnce == Spec => []SingleDelivery
<1>1. IInv => SingleDelivery
  BY DEF IInv
<1> QED BY <1>1, Invariance, PTL

(* A finalized upload is the one its release describes, and its bytes are  *)
(* the promised ones, whatever other uploads promise the same bytes.       *)
THEOREM FinalizedAsDescribed == Spec => []FinalizedMatchesRelease
<1>1. IInv => FinalizedMatchesRelease
  BY DEF IInv
<1> QED BY <1>1, Invariance, PTL

(* Wherever calls stop between Storage and Firestore, a release has its    *)
(* marker and its bytes and a live pointer repeats the release it names.   *)
THEOREM PointerAlwaysServes == Spec => []PointerServes
<1>1. IInv => PointerServes
  BY DEF IInv
<1> QED BY <1>1, Invariance, PTL

-----------------------------------------------------------------------------
(* The refinement. *)

(* Nothing is half released: what residents see is the release itself. *)
LEMMA CompleteIsRelease ==
    ASSUME TypeOK, PointerServes
    PROVE  Complete = release
<1>1. \A h \in Homes : release[h] = [d \in Digests |-> release[h][d]]
  BY DEF TypeOK
<1>2. ASSUME NEW h \in Homes
      PROVE  [d \in Digests |-> IF d \in published \cap artifacts THEN release[h][d] ELSE None]
               = [d \in Digests |-> release[h][d]]
  BY DEF PointerServes
<1>3. release = [h \in Homes |-> release[h]]
  BY DEF TypeOK
<1>4. Complete = [h \in Homes |-> [d \in Digests |-> release[h][d]]]
  BY <1>2, Zenon DEF Complete
<1> QED BY <1>1, <1>3, <1>4

LEMMA CompleteNext ==
    ASSUME TypeOK', PointerServes'
    PROVE  Complete' = release'
<1>1. \A h \in Homes : release'[h] = [d \in Digests |-> release'[h][d]]
  BY DEF TypeOK
<1>2. ASSUME NEW h \in Homes
      PROVE  [d \in Digests |-> IF d \in published' \cap artifacts' THEN release'[h][d] ELSE None]
               = [d \in Digests |-> release'[h][d]]
  BY DEF PointerServes
<1>3. release' = [h \in Homes |-> release'[h]]
  BY DEF TypeOK
<1>4. Complete' = [h \in Homes |-> [d \in Digests |-> release'[h][d]]]
  BY <1>2, Zenon DEF Complete
<1> QED BY <1>1, <1>3, <1>4

LEMMA StepsRefine ==
    ASSUME IInv, IInv', [Next]_vars
    PROVE  [Interface!Next]_<<Complete, pointer, quarantined>>
<1>0. Complete = release /\ Complete' = release'
  BY CompleteIsRelease, CompleteNext DEF IInv
<1>1. ASSUME release' = release, pointer' = pointer, quarantined' = quarantined
      PROVE  [Interface!Next]_<<Complete, pointer, quarantined>>
  BY <1>0, <1>1
<1>2. ASSUME NEW c \in Calls, FinalizeTx(c)
      PROVE  [Interface!Next]_<<Complete, pointer, quarantined>>
  <2>0. PICK u, b, h, d : u = call[c].up /\ b = upload[u].binding /\ h = HomeOf[b.pub]
                          /\ d = DigestOf[b.input]
    OBVIOUS
  <2>1. call[c].pc = "finalize" /\ pointer' = pointer /\ quarantined' = quarantined
    BY <1>2 DEF FinalizeTx
  <2>2. /\ b \in Bindings /\ h \in Homes /\ d \in Digests
    BY <2>0, <2>1, FinalizationTypes DEF FinalizationKnows
  <2>3. CASE release' = release
    BY <1>1, <2>1, <2>3
  <2>4. CASE ~Conflicts(h, d, b) /\ release' = [release EXCEPT ![h][d] = b]
    <3>1. release[h][d] \in {None, b}
      BY <2>4 DEF Conflicts
    <3>2. CASE release[h][d] = b
      <4>1. release' = release
        BY <2>2, <2>4, <3>2 DEF IInv, TypeOK
      <4> QED BY <2>3, <4>1
    <3>3. CASE release[h][d] = None
      <4>1. Interface!Release(h, d, b)
        BY <1>0, <2>1, <2>4, <3>3 DEF Interface!Release
      <4> QED BY <2>2, <4>1 DEF Interface!Next
    <3> QED BY <3>1, <3>2, <3>3
  <2> QED BY <1>2, <2>0, <2>3, <2>4 DEF FinalizeTx
<1>3. ASSUME NEW c \in Calls, ActivateTx(c)
      PROVE  [Interface!Next]_<<Complete, pointer, quarantined>>
  <2>0. PICK r, h : r = call[c] /\ h = HomeOf[call[c].pub]
    OBVIOUS
  <2>1. /\ r \in CallRecord /\ r.pc = "activate"
        /\ release' = release /\ quarantined' = quarantined
    BY <1>3, <2>0 DEF ActivateTx, IInv, TypeOK
  <2>2. r.pub \in Publishers /\ r.digest \in Digests /\ h \in Homes
    BY <2>0, <2>1, CallTypes, PublicationAssumption
  <2>3. CASE pointer' = pointer
    BY <1>1, <2>1, <2>3
  <2>4. CASE /\ Activatable(c)
             /\ pointer' = [pointer EXCEPT ![h] = [gen |-> r.gen, digest |-> r.digest,
                                                  binding |-> release[h][r.digest]]]
    <3>1. /\ release[h][r.digest] # None /\ r.digest \notin quarantined
          /\ pointer[h].gen = r.expected
      BY <2>0, <2>4 DEF Activatable
    <3>2. r.expected < r.gen /\ r.gen \in 0..MaxGeneration /\ r.expected \in Nat
      BY <2>0, <2>1, CallTypes DEF IInv, ActivatesForward
    <3>3. r.gen > pointer[h].gen
      BY <3>1, <3>2, PublicationAssumption
    <3>4. Interface!Activate(h, r.digest, r.gen)
      BY <1>0, <2>1, <2>4, <3>1, <3>3 DEF Interface!Activate
    <3> QED BY <2>2, <3>2, <3>4 DEF Interface!Next
  <2> QED BY <1>3, <2>0, <2>3, <2>4 DEF ActivateTx
<1>4. ASSUME NEW d \in Suspects, QuarantineDigest(d)
      PROVE  [Interface!Next]_<<Complete, pointer, quarantined>>
  <2>1. d \in Digests
    BY PublicationAssumption
  <2>2. Interface!Quarantine(d)
    BY <1>0, <1>4 DEF QuarantineDigest, Interface!Quarantine
  <2> QED BY <2>1, <2>2 DEF Interface!Next
<1>5. CASE Tick
  BY <1>1, <1>5 DEF Tick, documents
<1>6. ASSUME NEW c \in Calls, BeginCall(c)
      PROVE  [Interface!Next]_<<Complete, pointer, quarantined>>
  <2>1. release' = release /\ pointer' = pointer /\ quarantined' = quarantined
    BY <1>6 DEF BeginCall, BeginIssue, BeginDeliver, BeginInspect, BeginFinalize,
       BeginActivate, documents
  <2> QED BY <1>1, <2>1
<1>7. ASSUME NEW c \in Calls,
             \/ IssueTx(c) \/ ReserveTx(c) \/ WriteStaging(c) \/ StartMark(c) \/ MarkTx(c)
             \/ Abandon(c)
      PROVE  [Interface!Next]_<<Complete, pointer, quarantined>>
  <2>1. release' = release /\ pointer' = pointer /\ quarantined' = quarantined
    BY <1>7 DEF IssueTx, ReserveTx, WriteStaging, StartMark, MarkTx, Abandon, documents
  <2> QED BY <1>1, <2>1
<1>8. CASE UNCHANGED vars
  BY <1>1, <1>8 DEF vars, documents
<1> QED BY <1>2, <1>3, <1>4, <1>5, <1>6, <1>7, <1>8, Zenon DEF Next, Proceed

(* Publication implements PublishedInterface: a digest is released once and*)
(* completely, and the pointer moves forward to released digests that are  *)
(* not quarantined, whatever uploads, crashes and retries realise it.      *)
THEOREM RefinesInterface == Spec => ImplementsInterface
<1>1. Init => Interface!Init
  <2>1. ASSUME Init PROVE Complete = [h \in Homes |-> [d \in Digests |-> None]]
    BY <2>1 DEF Init, Complete
  <2> QED BY <2>1 DEF Init, Interface!Init, Nowhere, Interface!Nothing
<1> QED BY <1>1, StepsRefine, NextPreserves, Invariance, PTL
        DEF Spec, ImplementsInterface, Interface!Spec
=============================================================================
