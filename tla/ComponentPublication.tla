------------------------ MODULE ComponentPublication ------------------------
(***************************************************************************)
(* Publication of component releases (control-plane/src/component-store.ts)*)
(* in Firestore and Cloud Storage: a publisher obtains a single-use upload *)
(* capability, the bytes are delivered to staging, verified, copied to a   *)
(* content-addressed object and released, and a release becomes the live   *)
(* pointer of its home by compare-and-set on a generation.                 *)
(*                                                                         *)
(* Each API call is a process in Calls and each Firestore transaction one  *)
(* atomic step.  The timestamps the code reads before a transaction are    *)
(* captured in an earlier step; a commit whose acknowledgement is lost     *)
(* leaves the call in place, so the closure runs again.  Reads of data that*)
(* only ever grows (an upload's fixed fields, its staged bytes) are taken  *)
(* together with the step that uses them.                                  *)
(*                                                                         *)
(* A definition whose name begins with Wrong is a deliberately faulty      *)
(* variant of the one after it, for checking that a property can fail.     *)
(***************************************************************************)
EXTENDS Integers

CONSTANTS
    Homes, Digests,
    Publishers,     \* principals: an owner session or a Home Key's token
    HomeOf,         \* [Publishers -> Homes]: the home a principal is bound to
    Authorized,     \* principals authorizeHome accepts
    Inputs,         \* requested release descriptions
    DigestOf,       \* [Inputs -> Digests]: the digest a description promises
    Uploads,        \* 128-bit upload identifiers
    Tokens,         \* generated capabilities: identifier and secret together
    UploadOf,       \* [Tokens -> Uploads]
    Calls,          \* API calls in flight at the same time
    None,
    Attempts,       \* draws of an identifier per issueUpload
    Suspects,       \* bound: digests the platform may quarantine
    Lifetime,       \* UPLOAD_TTL_MILLISECONDS, in clock ticks
    MaxGeneration,  \* bound: greatest generation a publisher asks for
    MaxClock,       \* bound: last clock tick explored
    MaxLostAcks     \* bound: commits whose acknowledgement is lost

ASSUME PublicationAssumption ==
    /\ HomeOf \in [Publishers -> Homes] /\ Authorized \subseteq Publishers
    /\ DigestOf \in [Inputs -> Digests] /\ UploadOf \in [Tokens -> Uploads]
    /\ Suspects \subseteq Digests
    /\ None \notin Publishers \cup Inputs \cup Digests \cup Tokens
    /\ None \notin [pub: Publishers, input: Inputs]
    /\ Attempts \in Nat \ {0} /\ Lifetime \in Nat \ {0}
    /\ MaxGeneration \in Nat /\ MaxClock \in Nat /\ MaxLostAcks \in Nat

VARIABLES
    clock,        \* the control plane's clock
    upload,       \* componentUploads/{u}, with its componentUploadIndex entry
    staging,      \* staging object of an upload: the digest of its bytes
    artifacts,    \* digests with an immutable object in Storage
    published,    \* componentArtifacts: publication markers
    release,      \* componentReleases of a home: the binding of a digest
    pointer,      \* components/{h}: the live pointer
    quarantined,  \* componentQuarantine
    call,         \* calls in flight and the answers of finished ones
    drawn,        \* capabilities generated so far
    handed,       \* capabilities returned to a publisher
    lostAcks      \* acknowledgements still to lose

documents == <<upload, staging, artifacts, published, release, pointer, quarantined>>
vars      == <<clock, documents, call, drawn, handed, lostAcks>>

Bindings == [pub: Publishers, input: Inputs]
NoUpload == [status |-> "absent"]
Nowhere  == [gen |-> 0, digest |-> None, binding |-> None]

(* An upload record; a time is 0 while the code stores null. *)
UploadRecord ==
    {NoUpload} \cup
    [status: {"awaiting", "reserved", "delivered", "finalized"}, binding: Bindings,
     token: Tokens, created: Nat, consumed: Nat, delivered: Nat, finalized: Nat]

Answers == {"ok", "denied", "unknown"}

CallRecord ==
    [pc: Answers]
    \cup [pc: {"issue"}, pub: Publishers, input: Inputs, token: Tokens,
          tries: Nat, at: Nat]
    \cup [pc: {"reserve"}, token: Tokens, digest: Digests, at: Nat]
    \cup [pc: {"stage", "staged"}, up: Uploads, digest: Digests]
    \cup [pc: {"mark"}, up: Uploads, at: Nat]
    \cup [pc: {"finalize"}, up: Uploads, at: Nat]
    \cup [pc: {"activate"}, pub: Publishers, digest: Digests, expected: Nat, gen: Nat]

Init ==
    /\ clock = 1
    /\ upload = [u \in Uploads |-> NoUpload]
    /\ staging = [u \in Uploads |-> None]
    /\ artifacts = {} /\ published = {}
    /\ release = [h \in Homes |-> [d \in Digests |-> None]]
    /\ pointer = [h \in Homes |-> Nowhere]
    /\ quarantined = {}
    /\ call = [c \in Calls |-> [pc |-> "ok"]]
    /\ drawn = {} /\ handed = {}
    /\ lostAcks = MaxLostAcks

-----------------------------------------------------------------------------
(* Life of a call. *)

Free(c) == call[c].pc \in Answers

Begin(c, request) ==
    /\ Free(c)
    /\ call' = [call EXCEPT ![c] = request]

(* The call ends without a further commit. *)
Answer(c, ans) ==
    /\ call' = [call EXCEPT ![c] = [pc |-> ans]]
    /\ UNCHANGED lostAcks

(* The transaction commits; the call goes on to `next', or runs again. *)
Commit(c, next) ==
    \/ /\ call' = [call EXCEPT ![c] = next]
       /\ UNCHANGED lostAcks
    \/ /\ lostAcks > 0
       /\ lostAcks' = lostAcks - 1
       /\ UNCHANGED call

(* validateUpload: the recorded times must be ordered, and within the TTL. *)
Readable(r) ==
    /\ r.consumed # 0 => r.created <= r.consumed /\ r.consumed < r.created + Lifetime
    /\ r.delivered # 0 => r.consumed # 0 /\ r.consumed <= r.delivered
    /\ r.finalized # 0 => r.delivered # 0 /\ r.delivered <= r.finalized
    /\ r.consumed = 0 <=> r.status = "awaiting"
    /\ r.delivered = 0 <=> r.status \in {"awaiting", "reserved"}
    /\ r.finalized = 0 <=> r.status # "finalized"

(* Upload u is a record of another home than the one principal p acts for. *)
Elsewhere(p, u) == HomeOf[upload[u].binding.pub] # HomeOf[p]

-----------------------------------------------------------------------------
(* issueUpload *)

NewUpload(r) ==
    [status |-> "awaiting", binding |-> [pub |-> r.pub, input |-> r.input],
     token |-> r.token, created |-> r.at, consumed |-> 0, delivered |-> 0,
     finalized |-> 0]

BeginIssue(c, p, i) ==
    \E t \in Tokens \ drawn :
        /\ Begin(c, [pc |-> "issue", pub |-> p, input |-> i, token |-> t,
                     tries |-> 1, at |-> clock])
        /\ drawn' = drawn \cup {t}
        /\ UNCHANGED <<clock, documents, handed, lostAcks>>

(* An IdentifierCollision: draw another capability for the same createdAt. *)
Redraw(c) ==
    IF call[c].tries >= Attempts \/ drawn = Tokens
    THEN Answer(c, "unknown") /\ UNCHANGED drawn
    ELSE \E t \in Tokens \ drawn :
            /\ call' = [call EXCEPT ![c] =
                    [@ EXCEPT !.token = t, !.tries = call[c].tries + 1]]
            /\ drawn' = drawn \cup {t}
            /\ UNCHANGED lostAcks

(* #createUploadTransaction *)
IssueTx(c) ==
    LET r == call[c]
        u == UploadOf[r.token]
    IN
    /\ r.pc = "issue"
    /\ UNCHANGED <<clock, staging, artifacts, published, release, pointer, quarantined>>
    /\ \/ /\ r.pub \notin Authorized
          /\ Answer(c, "denied")
          /\ UNCHANGED <<upload, drawn, handed>>
       \/ /\ r.pub \in Authorized /\ upload[u] = NewUpload(r)
          /\ Answer(c, "ok")
          /\ handed' = handed \cup {r.token}
          /\ UNCHANGED <<upload, drawn>>
       \/ /\ r.pub \in Authorized /\ upload[u] \notin {NoUpload, NewUpload(r)}
          /\ IF Elsewhere(r.pub, u) \/ Readable(upload[u]) THEN Redraw(c)
             ELSE Answer(c, "unknown") /\ UNCHANGED drawn
          /\ UNCHANGED <<upload, handed>>
       \/ /\ r.pub \in Authorized /\ upload[u] = NoUpload
          /\ upload' = [upload EXCEPT ![u] = NewUpload(r)]
          /\ Commit(c, [pc |-> "ok"])
          /\ handed' = IF call'[c].pc = "ok" THEN handed \cup {r.token} ELSE handed
          /\ UNCHANGED drawn

-----------------------------------------------------------------------------
(* deliverUpload and inspectUpload *)

(* The caller holds a capability and sends bytes with some digest.  The    *)
(* first authorization read accepts no more than #reserveDelivery does.    *)
BeginDeliver(c, t, d) ==
    /\ t \in handed
    /\ Begin(c, [pc |-> "reserve", token |-> t, digest |-> d, at |-> clock])
    /\ UNCHANGED <<clock, documents, drawn, handed, lostAcks>>

(* A delivery whose reservation is recorded already may go on. *)
WrongReservable(c) ==
    LET r == upload[UploadOf[call[c].token]] IN
    /\ r.status \in {"awaiting", "reserved"}
    /\ r.token = call[c].token
    /\ r.created <= call[c].at /\ call[c].at < r.created + Lifetime

Reservable(c) ==
    LET r == upload[UploadOf[call[c].token]] IN
    /\ r.status = "awaiting"
    /\ r.token = call[c].token
    /\ r.created <= call[c].at /\ call[c].at < r.created + Lifetime

Reserved(r, at) == [r EXCEPT !.status = "reserved", !.consumed = at]

(* #reserveDelivery consumes the capability. *)
ReserveTx(c) ==
    LET u == UploadOf[call[c].token] IN
    /\ call[c].pc = "reserve"
    /\ UNCHANGED <<clock, staging, artifacts, published, release, pointer, quarantined,
                   drawn, handed>>
    /\ \/ /\ ~Reservable(c)
          /\ Answer(c, IF Readable(upload[u]) THEN "denied" ELSE "unknown")
          /\ UNCHANGED upload
       \/ /\ Reservable(c)
          /\ upload' = [upload EXCEPT ![u] = Reserved(upload[u], call[c].at)]
          /\ Commit(c, [pc |-> "stage", up |-> u, digest |-> call[c].digest])

(* writeStaging creates the object; it never replaces other bytes. *)
WriteStaging(c) ==
    LET u == call[c].up
        d == call[c].digest
    IN
    /\ call[c].pc = "stage"
    /\ IF staging[u] \in {None, d}
       THEN /\ staging' = [staging EXCEPT ![u] = d]
            /\ call' = [call EXCEPT ![c] = [pc |-> "staged", up |-> u, digest |-> d]]
            /\ UNCHANGED lostAcks
       ELSE Answer(c, "denied") /\ UNCHANGED staging
    /\ UNCHANGED <<clock, upload, artifacts, published, release, pointer, quarantined,
                   drawn, handed>>

(* #markDelivered reads the clock before its transaction. *)
StartMark(c) ==
    /\ call[c].pc = "staged"
    /\ call' = [call EXCEPT ![c] = [pc |-> "mark", up |-> call[c].up, at |-> clock]]
    /\ UNCHANGED <<clock, documents, drawn, handed, lostAcks>>

(* inspectUpload finishes a delivery whose bytes arrived; otherwise it only*)
(* reads.                                                                  *)
BeginInspect(c, p, u) ==
    /\ upload[u].status = "reserved" /\ staging[u] # None
    /\ p \in Authorized /\ upload[u].binding.pub = p /\ Readable(upload[u])
    /\ Begin(c, [pc |-> "mark", up |-> u, at |-> clock])
    /\ UNCHANGED <<clock, documents, drawn, handed, lostAcks>>

Marked(r, at) == [r EXCEPT !.status = "delivered", !.delivered = at]

MarkTx(c) ==
    LET u == call[c].up IN
    /\ call[c].pc = "mark"
    /\ UNCHANGED <<clock, staging, artifacts, published, release, pointer, quarantined,
                   drawn, handed>>
    /\ \/ /\ ~Readable(upload[u]) \/ upload[u].status # "reserved"
          /\ Answer(c, IF Readable(upload[u]) /\ upload[u].status # "awaiting"
                       THEN "ok" ELSE "unknown")
          /\ UNCHANGED upload
       \/ /\ Readable(upload[u]) /\ upload[u].status = "reserved"
          /\ upload' = [upload EXCEPT ![u] = Marked(upload[u], call[c].at)]
          /\ Commit(c, [pc |-> "ok"])

-----------------------------------------------------------------------------
(* finalizeRelease *)

Verified(u) == staging[u] = DigestOf[upload[u].binding.input]

(* What finalizeRelease answers before it writes anything, if it stops. *)
EarlyAnswer(p, u) ==
    LET r == upload[u] IN
    IF p \notin Authorized \/ r.status = "absent" \/ Elsewhere(p, u) THEN "denied"
    ELSE IF ~Readable(r) THEN "unknown"
    ELSE IF r.binding.pub # p \/ r.status = "awaiting" THEN "denied"
    ELSE IF r.status = "finalized" THEN "ok"
    ELSE IF ~Verified(u) THEN "denied"
    ELSE "none"

(* The release is committed without the immutable object. *)
WrongBeginFinalize(c, p, u) ==
    /\ Begin(c, IF EarlyAnswer(p, u) = "none"
                THEN [pc |-> "finalize", up |-> u, at |-> clock]
                ELSE [pc |-> EarlyAnswer(p, u)])
    /\ UNCHANGED <<clock, documents, drawn, handed, lostAcks>>

(* Reads the upload and its bytes, writes the immutable object and reads   *)
(* the clock for finalized_at.                                             *)
BeginFinalize(c, p, u) ==
    /\ IF EarlyAnswer(p, u) = "none"
       THEN /\ Begin(c, [pc |-> "finalize", up |-> u, at |-> clock])
            /\ artifacts' = artifacts \cup {staging[u]}
       ELSE /\ Begin(c, [pc |-> EarlyAnswer(p, u)])
            /\ UNCHANGED artifacts
    /\ UNCHANGED <<clock, upload, staging, published, release, pointer, quarantined,
                   drawn, handed, lostAcks>>

Finalized(r, at) ==
    IF r.status = "finalized" THEN r
    ELSE [r EXCEPT !.status = "finalized", !.finalized = at,
                   !.delivered = IF r.delivered = 0 THEN at ELSE r.delivered]

(* The later release wins. *)
WrongConflicts(h, d, b) == FALSE

(* The digest is released already, for another description or publisher. *)
Conflicts(h, d, b) == release[h][d] \notin {None, b}

(* #commitFinalization *)
FinalizeTx(c) ==
    LET u == call[c].up
        b == upload[u].binding
        h == HomeOf[b.pub]
        d == DigestOf[b.input]
    IN
    /\ call[c].pc = "finalize"
    /\ UNCHANGED <<clock, staging, artifacts, pointer, quarantined, drawn, handed>>
    /\ \/ /\ ~Readable(upload[u]) \/ Conflicts(h, d, b)
          /\ Answer(c, IF Readable(upload[u]) THEN "denied" ELSE "unknown")
          /\ UNCHANGED <<upload, published, release>>
       \/ /\ Readable(upload[u]) /\ ~Conflicts(h, d, b)
          /\ published' = published \cup {d}
          /\ release' = [release EXCEPT ![h][d] = b]
          /\ upload' = [upload EXCEPT ![u] = Finalized(upload[u], call[c].at)]
          /\ Commit(c, [pc |-> "ok"])

-----------------------------------------------------------------------------
(* activateRelease and quarantineDigest *)

BeginActivate(c, p, d, expected, gen) ==
    /\ expected < gen
    /\ Begin(c, [pc |-> "activate", pub |-> p, digest |-> d, expected |-> expected,
                 gen |-> gen])
    /\ UNCHANGED <<clock, documents, drawn, handed, lostAcks>>

(* The expected generation is not compared. *)
WrongActivatable(c) ==
    LET r == call[c]
        h == HomeOf[r.pub]
    IN
    /\ r.pub \in Authorized
    /\ release[h][r.digest] # None /\ r.digest \in published
    /\ r.digest \notin quarantined

Activatable(c) ==
    LET r == call[c]
        h == HomeOf[r.pub]
    IN
    /\ r.pub \in Authorized
    /\ release[h][r.digest] # None
    /\ r.digest \in published
    /\ r.digest \notin quarantined
    /\ pointer[h].gen = r.expected

ActivateTx(c) ==
    LET r == call[c]
        h == HomeOf[r.pub]
    IN
    /\ r.pc = "activate"
    /\ UNCHANGED <<clock, upload, staging, artifacts, published, release, quarantined,
                   drawn, handed>>
    /\ \/ /\ ~Activatable(c)
          /\ Answer(c, IF r.pub \in Authorized /\ release[h][r.digest] # None
                          /\ r.digest \notin published
                       THEN "unknown" ELSE "denied")
          /\ UNCHANGED pointer
       \/ /\ Activatable(c)
          /\ pointer' = [pointer EXCEPT ![h] = [gen |-> r.gen, digest |-> r.digest,
                                               binding |-> release[h][r.digest]]]
          /\ Commit(c, [pc |-> "ok"])

QuarantineDigest(d) ==
    /\ quarantined' = quarantined \cup {d}
    /\ UNCHANGED <<clock, upload, staging, artifacts, published, release, pointer,
                   call, drawn, handed, lostAcks>>

-----------------------------------------------------------------------------
(* The instance dies, the SDK gives up, or the admission callback throws. *)
Abandon(c) ==
    /\ ~Free(c)
    /\ Answer(c, "unknown")
    /\ UNCHANGED <<clock, documents, drawn, handed>>

Tick ==
    /\ clock < MaxClock
    /\ clock' = clock + 1
    /\ UNCHANGED <<documents, call, drawn, handed, lostAcks>>

BeginCall(c) ==
    \/ \E p \in Publishers, i \in Inputs : BeginIssue(c, p, i)
    \/ \E t \in Tokens, d \in Digests : BeginDeliver(c, t, d)
    \/ \E p \in Publishers, u \in Uploads : BeginInspect(c, p, u) \/ BeginFinalize(c, p, u)
    \/ \E p \in Publishers, d \in Digests, e, g \in 0..MaxGeneration :
            BeginActivate(c, p, d, e, g)

Proceed(c) ==
    \/ IssueTx(c) \/ ReserveTx(c) \/ WriteStaging(c) \/ StartMark(c) \/ MarkTx(c)
    \/ FinalizeTx(c) \/ ActivateTx(c) \/ Abandon(c)

Next ==
    \/ Tick
    \/ \E c \in Calls : BeginCall(c) \/ Proceed(c)
    \/ \E d \in Suspects : QuarantineDigest(d)

Spec == Init /\ [][Next]_vars

-----------------------------------------------------------------------------
(* Properties. *)

(* Every document, storage object, call and history variable has its type. *)
TypeOK ==
    /\ clock \in Nat \ {0}
    /\ upload \in [Uploads -> UploadRecord]
    /\ staging \in [Uploads -> Digests \cup {None}]
    /\ artifacts \subseteq Digests /\ published \subseteq Digests
    /\ release \in [Homes -> [Digests -> Bindings \cup {None}]]
    /\ pointer \in [Homes -> {Nowhere} \cup [gen: Nat, digest: Digests, binding: Bindings]]
    /\ quarantined \subseteq Digests
    /\ call \in [Calls -> CallRecord]
    /\ drawn \subseteq Tokens /\ handed \subseteq drawn
    /\ lostAcks \in Nat

(* One delivery per capability: however PUTs with the same capability race *)
(* and lose acknowledgements, at most one of them reaches Storage, it finds*)
(* no bytes there, and the upload is no longer awaiting them.              *)
SingleDelivery ==
    \A c \in Calls : call[c].pc = "stage" =>
        /\ staging[call[c].up] = None
        /\ upload[call[c].up].status \notin {"absent", "awaiting"}
        /\ \A b \in Calls : call[b].pc = "stage" /\ call[b].up = call[c].up => b = c

(* An upload says "finalized" only if its home's release of that digest is *)
(* the one this upload describes, by the same publisher, and the staged    *)
(* bytes are the promised ones: two uploads of the same bytes never        *)
(* overwrite each other's release.                                         *)
FinalizedMatchesRelease ==
    \A u \in Uploads : upload[u].status = "finalized" =>
        LET b == upload[u].binding IN
        /\ release[HomeOf[b.pub]][DigestOf[b.input]] = b
        /\ Verified(u)

(* Whatever crashes between the Storage and the Firestore writes, a release*)
(* has its publication marker and its bytes, and a live pointer repeats the*)
(* release it names: a resident never follows a pointer to nothing.        *)
PointerServes ==
    \A h \in Homes :
        /\ \A d \in Digests : release[h][d] # None => d \in published \cap artifacts
        /\ pointer[h] # Nowhere => pointer[h].binding = release[h][pointer[h].digest]

(* A release counts once its record, its marker and its bytes are there.   *)
Complete ==
    [h \in Homes |-> [d \in Digests |->
        IF d \in published \cap artifacts THEN release[h][d] ELSE None]]

Interface == INSTANCE PublishedInterface WITH
    released <- Complete, live <- pointer, Generations <- 0..MaxGeneration

(* Publication implements PublishedInterface: releases appear complete and *)
(* never change, the pointer moves by increasing generation to complete,   *)
(* unquarantined releases, and nothing else is visible to residents.       *)
ImplementsInterface == Interface!Spec

(* RFC 0004 section 13.2 reconciles a lost upload or finalization response *)
(* by reading the upload record, which supposes it can be read.  The code  *)
(* breaks it when #markDelivered commits between the moment finalization   *)
(* reads its clock and its commit: delivered_at is then after finalized_at *)
(* and validateUpload refuses the record for good.                         *)
UploadsStayReadable ==
    \A u \in Uploads : upload[u] # NoUpload => Readable(upload[u])
=============================================================================
