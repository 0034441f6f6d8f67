------------------------------ MODULE LiveHost ------------------------------
(***************************************************************************)
(* The live host of the shell (src/app/live-host.ts with the identity of   *)
(* configured-host.ts): who is signed in, the relay client that serves     *)
(* them, the credentials that client is given, the state it reports, and   *)
(* the calls it carries.                                                   *)
(*                                                                         *)
(* JavaScript runs to completion: a step is one callback, or one piece of  *)
(* an async function between two awaits.  Every handler that changes what  *)
(* a snapshot shows publishes one before it ends, so the snapshot is       *)
(* computed here from the fields themselves.  The SDK client, the relay    *)
(* and Firebase are external: a client asks for credentials, changes its   *)
(* status and reports state whenever it likes; Firebase notifies of the    *)
(* accounts one after the other, later than they change.                   *)
(*                                                                         *)
(* A definition whose name begins with Wrong is a deliberately faulty      *)
(* variant of the one after it, for checking that a property can fail.     *)
(***************************************************************************)
EXTENDS Naturals, Sequences

CONSTANTS
    Users, None,
    MaxClients,   \* bound: clients created
    MaxChanges,   \* bound: changes of the account
    MaxCalls      \* bound: calls started

ASSUME LiveHostAssumption ==
    /\ None \notin Users
    /\ MaxClients \in Nat \ {0} /\ MaxChanges \in Nat /\ MaxCalls \in Nat

VARIABLES
    account,      \* auth.currentUser
    notices,      \* notifications of onAuthStateChanged on their way
    changes,      \* changes of the account so far
    userId,       \* #userId of the host and of its identity
    epoch,        \* #authorizationEpoch
    signInStatus,
    popups,       \* the epochs whose signIn() is still awaited
    client,       \* #client as an index of clients, or 0
    clients,      \* every client created, with its credential provider
    status,       \* connectionFrom(#status); reconnecting counts as connecting
    homeState,    \* #homeState with the user it was reported to
    action,       \* #action.state; an unknown outcome counts as a failure
    actionGeneration,
    calls,        \* calls started, through interact or call
    answers,      \* history: <<who asked, who is signed in>> for answers passed on
    disposed

identity == <<account, notices, changes, userId, epoch, signInStatus, popups>>
connection == <<client, clients, status, homeState>>
hostVars == <<identity, connection, action, actionGeneration, calls, answers, disposed>>

Resident == Users \cup {None}
Busy     == {"pending", "accepted"}
Over     == [kind |-> "over", stage |-> "over"]
NoFetch  == [stage |-> "idle", user |-> None]

(* The request a client has made of its provider, and whose token it has.  *)
(* App Check tokens are nobody's: their part of the request, with checks   *)
(* that the last one repeats, belongs to the exchange.                     *)
Fetch == {NoFetch} \cup [stage: {"token", "exchange"}, user: Users]

(* user is who was signed in when the client was created. *)
ClientRecord == [user: Users, epoch: Nat, fetch: Fetch, cred: Resident]

(* asker is the resident who pressed, or whose interface called; a call is *)
(* over when its result was heard, and its acceptance if that matters.     *)
CallRecord ==
    [kind: {"action", "house"}, asker: Users, via: Nat, generation: Nat,
     stage: {"sent", "accepted", "settled"}] \cup {Over}

Open(c) == c.stage \in {"sent", "accepted"}

HostTypeOK ==
    /\ {account, userId} \subseteq Resident /\ notices \in Seq(Resident)
    /\ changes \in 0..MaxChanges /\ epoch \in Nat
    /\ signInStatus \in {"idle", "pending", "failed"} /\ popups \in SUBSET Nat
    /\ clients \in Seq(ClientRecord) /\ client \in 0..Len(clients)
    /\ status \in {"connecting", "ready", "unavailable"}
    /\ homeState \in [user: Resident, stale: BOOLEAN] \cup {None}
    /\ action \in {"idle", "applied", "failed"} \cup Busy
    /\ actionGeneration \in Nat /\ calls \in Seq(CallRecord)
    /\ answers \in SUBSET (Users \X Resident) /\ disposed \in BOOLEAN

-----------------------------------------------------------------------------
(* Connecting and disconnecting. *)

NewClient(u, e) == [user |-> u, epoch |-> e, fetch |-> NoFetch, cred |-> None]

(* #connect for u in the epoch that begins. *)
Connected(u) ==
    /\ Len(clients) < MaxClients
    /\ clients' = Append(clients, NewClient(u, epoch'))
    /\ client' = Len(clients) + 1
    /\ status' = "connecting"

(* The state of the client before is kept until the next reports its own. *)
WrongForgotten ==
    /\ action' = "idle" /\ actionGeneration' = actionGeneration + 1
    /\ UNCHANGED homeState

(* What #disconnect clears at once, whatever stop() takes. *)
Forgotten ==
    /\ homeState' = None
    /\ action' = "idle" /\ actionGeneration' = actionGeneration + 1

(* Whoever is signed in gets a client of their own. *)
Served(u) ==
    IF u # None THEN Connected(u)
    ELSE client' = 0 /\ status' = "unavailable" /\ UNCHANGED clients

HostInit ==
    /\ account \in Resident /\ userId = account
    /\ notices = <<>> /\ changes = 0 /\ epoch = 0
    /\ signInStatus = "idle" /\ popups = {}
    /\ clients = IF userId = None THEN <<>> ELSE <<NewClient(userId, 0)>>
    /\ client = Len(clients)
    /\ status = IF userId = None THEN "unavailable" ELSE "connecting"
    /\ homeState = None /\ action = "idle" /\ actionGeneration = 0
    /\ calls = <<>> /\ answers = {} /\ disposed = FALSE

-----------------------------------------------------------------------------
(* Identity. *)

(* Firebase has another account, and will say so. *)
Switched(u) ==
    /\ changes < MaxChanges /\ u # account
    /\ account' = u /\ changes' = changes + 1 /\ notices' = Append(notices, u)

(* Another tab signs in or out, or the resident signs out here (signOut).  *)
AccountChanges(u) ==
    /\ Switched(u)
    /\ UNCHANGED <<userId, epoch, signInStatus, popups, connection, action,
                   actionGeneration, calls, answers, disposed>>

(* The listener of onAuthStateChanged and the host's own, which it calls.  *)
Notified ==
    /\ ~disposed /\ notices # <<>>
    /\ notices' = Tail(notices)
    /\ userId' = Head(notices)
    /\ IF userId' = userId
       THEN UNCHANGED <<epoch, signInStatus, connection, action, actionGeneration>>
       ELSE /\ epoch' = epoch + 1 /\ signInStatus' = "idle"
            /\ Forgotten /\ Served(userId')
    /\ UNCHANGED <<account, changes, popups, calls, answers, disposed>>

signIn ==
    /\ ~disposed /\ userId = None /\ signInStatus # "pending"
    /\ signInStatus' = "pending" /\ popups' = popups \cup {epoch}
    /\ UNCHANGED <<account, notices, changes, userId, epoch, connection, action,
                   actionGeneration, calls, answers, disposed>>

(* The popup of epoch e is answered by u, or fails; one from before the    *)
(* last transition leaves no trace.                                        *)
PopupEnds(e, u) ==
    /\ e \in popups
    /\ popups' = popups \ {e}
    /\ \/ u # None /\ Switched(u)
       \/ u \in {None, account} /\ UNCHANGED <<account, changes, notices>>
    /\ signInStatus' = IF disposed \/ e # epoch THEN signInStatus
                       ELSE IF u = None THEN "failed" ELSE "idle"
    /\ UNCHANGED <<userId, epoch, connection, action, actionGeneration, calls,
                   answers, disposed>>

reconnect ==
    /\ ~disposed /\ userId # None /\ status = "unavailable"
    /\ epoch' = epoch + 1
    /\ Forgotten /\ Connected(userId)
    /\ UNCHANGED <<account, notices, changes, userId, signInStatus, popups, calls,
                   answers, disposed>>

dispose ==
    /\ ~disposed /\ disposed' = TRUE
    /\ actionGeneration' = actionGeneration + 1 /\ client' = 0
    /\ UNCHANGED <<identity, clients, status, homeState, action, calls, answers>>

-----------------------------------------------------------------------------
(* Credentials: the provider a client was created with. *)

(* current(): what the provider of client n checks before and after awaits. *)
Current(n) == ~disposed /\ clients[n].epoch = epoch /\ userId # None

FetchBecomes(n, f) == clients' = [clients EXCEPT ![n] = [@ EXCEPT !.fetch = f]]
OnlyClients ==
    UNCHANGED <<identity, client, status, homeState, action, actionGeneration, calls,
                answers, disposed>>

(* getCredential, up to the request for the account's identity token. *)
AsksCredential(n) ==
    /\ Current(n) /\ account # None /\ clients[n].fetch = NoFetch
    /\ FetchBecomes(n, [stage |-> "token", user |-> account])
    /\ OnlyClients

(* The identity does not ask whether the account changed meanwhile. *)
WrongTokenIsOurs(u) == account = u

(* What FirebaseLiveIdentity checks of the token of u that has arrived. *)
TokenIsOurs(u) == account = u /\ userId = u

TokenArrives(n) ==
    /\ clients[n].fetch.stage = "token"
    /\ FetchBecomes(n, IF TokenIsOurs(clients[n].fetch.user) /\ Current(n)
                       THEN [clients[n].fetch EXCEPT !.stage = "exchange"] ELSE NoFetch)
    /\ OnlyClients

(* The control plane has exchanged the tokens for a relay credential. *)
Exchanged(n) ==
    /\ clients[n].fetch.stage = "exchange"
    /\ clients' = [clients EXCEPT ![n] =
            [@ EXCEPT !.fetch = NoFetch,
                      !.cred = IF Current(n) THEN clients[n].fetch.user
                               ELSE clients[n].cred]]
    /\ OnlyClients

(* A token or the exchange is refused, times out, or stop() aborts it. *)
FetchFails(n) ==
    /\ clients[n].fetch # NoFetch
    /\ FetchBecomes(n, NoFetch)
    /\ OnlyClients

-----------------------------------------------------------------------------
(* What the current client reports; a retired one has lost its listeners. *)

OnlyReport ==
    UNCHANGED <<identity, client, clients, action, actionGeneration, calls, answers,
                disposed>>

(* The client's own status, or start() that rejects. *)
ClientStatus(s) ==
    /\ client # 0 /\ s # status
    /\ s = "ready" => clients[client].cred # None
    /\ status' = s
    /\ UNCHANGED homeState /\ OnlyReport

StateReported(stale) ==
    /\ client # 0 /\ clients[client].cred # None
    /\ homeState' = [user |-> clients[client].cred, stale |-> stale]
    /\ UNCHANGED status /\ OnlyReport

-----------------------------------------------------------------------------
(* Actions and calls. *)

Started(kind, asker, generation) ==
    /\ calls' = Append(calls,
            [kind |-> kind, asker |-> asker, via |-> client, generation |-> generation,
             stage |-> "sent"])

Live == client # 0 /\ status = "ready" /\ (homeState # None => ~homeState.stale)

(* A second press is taken while the first waits for its outcome. *)
WrongMayAct == Live /\ action # "pending"

MayAct == Live /\ action \notin Busy

(* interact, with a client that takes the call or throws. *)
interact ==
    /\ ~disposed /\ MayAct /\ Len(calls) < MaxCalls
    /\ actionGeneration' = actionGeneration + 1
    /\ \/ action' = "pending" /\ Started("action", userId, actionGeneration + 1)
       \/ action' = "failed" /\ calls' = Append(calls, Over)
    /\ UNCHANGED <<identity, connection, answers, disposed>>

(* call, for the interface of asker; a client that throws changes nothing. *)
call(asker) ==
    /\ ~disposed /\ Live /\ Len(calls) < MaxCalls
    /\ Started("house", asker, actionGeneration)
    /\ UNCHANGED <<identity, connection, action, actionGeneration, answers, disposed>>

IsCurrentAction(i) ==
    /\ ~disposed /\ calls[i].kind = "action" /\ calls[i].generation = actionGeneration

(* An acceptance that comes after the outcome is old news. *)
AcceptanceCounts(i) == IsCurrentAction(i) /\ action = "pending"

(* The promises of acceptance and of the result are heard in any order. *)
Accepted(i) ==
    /\ calls[i].kind = "action" /\ calls[i].stage # "accepted"
    /\ calls' = [calls EXCEPT ![i] =
            IF @.stage = "sent" THEN [@ EXCEPT !.stage = "accepted"] ELSE Over]
    /\ action' = IF AcceptanceCounts(i) THEN "accepted" ELSE action
    /\ UNCHANGED <<identity, connection, actionGeneration, answers, disposed>>

(* An answer is passed on whoever is signed in by now. *)
WrongPassesOn(i) == ~disposed

(* call() passes the answer on to the interface that asked, or denies it. *)
PassesOn(i) == ~disposed /\ client = calls[i].via

(* outcome is "applied" for a call that succeeded. *)
Settled(i, outcome) ==
    /\ Open(calls[i])
    /\ calls' = [calls EXCEPT ![i] =
            IF @.kind = "action" /\ @.stage = "sent" THEN [@ EXCEPT !.stage = "settled"]
            ELSE Over]
    /\ action' = IF IsCurrentAction(i) THEN outcome ELSE action
    /\ answers' = IF calls[i].kind = "house" /\ outcome = "applied" /\ PassesOn(i)
                  THEN answers \cup {<<calls[i].asker, userId>>} ELSE answers
    /\ UNCHANGED <<identity, connection, actionGeneration, disposed>>

-----------------------------------------------------------------------------
(* Continuations of promises, which do nothing once the host is disposed of. *)

Continuation ==
    /\ ~disposed
    /\ \/ \E n \in DOMAIN clients : TokenArrives(n) \/ Exchanged(n) \/ FetchFails(n)
       \/ \E i \in DOMAIN calls :
             Accepted(i) \/ \E outcome \in {"applied", "failed"} : Settled(i, outcome)
       \/ \E e \in popups, u \in Resident : PopupEnds(e, u)

Event ==
    \/ \E u \in Resident : AccountChanges(u)
    \/ Notified \/ signIn \/ reconnect
    \/ \E n \in DOMAIN clients : AsksCredential(n)
    \/ \E s \in {"connecting", "ready", "unavailable"} : ClientStatus(s)
    \/ \E stale \in BOOLEAN : StateReported(stale)
=============================================================================
