------------------------ MODULE ResidentShellProofs ------------------------
(* Proofs of the safety properties of ResidentShell, for any number of     *)
(* residents, clients, changes of the account, calls and retries.          *)
EXTENDS ResidentShell, FiniteSetTheorems, SequenceTheorems, TLAPS

-----------------------------------------------------------------------------
(* The inductive invariant. *)

(* A client is no newer than the epoch e; the credential of one that is of *)
(* the epoch, and the identity token it exchanges, are those of u.         *)
Fits(c, e, u) ==
    /\ c.epoch <= e
    /\ c.epoch = e => c.cred \in {None, u}
    /\ c.epoch = e /\ c.fetch.stage = "exchange" => c.fetch.user = u

ServesResident ==
    /\ \A n \in DOMAIN clients : Fits(clients[n], epoch, userId)
    /\ client # 0 => clients[client].epoch = epoch
    /\ client # 0 /\ status = "ready" => clients[client].cred # None
    /\ homeState # None => homeState.user = userId

(* An open call was made with its resident's credential. *)
CarriesFaithfully ==
    /\ \A i \in DOMAIN calls : Open(calls[i]) =>
            /\ calls[i].via \in DOMAIN clients
            /\ clients[calls[i].via].cred = calls[i].asker
    /\ \A p \in answers : p[1] = p[2]

(* The generation tells the action that is in flight on the connection from *)
(* those of earlier connections, and from those that were settled.         *)
Acting(i) == calls[i].kind = "action" /\ calls[i].generation = actionGeneration

PressesOnce ==
    /\ \A i \in DOMAIN calls :
            calls[i].kind = "action" => calls[i].generation <= actionGeneration
    /\ \A i, j \in DOMAIN calls : Acting(i) /\ Acting(j) => i = j
    /\ ~disposed =>
        /\ \A i \in DOMAIN calls :
                calls[i].kind = "action" /\ Open(calls[i])
                => (calls[i].via = client <=> Acting(i))
        /\ action \in Busy <=> \E i \in DOMAIN calls : Acting(i) /\ Open(calls[i])

(* What was rendered in this epoch, or in an earlier one, and what is open. *)
ShowsResident ==
    /\ rendered.epoch = epoch /\ rendered.user # None => rendered.user = userId
    /\ rendered.user # None /\ rendered.home # None
       => rendered.home.user = rendered.user
    /\ loading # 0 => Enabled(rendered)
    /\ mounted # None => /\ Enabled(rendered)
                         /\ mounted.request = request
                         /\ mounted.user = rendered.user

-----------------------------------------------------------------------------
(* Sequences. *)

LEMMA Appended ==
    ASSUME NEW R, NEW s \in Seq(R), NEW x \in R
    PROVE  /\ Append(s, x) \in Seq(R)
           /\ Len(Append(s, x)) = Len(s) + 1
           /\ DOMAIN Append(s, x) = 1..(Len(s) + 1)
           /\ DOMAIN s = 1..Len(s) /\ Len(s) \in Nat
           /\ Append(s, x)[Len(s) + 1] = x
           /\ \A n \in DOMAIN s : Append(s, x)[n] = s[n]
OBVIOUS

LEMMA Replaced ==
    ASSUME NEW R, NEW s \in Seq(R), NEW i \in DOMAIN s, NEW x \in R
    PROVE  /\ [s EXCEPT ![i] = x] \in Seq(R)
           /\ Len([s EXCEPT ![i] = x]) = Len(s)
           /\ DOMAIN [s EXCEPT ![i] = x] = DOMAIN s
           /\ [s EXCEPT ![i] = x][i] = x
           /\ \A n \in DOMAIN s \ {i} : [s EXCEPT ![i] = x][n] = s[n]
BY ExceptSeq, LenProperties

LEMMA Members ==
    ASSUME NEW R, NEW s \in Seq(R)
    PROVE  DOMAIN s = 1..Len(s) /\ Len(s) \in Nat /\ \A i \in DOMAIN s : s[i] \in R
OBVIOUS

-----------------------------------------------------------------------------
(* Records. *)

LEMMA NewClientType ==
    ASSUME NEW u \in Users, NEW e \in Nat
    PROVE  /\ NewClient(u, e) \in ClientRecord
           /\ NewClient(u, e).epoch = e /\ NewClient(u, e).cred = None
           /\ NewClient(u, e).fetch.stage = "idle"
BY DEF NewClient, ClientRecord, Fetch, NoFetch, Resident

LEMMA NewFetch ==
    ASSUME NEW c \in ClientRecord, NEW f \in Fetch
    PROVE  /\ [c EXCEPT !.fetch = f] \in ClientRecord
           /\ [c EXCEPT !.fetch = f].epoch = c.epoch
           /\ [c EXCEPT !.fetch = f].cred = c.cred
           /\ [c EXCEPT !.fetch = f].fetch = f
BY DEF ClientRecord

LEMMA NewCredential ==
    ASSUME NEW c \in ClientRecord, NEW u \in Resident
    PROVE  /\ [c EXCEPT !.fetch = NoFetch, !.cred = u] \in ClientRecord
           /\ [c EXCEPT !.fetch = NoFetch, !.cred = u].epoch = c.epoch
           /\ [c EXCEPT !.fetch = NoFetch, !.cred = u].cred = u
           /\ [c EXCEPT !.fetch = NoFetch, !.cred = u].fetch = NoFetch
BY DEF ClientRecord, Fetch

LEMMA FetchTypes ==
    /\ NoFetch \in Fetch /\ NoFetch.stage = "idle"
    /\ \A f \in Fetch : f.stage \in {"token", "exchange"} =>
            /\ f.user \in Users
            /\ f.stage = "token" => [f EXCEPT !.stage = "exchange"] \in Fetch
            /\ [f EXCEPT !.stage = "exchange"].user = f.user
BY DEF Fetch, NoFetch

LEMMA CallTypes ==
    /\ Over \in CallRecord /\ ~Open(Over) /\ Over.kind = "over"
    /\ \A r \in CallRecord : r.kind # "over" \/ Open(r) =>
            /\ r.kind \in {"action", "house"}
            /\ r.asker \in Users /\ r.via \in Nat /\ r.generation \in Nat
BY DEF CallRecord, Over, Open

(* Hearing an acceptance or an outcome changes the stage alone. *)
LEMMA CallMarked ==
    ASSUME NEW r \in CallRecord, r.kind # "over",
           NEW stage \in {"sent", "accepted", "settled"}
    PROVE  /\ [r EXCEPT !.stage = stage] \in CallRecord
           /\ [r EXCEPT !.stage = stage].kind = r.kind
           /\ [r EXCEPT !.stage = stage].asker = r.asker
           /\ [r EXCEPT !.stage = stage].via = r.via
           /\ [r EXCEPT !.stage = stage].generation = r.generation
           /\ [r EXCEPT !.stage = stage].stage = stage
BY DEF CallRecord, Over

-----------------------------------------------------------------------------
(* Groups of steps that touch the same part of the state. *)

IdentityStep ==
    UNCHANGED <<userId, epoch, connection, action, actionGeneration, calls, answers,
                disposed>>

TransitionStep ==
    /\ ~disposed /\ epoch' = epoch + 1
    /\ Forgotten /\ Served(userId')
    /\ UNCHANGED <<calls, answers, disposed>>

(* The provider of client n leaves it as c. *)
ProviderStep(n, c) ==
    /\ clients' = [clients EXCEPT ![n] = c]
    /\ c.epoch = clients[n].epoch
    /\ \/ c.cred = clients[n].cred
       \/ c.cred = userId /\ userId # None /\ c.epoch = epoch
    /\ Fits(c, epoch, userId)
    /\ OnlyClients

LEMMA ProviderSteps ==
    ASSUME HostTypeOK, ServesResident, NEW n \in DOMAIN clients,
           \/ AsksCredential(n) \/ TokenArrives(n) \/ Exchanged(n) \/ FetchFails(n)
    PROVE  \E c \in ClientRecord : ProviderStep(n, c)
<1> DEFINE old == clients[n]
<1>1. /\ old \in ClientRecord /\ Fits(old, epoch, userId)
      /\ old.epoch \in Nat /\ old.fetch \in Fetch /\ epoch \in Nat
  <2>1. old \in ClientRecord
    BY Members DEF HostTypeOK
  <2> QED BY <2>1 DEF HostTypeOK, ServesResident, ClientRecord
<1>2. ASSUME NEW f \in Fetch, FetchBecomes(n, f), OnlyClients,
             old.epoch = epoch /\ f.stage = "exchange" => f.user = userId
      PROVE  ProviderStep(n, [old EXCEPT !.fetch = f])
  <2>1. clients' = [clients EXCEPT ![n] = [old EXCEPT !.fetch = f]]
    BY <1>2 DEF FetchBecomes
  <2> HIDE DEF old
  <2>2. Fits([old EXCEPT !.fetch = f], epoch, userId)
    BY <1>1, <1>2, NewFetch DEF Fits
  <2> QED BY <1>1, <1>2, <2>1, <2>2, NewFetch DEF ProviderStep, old
<1>3. ASSUME NEW f \in Fetch, FetchBecomes(n, f), OnlyClients,
             old.epoch = epoch /\ f.stage = "exchange" => f.user = userId
      PROVE  \E c \in ClientRecord : ProviderStep(n, c)
  <2> HIDE DEF old
  <2>1. [old EXCEPT !.fetch = f] \in ClientRecord
    BY <1>1, NewFetch
  <2>2. ProviderStep(n, [old EXCEPT !.fetch = f])
    BY <1>2, <1>3
  <2> QED BY <2>1, <2>2
<1>4. CASE AsksCredential(n)
  <2>1. [stage |-> "token", user |-> account] \in Fetch
    BY <1>4 DEF AsksCredential, HostTypeOK, Resident, Fetch
  <2> QED BY <1>3, <1>4, <2>1 DEF AsksCredential
<1>5. CASE TokenArrives(n)
  <2> DEFINE f == IF TokenIsOurs(old.fetch.user) /\ Current(n)
                  THEN [old.fetch EXCEPT !.stage = "exchange"] ELSE NoFetch
  <2>1. /\ f \in Fetch
        /\ f.stage = "exchange" => f.user = userId
    BY <1>1, <1>5, FetchTypes DEF TokenArrives, TokenIsOurs
  <2>2. FetchBecomes(n, f) /\ OnlyClients
    BY <1>5 DEF TokenArrives
  <2> QED BY <1>3, <2>1, <2>2
<1>6. CASE Exchanged(n)
  <2> DEFINE u == IF Current(n) THEN old.fetch.user ELSE old.cred
             c == [old EXCEPT !.fetch = NoFetch, !.cred = u]
  <2>1. /\ old.fetch.user \in Users
        /\ Current(n) => old.fetch.user = userId /\ userId # None
    BY <1>1, <1>6, FetchTypes DEF Exchanged, Fits, Current
  <2>2. u \in Resident
    BY <1>1, <2>1 DEF ClientRecord, Resident
  <2>3. clients' = [clients EXCEPT ![n] = c] /\ OnlyClients
    BY <1>6 DEF Exchanged
  <2>4. u = old.cred \/ (u = userId /\ userId # None /\ old.epoch = epoch)
    BY <2>1 DEF Current
  <2> HIDE DEF u, old
  <2>5. /\ c \in ClientRecord /\ c.epoch = old.epoch /\ c.cred = u
        /\ c.fetch.stage = "idle"
    BY <1>1, <2>2, NewCredential, FetchTypes
  <2>6. Fits(c, epoch, userId)
    BY <1>1, <2>4, <2>5 DEF Fits
  <2> HIDE DEF c
  <2>7. ProviderStep(n, c)
    BY <2>3, <2>4, <2>5, <2>6 DEF ProviderStep, old
  <2> QED BY <2>5, <2>7
<1>7. CASE FetchFails(n)
  BY <1>3, <1>7, FetchTypes DEF FetchFails
<1> QED BY <1>4, <1>5, <1>6, <1>7

-----------------------------------------------------------------------------
(* The connection serves the resident. *)

LEMMA ServedKept ==
    ASSUME ServesResident, UNCHANGED <<userId, epoch, connection>>
    PROVE  ServesResident'
BY DEF ServesResident, connection

LEMMA ServedDisposed ==
    ASSUME ServesResident, dispose
    PROVE  ServesResident'
BY DEF ServesResident, dispose, identity

LEMMA ServedReported ==
    ASSUME HostTypeOK, ServesResident,
           \/ \E s \in {"connecting", "ready", "unavailable"} : ClientStatus(s)
           \/ \E stale \in BOOLEAN : StateReported(stale)
    PROVE  ServesResident'
<1>1. CASE \E s \in {"connecting", "ready", "unavailable"} : ClientStatus(s)
  BY <1>1 DEF ServesResident, ClientStatus, OnlyReport, identity
<1>2. CASE \E stale \in BOOLEAN : StateReported(stale)
  <2>1. PICK stale \in BOOLEAN : StateReported(stale)
    BY <1>2
  <2>2. client # 0 /\ clients[client].cred # None /\ client \in DOMAIN clients
    BY <2>1, Members DEF StateReported, HostTypeOK
  <2>3. clients[client].cred = userId
    BY <2>2 DEF ServesResident, Fits
  <2>4. homeState' = [user |-> userId, stale |-> stale]
    BY <2>1, <2>3 DEF StateReported
  <2>5. homeState'.user = userId
    BY <2>4
  <2>6. UNCHANGED <<identity, client, clients, status>>
    BY <2>1 DEF StateReported, OnlyReport
  <2> QED BY <2>5, <2>6 DEF ServesResident, identity
<1> QED BY <1>1, <1>2

LEMMA ServedProvided ==
    ASSUME HostTypeOK, ServesResident,
           NEW n \in DOMAIN clients, NEW c \in ClientRecord, ProviderStep(n, c)
    PROVE  ServesResident'
<1>1. /\ clients' = [clients EXCEPT ![n] = c]
      /\ c.epoch = clients[n].epoch /\ Fits(c, epoch, userId)
      /\ c.cred = clients[n].cred \/ (c.cred = userId /\ userId # None)
      /\ UNCHANGED <<userId, epoch, client, status, homeState>>
  BY DEF ProviderStep, OnlyClients, identity
<1>2. /\ DOMAIN clients' = DOMAIN clients /\ clients'[n] = c
      /\ \A m \in DOMAIN clients \ {n} : clients'[m] = clients[m]
  BY <1>1, Replaced DEF HostTypeOK
<1>3. client # 0 => client \in DOMAIN clients
  BY Members DEF HostTypeOK
<1>4. /\ \A m \in DOMAIN clients : Fits(clients'[m], epoch, userId)
      /\ client # 0 => /\ clients'[client].epoch = clients[client].epoch
                       /\ clients[client].cred # None => clients'[client].cred # None
  BY <1>1, <1>2, <1>3 DEF ServesResident
<1> QED BY <1>1, <1>2, <1>4 DEF ServesResident

LEMMA ServedAgain ==
    ASSUME HostTypeOK, ServesResident, TransitionStep, userId' \in Resident
    PROVE  ServesResident'
<1>1. /\ epoch' = epoch + 1 /\ epoch \in Nat /\ epoch' \in Nat
      /\ homeState' = None /\ Served(userId')
  BY DEF TransitionStep, Forgotten, HostTypeOK
<1>2. \A n \in DOMAIN clients : Fits(clients[n], epoch', userId')
  <2> SUFFICES ASSUME NEW n \in DOMAIN clients
               PROVE  Fits(clients[n], epoch', userId')
    OBVIOUS
  <2>1. clients[n] \in ClientRecord
    BY Members DEF HostTypeOK
  <2>2. clients[n].epoch <= epoch /\ clients[n].epoch \in Nat
    BY <2>1 DEF ServesResident, Fits, ClientRecord
  <2> QED BY <1>1, <2>2 DEF Fits
<1>3. CASE userId' = None
  BY <1>1, <1>2, <1>3 DEF Served, ServesResident
<1>4. CASE userId' # None
  <2> DEFINE c == NewClient(userId', epoch')
  <2>1. /\ c \in ClientRecord /\ c.epoch = epoch' /\ c.cred = None
        /\ Fits(c, epoch', userId')
    BY <1>1, <1>4, NewClientType DEF Fits, Resident
  <2>2. /\ clients' = Append(clients, c) /\ client' = Len(clients) + 1
        /\ status' = "connecting"
    BY <1>1, <1>4 DEF Served, Connected
  <2> HIDE DEF c
  <2>3. /\ DOMAIN clients' = 1..(Len(clients) + 1) /\ DOMAIN clients = 1..Len(clients)
        /\ Len(clients) \in Nat /\ clients'[Len(clients) + 1] = c
        /\ \A n \in DOMAIN clients : clients'[n] = clients[n]
    BY <2>1, <2>2, Appended DEF HostTypeOK
  <2>4. \A n \in DOMAIN clients' : n \in DOMAIN clients \/ n = Len(clients) + 1
    BY <2>3
  <2>5. \A n \in DOMAIN clients' : Fits(clients'[n], epoch', userId')
    BY <1>2, <2>1, <2>3, <2>4
  <2>6. clients'[client'].epoch = epoch'
    BY <2>1, <2>2, <2>3
  <2> QED BY <1>1, <2>2, <2>5, <2>6 DEF ServesResident
<1> QED BY <1>3, <1>4

-----------------------------------------------------------------------------
(* Steps of calls. *)

(* A call is begun as x. *)
BeginStep(x) ==
    /\ ~disposed /\ calls' = Append(calls, x)
    /\ Open(x) => /\ client \in DOMAIN clients
                   /\ x.via = client /\ clients[client].cred = x.asker
    /\ UNCHANGED <<identity, connection, answers, disposed>>

LEMMA LiveServes ==
    ASSUME HostTypeOK, ServesResident, Live
    PROVE  /\ client \in DOMAIN clients /\ client \in Nat
           /\ clients[client].cred = userId /\ userId \in Users
<1>1. client \in DOMAIN clients /\ client # 0 /\ status = "ready" /\ client \in Nat
  BY Members DEF Live, HostTypeOK
<1>2. clients[client].cred # None /\ clients[client].cred \in {None, userId}
  BY <1>1 DEF ServesResident, Fits
<1> QED BY <1>1, <1>2 DEF HostTypeOK, Resident

LEMMA InteractBegins ==
    ASSUME HostTypeOK, ServesResident, interact
    PROVE  \E x \in CallRecord :
              /\ BeginStep(x)
              /\ actionGeneration' = actionGeneration + 1 /\ action \notin Busy
              /\ \/ /\ action' = "pending" /\ Open(x)
                    /\ x.kind = "action" /\ x.generation = actionGeneration'
                 \/ action' = "failed" /\ x = Over
<1>1. /\ ~disposed /\ Live /\ action \notin Busy
      /\ actionGeneration' = actionGeneration + 1 /\ actionGeneration \in Nat
      /\ UNCHANGED <<identity, connection, answers, disposed>>
  BY DEF interact, MayAct, HostTypeOK
<1>2. CASE action' = "pending" /\ Started("action", userId, actionGeneration + 1)
  <2> DEFINE x == [kind |-> "action", asker |-> userId, via |-> client,
                   generation |-> actionGeneration + 1, stage |-> "sent"]
  <2>1. calls' = Append(calls, x)
    BY <1>2 DEF Started
  <2>2. /\ x \in CallRecord /\ Open(x) /\ x.kind = "action"
        /\ x.generation = actionGeneration + 1 /\ x.via = client /\ x.asker = userId
    BY <1>1, LiveServes DEF CallRecord, Open
  <2> HIDE DEF x
  <2> QED BY <1>1, <1>2, <2>1, <2>2, LiveServes DEF BeginStep
<1>3. CASE action' = "failed" /\ calls' = Append(calls, Over)
  BY <1>1, <1>3, CallTypes DEF BeginStep
<1> QED BY <1>2, <1>3 DEF interact

LEMMA CallBegins ==
    ASSUME HostTypeOK, ServesResident, call(userId)
    PROVE  \E x \in CallRecord :
              BeginStep(x) /\ x.kind = "house" /\ UNCHANGED <<action, actionGeneration>>
<1> DEFINE x == [kind |-> "house", asker |-> userId, via |-> client,
                 generation |-> actionGeneration, stage |-> "sent"]
<1>1. calls' = Append(calls, x)
  BY DEF call, Started
<1>2. /\ ~disposed /\ Live /\ actionGeneration \in Nat
      /\ UNCHANGED <<identity, connection, action, actionGeneration, answers, disposed>>
  BY DEF call, HostTypeOK
<1>3. /\ x \in CallRecord /\ x.kind = "house" /\ x.via = client /\ x.asker = userId
  BY <1>2, LiveServes DEF CallRecord
<1> HIDE DEF x
<1> QED BY <1>1, <1>2, <1>3, LiveServes DEF BeginStep

(* Something is heard of call i, which becomes x. *)
HearStep(i, x) ==
    /\ ~disposed /\ calls' = [calls EXCEPT ![i] = x]
    /\ calls[i].kind \in {"action", "house"}
    /\ Open(x) => Open(calls[i])
    /\ x.kind # "over" =>
            /\ x.kind = calls[i].kind /\ x.asker = calls[i].asker
            /\ x.via = calls[i].via /\ x.generation = calls[i].generation
    /\ UNCHANGED <<identity, connection, actionGeneration, disposed>>

LEMMA AcceptedHears ==
    ASSUME HostTypeOK, NEW i \in DOMAIN calls, ~disposed, Accepted(i)
    PROVE  \E x \in CallRecord :
              /\ HearStep(i, x) /\ UNCHANGED answers
              /\ Open(calls[i]) => Open(x) /\ x.kind = "action"
<1> DEFINE c == calls[i]
           x == IF c.stage = "sent" THEN [c EXCEPT !.stage = "accepted"] ELSE Over
<1>1. c \in CallRecord
  BY Members DEF HostTypeOK
<1>2. /\ c.kind = "action" /\ c.stage # "accepted" /\ calls' = [calls EXCEPT ![i] = x]
      /\ ~disposed
      /\ UNCHANGED <<identity, connection, actionGeneration, answers, disposed>>
  BY DEF Accepted
<1> HIDE DEF c
<1>3. /\ x \in CallRecord
      /\ Open(x) <=> Open(c)
      /\ Open(c) => x.kind = "action"
      /\ x.kind # "over" => /\ x.kind = c.kind /\ x.asker = c.asker
                            /\ x.via = c.via /\ x.generation = c.generation
  BY <1>1, <1>2, CallTypes, CallMarked DEF Open
<1> HIDE DEF x
<1> QED BY <1>2, <1>3 DEF HearStep, c

LEMMA SettledHears ==
    ASSUME HostTypeOK, NEW i \in DOMAIN calls, NEW result, ~disposed, Settled(i, result)
    PROVE  \E x \in CallRecord : HearStep(i, x) /\ ~Open(x)
<1> DEFINE c == calls[i]
           x == IF c.kind = "action" /\ c.stage = "sent"
                THEN [c EXCEPT !.stage = "settled"] ELSE Over
<1>1. c \in CallRecord
  BY Members DEF HostTypeOK
<1>2. /\ Open(c) /\ calls' = [calls EXCEPT ![i] = x]
      /\ UNCHANGED <<identity, connection, actionGeneration, disposed>>
  BY DEF Settled
<1> HIDE DEF c
<1>3. /\ x \in CallRecord /\ ~Open(x) /\ c.kind \in {"action", "house"}
      /\ x.kind # "over" => /\ x.kind = c.kind /\ x.asker = c.asker
                            /\ x.via = c.via /\ x.generation = c.generation
  BY <1>1, <1>2, CallTypes, CallMarked DEF Open
<1> HIDE DEF x
<1> QED BY <1>2, <1>3 DEF HearStep, c

-----------------------------------------------------------------------------
(* Calls carry the credential of the resident they act for. *)

LEMMA CarriedKept ==
    ASSUME CarriesFaithfully, UNCHANGED <<clients, calls, answers>>
    PROVE  CarriesFaithfully'
BY DEF CarriesFaithfully, Open

LEMMA CarriedProvided ==
    ASSUME HostTypeOK, ServesResident, CarriesFaithfully,
           NEW n \in DOMAIN clients, NEW c \in ClientRecord, ProviderStep(n, c)
    PROVE  CarriesFaithfully'
<1>1. /\ clients' = [clients EXCEPT ![n] = c]
      /\ \/ c.cred = clients[n].cred
         \/ c.cred = userId /\ userId # None /\ clients[n].epoch = epoch
      /\ UNCHANGED <<calls, answers>>
  BY DEF ProviderStep, OnlyClients
<1>2. /\ DOMAIN clients' = DOMAIN clients /\ clients'[n] = c
      /\ \A m \in DOMAIN clients \ {n} : clients'[m] = clients[m]
  BY <1>1, Replaced DEF HostTypeOK
<1>3. ASSUME NEW i \in DOMAIN calls, Open(calls[i])
      PROVE  calls[i].via \in DOMAIN clients /\ clients'[calls[i].via].cred = calls[i].asker
  <2>1. /\ calls[i].via \in DOMAIN clients /\ clients[calls[i].via].cred = calls[i].asker
        /\ calls[i].asker # None
    <3>1. calls[i] \in CallRecord
      BY Members DEF HostTypeOK
    <3> QED BY <1>3, <3>1, CallTypes, LiveHostAssumption DEF CarriesFaithfully
  <2>2. CASE calls[i].via = n
    <3>1. Fits(clients[n], epoch, userId)
      BY DEF ServesResident
    <3> QED BY <1>1, <1>2, <2>1, <2>2, <3>1 DEF Fits
  <2> QED BY <1>2, <2>1, <2>2
<1> QED BY <1>1, <1>2, <1>3 DEF CarriesFaithfully, Open

LEMMA CarriedAgain ==
    ASSUME HostTypeOK, CarriesFaithfully, TransitionStep, userId' \in Resident
    PROVE  CarriesFaithfully'
<1>1. UNCHANGED <<calls, answers>> /\ Served(userId')
  BY DEF TransitionStep
<1>2. CASE userId' = None
  BY <1>1, <1>2 DEF Served, CarriesFaithfully, Open
<1>3. CASE userId' # None
  <2>1. /\ clients' = Append(clients, NewClient(userId', epoch'))
        /\ NewClient(userId', epoch') \in ClientRecord
    BY <1>1, <1>3, NewClientType DEF Served, Connected, Resident, TransitionStep, HostTypeOK
  <2>2. DOMAIN clients \subseteq DOMAIN clients'
        /\ \A n \in DOMAIN clients : clients'[n] = clients[n]
    BY <2>1, Appended DEF HostTypeOK
  <2> QED BY <1>1, <2>2 DEF CarriesFaithfully, Open
<1> QED BY <1>2, <1>3

LEMMA CarriedBegun ==
    ASSUME HostTypeOK, CarriesFaithfully, NEW x \in CallRecord, BeginStep(x)
    PROVE  CarriesFaithfully'
<1>1. /\ calls' = Append(calls, x) /\ UNCHANGED <<clients, answers>>
      /\ Open(x) => /\ client \in DOMAIN clients
                    /\ x.via = client /\ clients[client].cred = x.asker
  BY DEF BeginStep, connection
<1>2. /\ DOMAIN calls' = 1..(Len(calls) + 1) /\ DOMAIN calls = 1..Len(calls)
      /\ Len(calls) \in Nat /\ calls'[Len(calls) + 1] = x
      /\ \A i \in DOMAIN calls : calls'[i] = calls[i]
  BY <1>1, Appended DEF HostTypeOK
<1>3. \A i \in DOMAIN calls' : i \in DOMAIN calls \/ i = Len(calls) + 1
  BY <1>2
<1> QED BY <1>1, <1>2, <1>3 DEF CarriesFaithfully, Open

LEMMA CarriedHeard ==
    ASSUME HostTypeOK, CarriesFaithfully, NEW i \in DOMAIN calls, NEW x \in CallRecord,
           HearStep(i, x), \A p \in answers' : p[1] = p[2]
    PROVE  CarriesFaithfully'
<1>1. /\ calls' = [calls EXCEPT ![i] = x] /\ UNCHANGED clients
      /\ Open(x) => Open(calls[i])
      /\ x.kind # "over" => x.asker = calls[i].asker /\ x.via = calls[i].via
  BY DEF HearStep, connection
<1>2. /\ DOMAIN calls' = DOMAIN calls /\ calls'[i] = x
      /\ \A j \in DOMAIN calls \ {i} : calls'[j] = calls[j]
  BY <1>1, Replaced DEF HostTypeOK
<1>3. Open(x) => x.kind # "over"
  BY CallTypes
<1> QED BY <1>1, <1>2, <1>3 DEF CarriesFaithfully, Open

(* An answer is passed on while the resident who asked is signed in. *)
LEMMA AnswersKept ==
    ASSUME HostTypeOK, ServesResident, CarriesFaithfully,
           NEW i \in DOMAIN calls, NEW result, Settled(i, result)
    PROVE  \A p \in answers' : p[1] = p[2]
<1>1. CASE answers' = answers
  BY <1>1 DEF CarriesFaithfully
<1>2. CASE PassesOn(i) /\ answers' = answers \cup {<<calls[i].asker, userId>>}
  <2>1. /\ calls[i].via \in DOMAIN clients /\ client = calls[i].via /\ calls[i] \in CallRecord
        /\ clients[client].cred = calls[i].asker /\ Open(calls[i])
    BY <1>2, Members DEF CarriesFaithfully, PassesOn, Settled, HostTypeOK
  <2>2. client # 0 /\ clients[client].epoch = epoch
    BY <2>1, Members DEF ServesResident, HostTypeOK
  <2>3. calls[i].asker = userId
    BY <2>1, <2>2, CallTypes, LiveHostAssumption DEF ServesResident, Fits
  <2> QED BY <1>2, <2>3 DEF CarriesFaithfully
<1> QED BY <1>1, <1>2 DEF Settled

-----------------------------------------------------------------------------
(* A press acts once. *)

LEMMA PressedKept ==
    ASSUME PressesOnce,
           UNCHANGED <<client, calls, action, actionGeneration, disposed>>
    PROVE  PressesOnce'
BY DEF PressesOnce, Acting, Open

(* With a new generation nothing in flight is of the present one. *)
LEMMA PressedNoMore ==
    ASSUME HostTypeOK, CarriesFaithfully, PressesOnce,
           actionGeneration' = actionGeneration + 1, UNCHANGED calls,
           ~disposed' => client' \notin DOMAIN clients /\ action' = "idle"
    PROVE  PressesOnce'
<1>1. \A i \in DOMAIN calls :
          calls[i].kind = "action" =>
            /\ calls[i].generation \in Nat
            /\ calls[i].generation <= actionGeneration /\ actionGeneration \in Nat
  <2> SUFFICES ASSUME NEW i \in DOMAIN calls, calls[i].kind = "action"
               PROVE  /\ calls[i].generation \in Nat
                      /\ calls[i].generation <= actionGeneration
                      /\ actionGeneration \in Nat
    OBVIOUS
  <2>1. calls[i] \in CallRecord
    BY Members DEF HostTypeOK
  <2> QED BY <2>1, CallTypes DEF PressesOnce, HostTypeOK
<1>2. \A i \in DOMAIN calls :
          calls[i].kind = "action" => /\ calls[i].generation <= actionGeneration'
                                     /\ calls[i].generation # actionGeneration'
  BY <1>1
<1>3. \A i \in DOMAIN calls : ~Acting(i)'
  BY <1>2 DEF Acting
<1>4. ~disposed' => \A i \in DOMAIN calls : Open(calls[i]) => calls[i].via # client'
  BY DEF CarriesFaithfully
<1>5. ~disposed' => action' \notin Busy
  BY DEF Busy
<1> QED BY <1>2, <1>3, <1>4, <1>5 DEF PressesOnce, Open

LEMMA PressedAgain ==
    ASSUME HostTypeOK, CarriesFaithfully, PressesOnce, TransitionStep, userId' \in Resident
    PROVE  PressesOnce'
<1>1. /\ actionGeneration' = actionGeneration + 1 /\ UNCHANGED calls /\ action' = "idle"
      /\ Served(userId')
  BY DEF TransitionStep, Forgotten
<1>2. client' \in {0, Len(clients) + 1}
  BY <1>1 DEF Served, Connected
<1>3. client' \notin DOMAIN clients
  BY <1>2, Members DEF HostTypeOK
<1> QED BY <1>1, <1>3, PressedNoMore

LEMMA PressedBegun ==
    ASSUME HostTypeOK, PressesOnce, NEW x \in CallRecord, BeginStep(x),
           \/ /\ actionGeneration' = actionGeneration + 1 /\ action \notin Busy
              /\ \/ /\ action' = "pending" /\ Open(x)
                    /\ x.kind = "action" /\ x.generation = actionGeneration'
                 \/ action' = "failed" /\ x = Over
           \/ x.kind = "house" /\ UNCHANGED <<action, actionGeneration>>
    PROVE  PressesOnce'
<1>0. PICK last \in Nat : last = Len(calls) + 1
  BY Members DEF HostTypeOK
<1>1. /\ DOMAIN calls' = 1..last /\ DOMAIN calls = 1..Len(calls)
      /\ Len(calls) \in Nat /\ calls'[last] = x
      /\ \A i \in DOMAIN calls : calls'[i] = calls[i]
  BY <1>0, Appended DEF HostTypeOK, BeginStep
<1>2. \A i \in DOMAIN calls' : i \in DOMAIN calls \/ i = last
  BY <1>0, <1>1
<1>3. /\ DOMAIN calls \subseteq DOMAIN calls' /\ last \in DOMAIN calls'
      /\ last \notin DOMAIN calls
  BY <1>0, <1>1
<1>4. /\ ~disposed /\ ~disposed' /\ client' = client /\ actionGeneration \in Nat
      /\ Open(x) => x.via = client
  BY DEF BeginStep, connection, HostTypeOK
<1>5. \A i \in DOMAIN calls :
          calls[i].kind = "action" => /\ calls[i].generation \in Nat
                                     /\ calls[i].generation <= actionGeneration
  <2> SUFFICES ASSUME NEW i \in DOMAIN calls, calls[i].kind = "action"
               PROVE  /\ calls[i].generation \in Nat
                      /\ calls[i].generation <= actionGeneration
    OBVIOUS
  <2>1. calls[i] \in CallRecord
    BY Members DEF HostTypeOK
  <2> QED BY <2>1, CallTypes DEF PressesOnce
<1>6. CASE x.kind = "house" /\ UNCHANGED <<action, actionGeneration>>
  <2>1. \A i \in DOMAIN calls : Acting(i)' <=> Acting(i)
    BY <1>1, <1>6 DEF Acting
  <2>2. ~Acting(last)'
    BY <1>1, <1>6 DEF Acting
  <2> QED BY <1>1, <1>2, <1>3, <1>4, <1>6, <2>1, <2>2 DEF PressesOnce, Open
<1>7. CASE actionGeneration' = actionGeneration + 1 /\ action \notin Busy
  <2>1. \A i \in DOMAIN calls :
            calls[i].kind = "action" => /\ calls[i].generation <= actionGeneration'
                                       /\ calls[i].generation # actionGeneration'
    BY <1>4, <1>5, <1>7
  <2>2. \A i \in DOMAIN calls : ~Acting(i)'
    BY <1>1, <2>1 DEF Acting
  <2>3. \A i \in DOMAIN calls :
            calls[i].kind = "action" /\ Open(calls[i]) => calls[i].via # client
    BY <1>4, <1>7 DEF PressesOnce
  <2>4. CASE /\ action' = "pending" /\ Open(x)
             /\ x.kind = "action" /\ x.generation = actionGeneration'
    <3>1. Acting(last)' /\ action' \in Busy /\ x.via = client' /\ actionGeneration' \in Nat
      BY <1>1, <1>4, <1>7, <2>4 DEF Acting, Busy
    <3>2. \A i \in DOMAIN calls' : calls'[i].kind = "action"
                                   => calls'[i].generation <= actionGeneration'
      BY <1>1, <1>2, <2>1, <2>4, <3>1
    <3>3. \A i \in DOMAIN calls' : Acting(i)' <=> i = last
      BY <1>1, <1>2, <2>2, <3>1
    <3>4. \A i \in DOMAIN calls' : /\ calls'[i].kind = "action" /\ Open(calls'[i])
                                   => (calls'[i].via = client' <=> i = last)
      BY <1>1, <1>2, <1>3, <1>4, <2>3, <3>1
    <3>5. Open(calls'[last])
      BY <1>1, <2>4
    <3> QED BY <1>3, <3>1, <3>2, <3>3, <3>4, <3>5 DEF PressesOnce, Open
  <2>5. CASE action' = "failed" /\ x = Over
    <3>1. x.kind # "action" /\ action' \notin Busy
      BY <2>5, CallTypes DEF Busy
    <3>2. \A i \in DOMAIN calls' : ~Acting(i)'
      BY <1>1, <1>2, <2>2, <3>1 DEF Acting
    <3>3. \A i \in DOMAIN calls' : calls'[i].kind = "action"
                                   => calls'[i].generation <= actionGeneration'
      BY <1>1, <1>2, <2>1, <3>1
    <3>4. \A i \in DOMAIN calls' : calls'[i].kind = "action" /\ Open(calls'[i])
                                   => calls'[i].via # client'
      BY <1>1, <1>2, <1>4, <2>3, <3>1
    <3> QED BY <3>1, <3>2, <3>3, <3>4 DEF PressesOnce, Open
  <2>6. ~UNCHANGED actionGeneration
    BY <1>4, <1>7
  <2> QED BY <1>7, <2>4, <2>5, <2>6
<1> QED BY <1>6, <1>7

LEMMA PressedHeard ==
    ASSUME HostTypeOK, PressesOnce, NEW i \in DOMAIN calls, NEW x \in CallRecord,
           HearStep(i, x),
           \/ /\ Open(calls[i]) => Open(x) /\ x.kind = "action"
              /\ action' = IF AcceptanceCounts(i) THEN "accepted" ELSE action
           \/ /\ ~Open(x)
              /\ \E result \in {"applied", "failed"} :
                    action' = IF IsCurrentAction(i) THEN result ELSE action
    PROVE  PressesOnce'
<1>1. /\ calls' = [calls EXCEPT ![i] = x] /\ ~disposed /\ ~disposed'
      /\ client' = client /\ actionGeneration' = actionGeneration
      /\ Open(x) => Open(calls[i])
      /\ x.kind = "action" => /\ calls[i].kind = "action" /\ x.via = calls[i].via
                              /\ x.generation = calls[i].generation
  BY DEF HearStep, connection
<1>2. /\ DOMAIN calls' = DOMAIN calls /\ calls'[i] = x
      /\ \A j \in DOMAIN calls \ {i} : calls'[j] = calls[j]
  BY <1>1, Replaced DEF HostTypeOK
<1>3. \A j \in DOMAIN calls : calls'[j].kind = "action" =>
          /\ calls[j].kind = "action" /\ calls'[j].via = calls[j].via
          /\ calls'[j].generation = calls[j].generation
          /\ Open(calls'[j]) => Open(calls[j])
          /\ Acting(j)' <=> Acting(j)
  BY <1>1, <1>2 DEF Acting
<1>4. \A j \in DOMAIN calls : Acting(j)' => Acting(j)
  BY <1>3 DEF Acting
<1>5. \A j \in DOMAIN calls \ {i} : /\ Acting(j)' <=> Acting(j)
                                   /\ Open(calls'[j]) <=> Open(calls[j])
  BY <1>1, <1>2 DEF Acting
<1>6. /\ \A j \in DOMAIN calls' :
              calls'[j].kind = "action" => calls'[j].generation <= actionGeneration'
      /\ \A j, k \in DOMAIN calls' : Acting(j)' /\ Acting(k)' => j = k
      /\ \A j \in DOMAIN calls' :
              calls'[j].kind = "action" /\ Open(calls'[j])
              => (calls'[j].via = client' <=> Acting(j)')
  BY <1>1, <1>2, <1>3, <1>4 DEF PressesOnce
<1>7. action' \in Busy <=> \E j \in DOMAIN calls' : Acting(j)' /\ Open(calls'[j])
  <2>1. CASE /\ Open(calls[i]) => Open(x) /\ x.kind = "action"
             /\ action' = IF AcceptanceCounts(i) THEN "accepted" ELSE action
    <3>1. action' \in Busy <=> action \in Busy
      BY <2>1 DEF AcceptanceCounts, Busy
    <3>2. Acting(i)' /\ Open(calls'[i]) <=> Acting(i) /\ Open(calls[i])
      BY <1>1, <1>2, <1>3, <1>4, <2>1
    <3> QED BY <1>1, <1>2, <1>5, <3>1, <3>2 DEF PressesOnce
  <2>2. CASE /\ ~Open(x)
             /\ \E result \in {"applied", "failed"} :
                   action' = IF IsCurrentAction(i) THEN result ELSE action
    <3>1. IsCurrentAction(i) <=> Acting(i)
      BY <1>1 DEF IsCurrentAction, Acting
    <3>2. CASE Acting(i)
      <4>1. action' \notin Busy
        BY <2>2, <3>1, <3>2 DEF Busy
      <4>2. \A j \in DOMAIN calls : Acting(j)' => j = i
        BY <1>4, <3>2 DEF PressesOnce
      <4> QED BY <1>2, <2>2, <4>1, <4>2
    <3>3. CASE ~Acting(i)
      <4>1. action' = action
        BY <2>2, <3>1, <3>3
      <4> QED BY <1>1, <1>2, <1>4, <1>5, <3>3, <4>1 DEF PressesOnce
    <3> QED BY <3>2, <3>3
  <2> QED BY <2>1, <2>2
<1> QED BY <1>1, <1>6, <1>7 DEF PressesOnce, Open

-----------------------------------------------------------------------------
(* What is rendered and open. *)

LEMMA ShownKept ==
    ASSUME ShowsResident, UNCHANGED <<userId, epoch>>, UNCHANGED shellVars
    PROVE  ShowsResident'
BY DEF ShowsResident, shellVars, Enabled

LEMMA ShownAgain ==
    ASSUME ShellTypeOK, ShowsResident, epoch' = epoch + 1, UNCHANGED shellVars
    PROVE  ShowsResident'
<1>1. rendered.epoch # epoch'
  BY DEF ShellTypeOK, HostTypeOK
<1> QED BY <1>1 DEF ShowsResident, shellVars, Enabled

LEMMA ShownRendered ==
    ASSUME ShellTypeOK, ServesResident, ShowsResident, Render
    PROVE  ShowsResident'
<1>1. /\ rendered' = Input /\ loading' = Loading(Input, request')
      /\ mounted' = Mounted(Input, request')
      /\ request' = IF SameRequest(Input, rendered) THEN request ELSE request + 1
      /\ UNCHANGED <<userId, epoch>> /\ request \in Nat
  BY DEF Render, hostVars, identity, ShellTypeOK
<1>2. /\ Input.user = userId /\ Input.epoch = epoch /\ Input.home = homeState
  BY DEF Input
<1>3. /\ rendered'.epoch = epoch' /\ rendered'.user = userId'
      /\ rendered'.home # None => rendered'.home.user = rendered'.user
  BY <1>1, <1>2 DEF ServesResident
<1>4. loading' # 0 => Enabled(rendered')
  BY <1>1 DEF Loading
<1>5. ASSUME mounted' # None
      PROVE  /\ Enabled(rendered') /\ mounted'.request = request'
             /\ mounted'.user = rendered'.user
  <2>1. Shows(Input, request') /\ Enabled(rendered')
    BY <1>1, <1>5 DEF Mounted, Shows
  <2>2. CASE mounted # None /\ mounted.request = request'
    <3>1. /\ mounted' = mounted /\ mounted.request = request
          /\ mounted.user = rendered.user /\ Enabled(rendered)
      BY <1>1, <2>1, <2>2 DEF Mounted, ShowsResident
    <3>2. SameRequest(Input, rendered)
      BY <1>1, <2>2, <3>1
    <3>3. rendered.user = userId
      BY <1>2, <3>1, <3>2 DEF SameRequest, ShowsResident, Enabled
    <3> QED BY <1>1, <1>3, <2>1, <2>2, <3>1, <3>3
  <2>3. CASE ~(mounted # None /\ mounted.request = request')
    <3>1. mounted' = [request |-> request', user |-> Input.user, pc |-> "mounting"]
      BY <1>1, <2>1, <2>3 DEF Mounted
    <3> QED BY <1>1, <2>1, <3>1
  <2> QED BY <2>2, <2>3
<1> QED BY <1>3, <1>4, <1>5 DEF ShowsResident

LEMMA ShownLoaded ==
    ASSUME ShowsResident, NEW interface \in BOOLEAN, ActivationEnds(interface)
    PROVE  ShowsResident'
BY DEF ShowsResident, ActivationEnds, hostVars, identity, Enabled

LEMMA ShownMounted ==
    ASSUME ShellTypeOK, ShowsResident, MountEnds
    PROVE  ShowsResident'
<1>1. mounted # None /\ mounted \in Session /\ mounted' = [mounted EXCEPT !.pc = "mounted"]
  BY DEF MountEnds, ShellTypeOK
<1>2. mounted'.request = mounted.request /\ mounted'.user = mounted.user
  BY <1>1 DEF Session
<1> QED BY <1>1, <1>2 DEF ShowsResident, MountEnds, hostVars, identity, Enabled

LEMMA ShownClosed ==
    ASSUME ShowsResident, Closes
    PROVE  ShowsResident'
BY DEF ShowsResident, Closes, dispose, identity, Enabled

LEMMA ShownChosen ==
    ASSUME ShowsResident,
           \/ \E scope \in Resident : Agrees(scope) \/ Withdraws(scope)
           \/ Retries
    PROVE  ShowsResident'
BY DEF ShowsResident, Agrees, Withdraws, Retries, hostVars, identity, Enabled

-----------------------------------------------------------------------------
(* Types. *)

(* The part of HostTypeOK that the connection and the calls take.          *)
LEMMA TypedIdentity ==
    ASSUME HostTypeOK,
           \/ \E u \in Resident : AccountChanges(u)
           \/ signIn
           \/ \E e \in popups, u \in Resident : PopupEnds(e, u)
    PROVE  HostTypeOK' /\ IdentityStep
<1>1. CASE \E u \in Resident : AccountChanges(u)
  <2>1. PICK u \in Resident : AccountChanges(u)
    BY <1>1
  <2>2. notices' \in Seq(Resident) /\ account' \in Resident /\ changes' \in 0..MaxChanges
    BY <2>1, Appended, LiveHostAssumption DEF AccountChanges, Switched, HostTypeOK
  <2> QED BY <2>1, <2>2 DEF AccountChanges, HostTypeOK, IdentityStep, connection
<1>2. CASE signIn
  BY <1>2 DEF signIn, HostTypeOK, IdentityStep, connection
<1>3. CASE \E e \in popups, u \in Resident : PopupEnds(e, u)
  <2>1. PICK e \in popups, u \in Resident : PopupEnds(e, u)
    BY <1>3
  <2>2. notices' \in Seq(Resident) /\ account' \in Resident /\ changes' \in 0..MaxChanges
    <3>1. CASE Switched(u)
      BY <3>1, Appended, LiveHostAssumption DEF Switched, HostTypeOK
    <3>2. CASE UNCHANGED <<account, changes, notices>>
      BY <3>2 DEF HostTypeOK
    <3> QED BY <2>1, <3>1, <3>2 DEF PopupEnds
  <2>3. signInStatus' \in {"idle", "pending", "failed"} /\ popups' \in SUBSET Nat
    BY <2>1 DEF PopupEnds, HostTypeOK
  <2> QED BY <2>1, <2>2, <2>3 DEF PopupEnds, HostTypeOK, IdentityStep, connection
<1> QED BY <1>1, <1>2, <1>3

LEMMA TypedTransition ==
    ASSUME HostTypeOK, TransitionStep, account' = account, changes' = changes,
           userId' \in Resident, notices' \in Seq(Resident), popups' = popups,
           signInStatus' \in {"idle", "pending", "failed"}
    PROVE  HostTypeOK'
<1>1. /\ epoch' = epoch + 1 /\ epoch' \in Nat /\ homeState' = None /\ action' = "idle"
      /\ actionGeneration' = actionGeneration + 1
      /\ UNCHANGED <<calls, answers, disposed>> /\ Served(userId')
  BY DEF TransitionStep, Forgotten, HostTypeOK
<1>2. /\ clients' \in Seq(ClientRecord) /\ client' \in 0..Len(clients')
      /\ status' \in {"connecting", "unavailable"}
  <2>1. CASE userId' = None
    BY <1>1, <2>1, Members DEF Served, HostTypeOK
  <2>2. CASE userId' # None
    <3>1. /\ clients' = Append(clients, NewClient(userId', epoch'))
          /\ client' = Len(clients) + 1 /\ status' = "connecting"
      BY <1>1, <2>2 DEF Served, Connected
    <3>2. NewClient(userId', epoch') \in ClientRecord
      BY <1>1, <2>2, NewClientType DEF Resident
    <3> QED BY <3>1, <3>2, Appended DEF HostTypeOK
  <2> QED BY <2>1, <2>2
<1> QED BY <1>1, <1>2 DEF HostTypeOK

LEMMA TypedProvided ==
    ASSUME HostTypeOK, NEW n \in DOMAIN clients, NEW c \in ClientRecord, ProviderStep(n, c)
    PROVE  HostTypeOK'
<1>1. clients' \in Seq(ClientRecord) /\ Len(clients') = Len(clients)
  BY Replaced DEF ProviderStep, HostTypeOK
<1> QED BY <1>1 DEF ProviderStep, OnlyClients, identity, HostTypeOK

LEMMA TypedReported ==
    ASSUME HostTypeOK,
           \/ \E s \in {"connecting", "ready", "unavailable"} : ClientStatus(s)
           \/ \E stale \in BOOLEAN : StateReported(stale)
    PROVE  HostTypeOK'
<1>1. CASE \E s \in {"connecting", "ready", "unavailable"} : ClientStatus(s)
  BY <1>1 DEF ClientStatus, OnlyReport, identity, HostTypeOK
<1>2. CASE \E stale \in BOOLEAN : StateReported(stale)
  <2>1. PICK stale \in BOOLEAN : StateReported(stale)
    BY <1>2
  <2>2. clients[client] \in ClientRecord
    BY <2>1, Members DEF StateReported, HostTypeOK
  <2>3. homeState' \in [user: Resident, stale: BOOLEAN]
    BY <2>1, <2>2 DEF StateReported, ClientRecord
  <2> QED BY <2>1, <2>3 DEF StateReported, OnlyReport, identity, HostTypeOK
<1> QED BY <1>1, <1>2

LEMMA TypedBegun ==
    ASSUME HostTypeOK, NEW x \in CallRecord, BeginStep(x),
           action' \in {"pending", "failed", action},
           actionGeneration' \in {actionGeneration, actionGeneration + 1}
    PROVE  HostTypeOK'
<1>1. calls' \in Seq(CallRecord)
  BY Appended DEF BeginStep, HostTypeOK
<1> QED BY <1>1 DEF BeginStep, HostTypeOK, identity, connection, Busy

LEMMA TypedHeard ==
    ASSUME HostTypeOK, NEW i \in DOMAIN calls, NEW x \in CallRecord, HearStep(i, x),
           action' \in {"accepted", "applied", "failed", action},
           answers' \in {answers, answers \cup {<<calls[i].asker, userId>>}}
    PROVE  HostTypeOK'
<1>1. calls' \in Seq(CallRecord)
  BY Replaced DEF HearStep, HostTypeOK
<1>2. calls[i].asker \in Users
  <2>1. calls[i] \in CallRecord
    BY Members DEF HostTypeOK
  <2> QED BY <2>1, CallTypes DEF HearStep
<1>3. answers' \in SUBSET (Users \X Resident)
  BY <1>2 DEF HostTypeOK
<1> QED BY <1>1, <1>3 DEF HearStep, HostTypeOK, identity, connection, Busy

LEMMA TypedDisposed ==
    ASSUME HostTypeOK, dispose
    PROVE  HostTypeOK'
BY Members DEF HostTypeOK, dispose, identity

LEMMA TypedRendered ==
    ASSUME ShellTypeOK, Render
    PROVE  ShellTypeOK'
<1>1. /\ Input.user = userId /\ Input.epoch = epoch
      /\ rendered' = Input /\ loading' = Loading(Input, request')
      /\ mounted' = Mounted(Input, request')
      /\ request' \in {request, request + 1}
      /\ UNCHANGED <<hostVars, houseMode, agreed, choices, attempt, outcome>>
  BY DEF Render, Input
<1>2. HostTypeOK'
  BY <1>1 DEF ShellTypeOK, HostTypeOK, hostVars, identity, connection
<1>3. rendered'.user \in Resident /\ rendered'.epoch \in 0..epoch'
  BY <1>1 DEF ShellTypeOK, HostTypeOK, hostVars, identity
<1>4. request' \in Nat /\ request' >= request /\ request \in Nat
  BY <1>1 DEF ShellTypeOK
<1>5. loading' \in 0..request'
  BY <1>1, <1>4 DEF Loading, ShellTypeOK
<1>6. mounted' \in Session \cup {None}
  <2>1. CASE ~Shows(Input, request')
    BY <1>1, <2>1 DEF Mounted
  <2>2. CASE mounted # None /\ mounted' = mounted
    BY <2>2 DEF ShellTypeOK
  <2>3. CASE /\ Shows(Input, request')
             /\ mounted' = [request |-> request', user |-> Input.user, pc |-> "mounting"]
    <3>1. Input.user \in Users
      BY <1>1, <2>3 DEF Shows, Enabled, ShellTypeOK, HostTypeOK, Resident
    <3> QED BY <1>4, <2>3, <3>1 DEF Session
  <2> QED BY <1>1, <2>1, <2>2, <2>3 DEF Mounted
<1>7. outcome' \in [request: 0..request', interface: BOOLEAN]
  <2>1. outcome \in [request: 0..request, interface: BOOLEAN] /\ 0..request \subseteq 0..request'
    BY <1>4 DEF ShellTypeOK
  <2>2. [request: 0..request, interface: BOOLEAN]
        \subseteq [request: 0..request', interface: BOOLEAN]
    BY <2>1, Zenon
  <2> QED BY <1>1, <2>1, <2>2
<1>8. houseMode' \in BOOLEAN /\ agreed' \in SUBSET Resident
      /\ choices' \in Nat /\ attempt' \in Nat
  BY <1>1 DEF ShellTypeOK
<1> QED BY <1>2, <1>3, <1>4, <1>5, <1>6, <1>7, <1>8 DEF ShellTypeOK

-----------------------------------------------------------------------------
(* Every step keeps the invariant. *)

IInv ==
    /\ ShellTypeOK /\ ServesResident /\ CarriesFaithfully
    /\ PressesOnce /\ ShowsResident

LEMMA TypedShell ==
    ASSUME ShellTypeOK, HostTypeOK', UNCHANGED shellVars, epoch' \in {epoch, epoch + 1}
    PROVE  ShellTypeOK'
<1>1. rendered.epoch \in 0..epoch'
  <2>1. rendered.epoch \in 0..epoch
    BY DEF ShellTypeOK
  <2>2. epoch \in Nat
    BY DEF ShellTypeOK, HostTypeOK
  <2> QED BY <2>1, <2>2
<1>2. /\ houseMode' \in BOOLEAN /\ agreed' \in SUBSET Resident
      /\ {choices, attempt, request}' \subseteq Nat
      /\ rendered'.user \in Resident /\ rendered'.epoch \in 0..epoch'
      /\ loading' \in 0..request' /\ mounted' \in Session \cup {None}
  BY <1>1 DEF ShellTypeOK, shellVars
<1>3. outcome' \in [request: 0..request', interface: BOOLEAN]
  BY Zenon DEF ShellTypeOK, shellVars
<1> QED BY <1>2, <1>3 DEF ShellTypeOK

LEMMA IdentityKeeps ==
    ASSUME IInv, HostTypeOK', IdentityStep, UNCHANGED shellVars
    PROVE  IInv'
<1>1. UNCHANGED <<userId, epoch, connection, client, clients, action, actionGeneration,
                  calls, answers, disposed>>
  BY DEF IdentityStep, connection
<1> QED BY <1>1, TypedShell, ServedKept, CarriedKept, PressedKept, ShownKept DEF IInv

LEMMA TransitionKeeps ==
    ASSUME IInv, TransitionStep, account' = account, changes' = changes, popups' = popups,
           userId' \in Resident, notices' \in Seq(Resident),
           signInStatus' \in {"idle", "pending", "failed"}, UNCHANGED shellVars
    PROVE  IInv'
<1>1. HostTypeOK /\ ShellTypeOK /\ epoch' = epoch + 1
  BY DEF IInv, ShellTypeOK, TransitionStep
<1>2. HostTypeOK'
  BY <1>1, TypedTransition
<1> QED BY <1>1, <1>2, TypedShell, ServedAgain, CarriedAgain, PressedAgain, ShownAgain
        DEF IInv

LEMMA ProviderKeeps ==
    ASSUME IInv, UNCHANGED shellVars, NEW n \in DOMAIN clients,
           \/ AsksCredential(n) \/ TokenArrives(n) \/ Exchanged(n) \/ FetchFails(n)
    PROVE  IInv'
<1>1. HostTypeOK /\ ShellTypeOK
  BY DEF IInv, ShellTypeOK
<1>2. PICK c \in ClientRecord : ProviderStep(n, c)
  BY <1>1, ProviderSteps DEF IInv
<1>3. UNCHANGED <<userId, epoch, client, calls, action, actionGeneration, disposed>>
  BY <1>2 DEF ProviderStep, OnlyClients, identity
<1> QED BY <1>1, <1>2, <1>3, TypedProvided, TypedShell, ServedProvided, CarriedProvided,
           PressedKept, ShownKept DEF IInv

LEMMA ReportKeeps ==
    ASSUME IInv, UNCHANGED shellVars,
           \/ \E s \in {"connecting", "ready", "unavailable"} : ClientStatus(s)
           \/ \E stale \in BOOLEAN : StateReported(stale)
    PROVE  IInv'
<1>1. HostTypeOK /\ ShellTypeOK
  BY DEF IInv, ShellTypeOK
<1>2. UNCHANGED <<userId, epoch, client, clients, calls, answers, action, actionGeneration,
                  disposed>>
  BY DEF ClientStatus, StateReported, OnlyReport, identity
<1> QED BY <1>1, <1>2, TypedReported, TypedShell, ServedReported, CarriedKept,
           PressedKept, ShownKept DEF IInv

LEMMA BeginKeeps ==
    ASSUME IInv, UNCHANGED shellVars, interact \/ call(userId)
    PROVE  IInv'
<1>1. HostTypeOK /\ ShellTypeOK /\ ServesResident
  BY DEF IInv, ShellTypeOK
<1>2. PICK x \in CallRecord :
          /\ BeginStep(x)
          /\ \/ /\ actionGeneration' = actionGeneration + 1 /\ action \notin Busy
                /\ \/ /\ action' = "pending" /\ Open(x)
                      /\ x.kind = "action" /\ x.generation = actionGeneration'
                   \/ action' = "failed" /\ x = Over
             \/ x.kind = "house" /\ UNCHANGED <<action, actionGeneration>>
  BY <1>1, InteractBegins, CallBegins
<1>3. UNCHANGED <<userId, epoch, connection>>
  BY <1>2 DEF BeginStep, identity
<1>4. HostTypeOK'
  BY <1>1, <1>2, TypedBegun
<1>5. PressesOnce'
  BY <1>1, <1>2, PressedBegun DEF IInv
<1> QED BY <1>1, <1>2, <1>3, <1>4, <1>5, TypedShell, ServedKept, CarriedBegun, ShownKept
        DEF IInv

LEMMA HearKeeps ==
    ASSUME IInv, UNCHANGED shellVars, ~disposed, NEW i \in DOMAIN calls,
           \/ Accepted(i)
           \/ \E result \in {"applied", "failed"} : Settled(i, result)
    PROVE  IInv'
<1>1. HostTypeOK /\ ShellTypeOK
  BY DEF IInv, ShellTypeOK
<1>2. ASSUME NEW x \in CallRecord, HearStep(i, x), HostTypeOK', PressesOnce',
             \A p \in answers' : p[1] = p[2]
      PROVE  IInv'
  <2>1. UNCHANGED <<userId, epoch, connection>>
    BY <1>2 DEF HearStep, identity
  <2> QED BY <1>1, <1>2, <2>1, TypedShell, ServedKept, CarriedHeard, ShownKept DEF IInv
<1>3. CASE Accepted(i)
  <2>1. PICK x \in CallRecord : /\ HearStep(i, x) /\ UNCHANGED answers
                                /\ Open(calls[i]) => Open(x) /\ x.kind = "action"
    BY <1>1, <1>3, AcceptedHears
  <2>2. action' = IF AcceptanceCounts(i) THEN "accepted" ELSE action
    BY <1>3 DEF Accepted
  <2>3. HostTypeOK'
    BY <1>1, <2>1, <2>2, TypedHeard
  <2>4. PressesOnce'
    BY <1>1, <2>1, <2>2, PressedHeard DEF IInv
  <2>5. \A p \in answers' : p[1] = p[2]
    BY <2>1 DEF IInv, CarriesFaithfully
  <2> QED BY <1>2, <2>1, <2>3, <2>4, <2>5
<1>4. ASSUME NEW result \in {"applied", "failed"}, Settled(i, result)
      PROVE  IInv'
  <2>1. PICK x \in CallRecord : HearStep(i, x) /\ ~Open(x)
    BY <1>1, <1>4, SettledHears
  <2>2. /\ action' = IF IsCurrentAction(i) THEN result ELSE action
        /\ answers' \in {answers, answers \cup {<<calls[i].asker, userId>>}}
    BY <1>4 DEF Settled
  <2>3. HostTypeOK'
    BY <1>1, <2>1, <2>2, TypedHeard
  <2>4. PressesOnce'
    BY <1>1, <2>1, <2>2, PressedHeard DEF IInv
  <2>5. \A p \in answers' : p[1] = p[2]
    BY <1>1, <1>4, AnswersKept DEF IInv
  <2> QED BY <1>2, <2>1, <2>3, <2>4, <2>5
<1> QED BY <1>3, <1>4

LEMMA NotifiedKeeps ==
    ASSUME IInv, UNCHANGED shellVars, Notified
    PROVE  IInv'
<1>1. HostTypeOK
  BY DEF IInv, ShellTypeOK
<1>2. /\ Head(notices) \in Resident /\ Tail(notices) \in Seq(Resident)
      /\ userId' = Head(notices) /\ notices' = Tail(notices)
  BY <1>1, HeadTailProperties DEF Notified, HostTypeOK
<1>3. /\ UNCHANGED <<account, changes, popups, calls, answers, disposed>> /\ ~disposed
      /\ IF userId' = userId
         THEN UNCHANGED <<epoch, signInStatus, connection, action, actionGeneration>>
         ELSE /\ epoch' = epoch + 1 /\ signInStatus' = "idle"
              /\ Forgotten /\ Served(userId')
  BY DEF Notified
<1>4. CASE userId' = userId
  <2>1. UNCHANGED <<epoch, signInStatus, connection, action, actionGeneration>>
    BY <1>3, <1>4
  <2>2. HostTypeOK'
    BY <1>1, <1>2, <1>3, <2>1 DEF HostTypeOK, connection
  <2> QED BY <1>3, <1>4, <2>1, <2>2, IdentityKeeps DEF IdentityStep
<1>5. CASE userId' # userId
  <2>1. TransitionStep /\ signInStatus' = "idle"
    BY <1>3, <1>5 DEF TransitionStep
  <2> QED BY <1>2, <1>3, <2>1, TransitionKeeps
<1> QED BY <1>4, <1>5

LEMMA ReconnectKeeps ==
    ASSUME IInv, UNCHANGED shellVars, reconnect
    PROVE  IInv'
<1>1. HostTypeOK
  BY DEF IInv, ShellTypeOK
<1>2. TransitionStep /\ UNCHANGED <<account, changes, popups, userId, notices, signInStatus>>
  BY DEF reconnect, TransitionStep, Served
<1> QED BY <1>1, <1>2, TransitionKeeps DEF HostTypeOK

LEMMA StageKeeps ==
    ASSUME IInv, UNCHANGED hostVars, ShellTypeOK', ShowsResident'
    PROVE  IInv'
<1>1. UNCHANGED <<userId, epoch, connection, client, clients, action, actionGeneration,
                  calls, answers, disposed>>
  BY DEF hostVars, identity, connection
<1> QED BY <1>1, ServedKept, CarriedKept, PressedKept DEF IInv

LEMMA ClosesKeeps ==
    ASSUME IInv, Closes
    PROVE  IInv'
<1>1. HostTypeOK /\ dispose /\ UNCHANGED <<houseMode, agreed, choices, attempt, rendered,
                                           request, outcome>>
      /\ loading' = 0 /\ mounted' = None
  BY DEF IInv, ShellTypeOK, Closes
<1>2. /\ HostTypeOK' /\ UNCHANGED <<epoch, clients, calls, answers>>
      /\ disposed' = TRUE /\ actionGeneration' = actionGeneration + 1
  BY <1>1, TypedDisposed DEF dispose, identity
<1>3. ShellTypeOK'
  BY <1>1, <1>2 DEF IInv, ShellTypeOK
<1>4. PressesOnce'
  BY <1>1, <1>2, PressedNoMore DEF IInv
<1> QED BY <1>1, <1>2, <1>3, <1>4, ServedDisposed, CarriedKept, ShownClosed DEF IInv

LEMMA LoadedKeeps ==
    ASSUME IInv, NEW interface \in BOOLEAN, ActivationEnds(interface)
    PROVE  IInv'
<1>1. /\ outcome' = [request |-> loading, interface |-> interface] /\ loading' = 0
      /\ UNCHANGED <<hostVars, houseMode, agreed, choices, attempt, rendered, request,
                     mounted>>
  BY DEF ActivationEnds
<1>2. HostTypeOK' /\ epoch' = epoch
  BY <1>1 DEF IInv, ShellTypeOK, HostTypeOK, hostVars, identity, connection
<1>3. outcome' \in [request: 0..request', interface: BOOLEAN] /\ loading' \in 0..request'
  BY <1>1 DEF IInv, ShellTypeOK
<1>4. ShellTypeOK'
  BY <1>1, <1>2, <1>3 DEF IInv, ShellTypeOK
<1> QED BY <1>1, <1>4, ShownLoaded, StageKeeps DEF IInv

LEMMA MountKeeps ==
    ASSUME IInv, MountEnds
    PROVE  IInv'
<1>1. UNCHANGED <<hostVars, houseMode, agreed, choices, attempt, rendered, request,
                  loading, outcome>>
  BY DEF MountEnds
<1>2. HostTypeOK' /\ epoch' = epoch
  BY <1>1 DEF IInv, ShellTypeOK, HostTypeOK, hostVars, identity, connection
<1>3. mounted' \in Session
  BY DEF MountEnds, IInv, ShellTypeOK, Session
<1>4. ShellTypeOK'
  BY <1>1, <1>2, <1>3 DEF IInv, ShellTypeOK
<1> QED BY <1>1, <1>4, ShownMounted, StageKeeps DEF IInv

LEMMA ChosenKeeps ==
    ASSUME IInv,
           \/ \E scope \in Resident : Agrees(scope) \/ Withdraws(scope)
           \/ Retries
    PROVE  IInv'
<1>1. /\ UNCHANGED <<hostVars, houseMode, rendered, request, loading, outcome, mounted>>
      /\ choices' = choices + 1 /\ attempt' \in {attempt, attempt + 1}
      /\ agreed' \in SUBSET Resident
  BY DEF Agrees, Withdraws, Retries, Chosen, IInv, ShellTypeOK
<1>2. HostTypeOK' /\ epoch' = epoch
  BY <1>1 DEF IInv, ShellTypeOK, HostTypeOK, hostVars, identity, connection
<1>3. ShellTypeOK'
  BY <1>1, <1>2 DEF IInv, ShellTypeOK
<1> QED BY <1>1, <1>3, ShownChosen, StageKeeps DEF IInv

LEMMA Initially == Init => IInv
<1> SUFFICES ASSUME Init PROVE IInv
  OBVIOUS
<1>1. HostTypeOK
  <2>1. /\ account \in Resident /\ userId = account /\ notices = <<>> /\ calls = <<>>
        /\ clients = IF userId = None THEN <<>> ELSE <<NewClient(userId, 0)>>
        /\ client = Len(clients)
    BY DEF Init, HostInit
  <2>2. notices \in Seq(Resident) /\ calls \in Seq(CallRecord)
    BY <2>1
  <2>3. clients \in Seq(ClientRecord) /\ client \in 0..Len(clients)
    <3>1. CASE userId = None
      BY <2>1, <3>1
    <3>2. CASE userId # None
      <4>1. NewClient(userId, 0) \in ClientRecord
        BY <2>1, <3>2, NewClientType DEF Resident
      <4> QED BY <2>1, <3>2, <4>1
    <3> QED BY <3>1, <3>2
  <2>4. changes \in 0..MaxChanges /\ epoch \in Nat /\ actionGeneration \in Nat
    BY LiveHostAssumption DEF Init, HostInit
  <2>5. status \in {"connecting", "ready", "unavailable"}
    BY DEF Init, HostInit
  <2>6. /\ signInStatus = "idle" /\ popups = {} /\ homeState = None /\ action = "idle"
        /\ answers = {} /\ disposed = FALSE
    BY DEF Init, HostInit
  <2> QED BY <2>1, <2>2, <2>3, <2>4, <2>5, <2>6 DEF HostTypeOK
<1>2. ShellTypeOK
  <2>1. outcome \in [request: 0..request, interface: BOOLEAN]
    BY DEF Init, NoOutcome
  <2>2. rendered.user = None /\ rendered.epoch = 0 /\ epoch = 0
    BY DEF Init, HostInit
  <2>3. agreed \in SUBSET Resident
    BY DEF Init
  <2> QED BY <1>1, <2>1, <2>2, <2>3 DEF Init, ShellTypeOK, Resident
<1>3. ServesResident
  <2>1. /\ clients = IF userId = None THEN <<>> ELSE <<NewClient(userId, 0)>>
        /\ client = Len(clients) /\ userId \in Resident /\ epoch = 0
        /\ status # "ready" /\ homeState = None
    BY DEF Init, HostInit
  <2>2. CASE userId = None
    BY <2>1, <2>2 DEF ServesResident
  <2>3. CASE userId # None
    <3>1. /\ client = 1 /\ DOMAIN clients = {1} /\ clients[1] = NewClient(userId, 0)
      BY <2>1, <2>3
    <3>2. /\ clients[1].epoch = 0 /\ clients[1].cred = None
          /\ clients[1].fetch.stage = "idle"
      BY <2>1, <2>3, <3>1, NewClientType DEF Resident
    <3> QED BY <2>1, <3>1, <3>2 DEF ServesResident, Fits
  <2> QED BY <2>2, <2>3
<1>4. calls = <<>> /\ answers = {} /\ action = "idle" /\ DOMAIN calls = {}
  BY DEF Init, HostInit
<1>5. CarriesFaithfully
  BY <1>4 DEF CarriesFaithfully
<1>6. PressesOnce
  BY <1>4 DEF PressesOnce, Busy
<1>7. ShowsResident
  BY DEF Init, ShowsResident
<1> QED BY <1>2, <1>3, <1>5, <1>6, <1>7 DEF IInv

LEMMA Inductive == IInv /\ [Next]_vars => IInv'
<1> SUFFICES ASSUME IInv, [Next]_vars PROVE IInv'
  OBVIOUS
<1>1. HostTypeOK /\ ShellTypeOK
  BY DEF IInv, ShellTypeOK
<1>2. CASE Render
  <2>1. UNCHANGED hostVars
    BY <1>2 DEF Render
  <2> QED BY <1>1, <1>2, <2>1, TypedRendered, ShownRendered, StageKeeps DEF IInv
<1>3. CASE Continuation /\ UNCHANGED shellVars
  <2>1. CASE \E n \in DOMAIN clients : TokenArrives(n) \/ Exchanged(n) \/ FetchFails(n)
    BY <1>3, <2>1, ProviderKeeps
  <2>2. CASE \E i \in DOMAIN calls :
                Accepted(i) \/ \E result \in {"applied", "failed"} : Settled(i, result)
    <3>1. ~disposed
      BY <1>3 DEF Continuation
    <3> QED BY <1>3, <2>2, <3>1, HearKeeps
  <2>3. CASE \E e \in popups, u \in Resident : PopupEnds(e, u)
    BY <1>1, <1>3, <2>3, TypedIdentity, IdentityKeeps
  <2> QED BY <1>3, <2>1, <2>2, <2>3 DEF Continuation
<1>4. CASE Event /\ UNCHANGED shellVars
  <2>1. CASE \/ \E u \in Resident : AccountChanges(u)
             \/ signIn
    BY <1>1, <1>4, <2>1, TypedIdentity, IdentityKeeps
  <2>2. CASE Notified
    BY <1>4, <2>2, NotifiedKeeps
  <2>3. CASE reconnect
    BY <1>4, <2>3, ReconnectKeeps
  <2>4. CASE \E n \in DOMAIN clients : AsksCredential(n)
    BY <1>4, <2>4, ProviderKeeps
  <2>5. CASE \/ \E s \in {"connecting", "ready", "unavailable"} : ClientStatus(s)
             \/ \E stale \in BOOLEAN : StateReported(stale)
    BY <1>4, <2>5, ReportKeeps
  <2> QED BY <1>4, <2>1, <2>2, <2>3, <2>4, <2>5 DEF Event
<1>5. CASE Press
  BY <1>5, BeginKeeps DEF Press
<1>6. CASE ~Dirty /\ InterfaceCalls
  <2>1. call(mounted.user) /\ mounted # None /\ UNCHANGED shellVars
    BY <1>6 DEF InterfaceCalls
  <2>2. ~disposed
    BY <2>1 DEF call
  <2>3. rendered.user = userId
    BY <1>6, <2>2 DEF Dirty, Input
  <2>4. mounted.user = userId
    BY <2>1, <2>3 DEF IInv, ShowsResident
  <2> QED BY <2>1, <2>4, BeginKeeps
<1>7. CASE UNCHANGED vars
  <2>1. UNCHANGED shellVars /\ UNCHANGED hostVars
    BY <1>7 DEF vars
  <2>2. HostTypeOK'
    BY <1>1, <2>1 DEF HostTypeOK, hostVars, identity, connection
  <2> QED BY <1>1, <2>1, <2>2, IdentityKeeps DEF IdentityStep, hostVars, identity, connection
<1> QED BY <1>2, <1>3, <1>4, <1>5, <1>6, <1>7, LoadedKeeps, MountKeeps, ChosenKeeps, ClosesKeeps
        DEF Next

-----------------------------------------------------------------------------
(* The theorems. *)

LEMMA Invariant == Spec => []IInv
<1> QED BY Initially, Inductive, PTL DEF Spec

(* The state of the shell and of its host is well formed, and nothing      *)
(* names a client, a request or an epoch that does not exist yet.          *)
THEOREM TypeCorrect == Spec => []ShellTypeOK
<1>1. IInv => ShellTypeOK
  BY DEF IInv
<1> QED BY <1>1, Invariant, PTL

(* However the account changes while tokens are fetched, the credential of *)
(* the current client and the state the shell shows are the resident's.    *)
THEOREM AlwaysOneself == Spec => []ConnectionIsTheResidents
<1>1. IInv => ConnectionIsTheResidents
  <2> SUFFICES ASSUME IInv PROVE ConnectionIsTheResidents
    OBVIOUS
  <2>1. client # 0 => client \in DOMAIN clients /\ Fits(clients[client], epoch, userId)
    BY Members DEF IInv, ShellTypeOK, HostTypeOK, ServesResident
  <2> QED BY <2>1 DEF IInv, ServesResident, Fits, ConnectionIsTheResidents
<1> QED BY <1>1, Invariant, PTL

(* An interface is fetched or open only for the resident who is signed in  *)
(* and agreed to it, once the shell has rendered.                          *)
THEOREM AlwaysAgreed == Spec => []InterfaceNeedsAgreement
<1>1. IInv => InterfaceNeedsAgreement
  <2> SUFFICES ASSUME IInv, ~Dirty, ~disposed,
                      loading # 0 \/ mounted # None
               PROVE  /\ userId \in agreed \ {None}
                      /\ mounted # None => mounted.user = userId
    BY DEF InterfaceNeedsAgreement
  <2>1. rendered = Input
    BY DEF Dirty
  <2>2. Enabled(rendered)
    BY DEF IInv, ShowsResident
  <2>3. userId \in agreed /\ userId # None
    BY <2>1, <2>2 DEF Enabled, Input
  <2>4. rendered.user = userId
    BY <2>1 DEF Input
  <2> QED BY <2>3, <2>4 DEF IInv, ShowsResident
<1> QED BY <1>1, Invariant, PTL

(* The interface that is open sees the home as its own resident does.      *)
THEOREM AlwaysOwnView == Spec => []InterfaceSeesItsResident
<1>1. IInv => InterfaceSeesItsResident
  BY DEF IInv, ShowsResident, Enabled, InterfaceSeesItsResident
<1> QED BY <1>1, Invariant, PTL

(* A call goes out with the credential of the resident it acts for, and    *)
(* its answer is passed on only while they are signed in.                  *)
THEOREM AlwaysInOwnName == Spec => []CallsKeepTheirResident
<1>1. IInv => CallsKeepTheirResident
  BY DEF IInv, CarriesFaithfully, CallsKeepTheirResident
<1> QED BY <1>1, Invariant, PTL

(* At most one press is in flight on the connection, and the control is    *)
(* busy exactly as long as one is.                                         *)
THEOREM AlwaysOnePress == Spec => []PressActsOnce
<1>1. IInv => PressActsOnce
  <2> SUFFICES ASSUME IInv, ~disposed
               PROVE  /\ Cardinality(InFlight(client)) <= 1
                      /\ action \in Busy <=> InFlight(client) # {}
    BY DEF PressActsOnce
  <2>1. \A i \in DOMAIN calls : i \in InFlight(client) <=> Acting(i) /\ Open(calls[i])
    BY DEF InFlight, IInv, PressesOnce, Acting
  <2>2. InFlight(client) \subseteq DOMAIN calls
    BY DEF InFlight
  <2>3. action \in Busy <=> InFlight(client) # {}
    BY <2>1, <2>2 DEF IInv, PressesOnce
  <2>4. \A i, j \in InFlight(client) : i = j
    BY <2>1, <2>2 DEF IInv, PressesOnce
  <2>5. CASE InFlight(client) = {}
    <3>1. Cardinality(InFlight(client)) = 0
      BY <2>5, FS_EmptySet, Zenon
    <3> QED BY <2>3, <3>1
  <2>6. CASE InFlight(client) # {}
    <3>1. PICK i : InFlight(client) = {i}
      BY <2>4, <2>6
    <3>2. Cardinality(InFlight(client)) = 1
      BY <3>1, FS_Singleton, Zenon
    <3> QED BY <2>3, <3>2
  <2> QED BY <2>5, <2>6
<1> QED BY <1>1, Invariant, PTL
=============================================================================
