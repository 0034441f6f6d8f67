---------------------------- MODULE ResidentShell ---------------------------
(***************************************************************************)
(* The shell around a home's own interface (src/app/app.tsx, with the      *)
(* agreement of house-consent.ts and the stage of house-shell.tsx),        *)
(* composed with the live host.  The interface is fetched and opened only  *)
(* for a resident who agreed to it; it receives the home's state and may   *)
(* call the home, in the name of the resident it was opened for.           *)
(*                                                                         *)
(* A snapshot or an agreement that changes makes React render, commit and  *)
(* run its effects in a microtask: no message, event or timer comes in     *)
(* between, but other promises may.  What the hooks set themselves, the    *)
(* outcome of a loading and a mounted session, is rendered later.          *)
(***************************************************************************)
EXTENDS LiveHost, FiniteSets

CONSTANTS MaxRetries   \* bound: retries, and changes of an agreement

VARIABLES
    houseMode,   \* the deployment has a release coordinator
    agreed,      \* the scopes whose resident agreed to this home's interface
    choices,     \* retries and changes of agreements so far
    attempt,     \* the retry counter
    rendered,    \* what the last commit was rendered from
    request,     \* number of the request that commit was for
    loading,     \* the request whose activation is awaited, or 0
    outcome,     \* the outcome of the last activation
    mounted      \* the interface that was opened, or None

shellVars == <<houseMode, agreed, choices, attempt, rendered, request, loading,
               outcome, mounted>>
vars      == <<hostVars, shellVars>>

(* What a render of the shell reads: the host's snapshot, the agreement of  *)
(* the resident it names, and the retry counter.  Someone who is not signed *)
(* in has a scope too, the anonymous one.  Outside house mode the shell    *)
(* shows the live tree, whose control is pressed, and asks for no consent. *)
Input == [user |-> userId, epoch |-> epoch, home |-> homeState,
          consent |-> houseMode /\ userId \in agreed, attempt |-> attempt]

NoOutcome == [request |-> 0, interface |-> FALSE]

(* A session receives the state of the commit that opens it, and later ones. *)
Session == [request: Nat, user: Users, pc: {"mounting", "mounted"}]

ShellTypeOK ==
    /\ HostTypeOK
    /\ houseMode \in BOOLEAN /\ agreed \in SUBSET Resident
    /\ {choices, attempt, request} \subseteq Nat
    /\ rendered.user \in Resident /\ rendered.epoch \in 0..epoch
    /\ loading \in 0..request
    /\ outcome \in [request: 0..request, interface: BOOLEAN]
    /\ mounted \in Session \cup {None}

Init ==
    /\ HostInit
    /\ houseMode \in BOOLEAN
    /\ agreed \in IF houseMode THEN SUBSET Resident ELSE {{}}
    /\ choices = 0 /\ attempt = 0
    /\ rendered = [user |-> None, epoch |-> 0, home |-> None, consent |-> FALSE,
                   attempt |-> 0]
    /\ request = 0 /\ loading = 0 /\ outcome = NoOutcome /\ mounted = None

-----------------------------------------------------------------------------
(* Rendering. *)

Dirty == ~disposed /\ rendered # Input

Enabled(in) == in.consent /\ in.user # None

(* A switch from one resident to another makes no new request. *)
WrongSameRequest(in, last) ==
    Enabled(in) = Enabled(last) /\ in.attempt = last.attempt

(* useMemo keeps the request from one commit to the next. *)
SameRequest(in, last) ==
    Enabled(in) = Enabled(last) /\ in.attempt = last.attempt /\ in.epoch = last.epoch

(* The effect of useComponentRelease: the loading of a replaced request is  *)
(* aborted, and that of a new one begins.                                  *)
Loading(in, n) ==
    IF ~Enabled(in) THEN 0 ELSE IF n = request THEN loading ELSE n

(* The commit for request n shows the interface that was loaded. *)
Shows(in, n) == Enabled(in) /\ outcome = [request |-> n, interface |-> TRUE]

(* The effects of useComponentRuntime and of HouseAppStage: what was opened *)
(* for another activation is released, and this one is opened.             *)
Mounted(in, n) ==
    IF ~Shows(in, n) THEN None
    ELSE IF mounted # None /\ mounted.request = n THEN mounted
    ELSE [request |-> n, user |-> in.user, pc |-> "mounting"]

Render ==
    /\ ~disposed
    /\ rendered' = Input
    /\ request' = IF SameRequest(Input, rendered) THEN request ELSE request + 1
    /\ loading' = Loading(Input, request')
    /\ mounted' = Mounted(Input, request')
    /\ <<rendered', mounted'>> # <<rendered, mounted>>
    /\ UNCHANGED <<hostVars, houseMode, agreed, choices, attempt, outcome>>

-----------------------------------------------------------------------------
(* What the shell waits for, and what the resident does. *)

(* The activation of a release that was asked for, unless it was aborted:  *)
(* there is an interface, or none is published or can be had.              *)
ActivationEnds(interface) ==
    /\ loading # 0
    /\ outcome' = [request |-> loading, interface |-> interface]
    /\ loading' = 0
    /\ UNCHANGED <<hostVars, houseMode, agreed, choices, attempt, rendered, request,
                   mounted>>

(* The frame is ready; a mount that was released is disposed of instead.   *)
MountEnds ==
    /\ mounted # None /\ mounted.pc = "mounting"
    /\ mounted' = [mounted EXCEPT !.pc = "mounted"]
    /\ UNCHANGED <<hostVars, houseMode, agreed, choices, attempt, rendered, request,
                   loading, outcome>>

Chosen == houseMode /\ choices < MaxRetries /\ choices' = choices + 1

(* grant and revoke, by the resident of that scope here or in another tab. *)
Agrees(scope) ==
    /\ Chosen
    /\ agreed' = agreed \cup {scope}
    /\ UNCHANGED <<hostVars, houseMode, attempt, rendered, request, loading, outcome,
                   mounted>>

Withdraws(scope) ==
    /\ Chosen
    /\ agreed' = agreed \ {scope}
    /\ UNCHANGED <<hostVars, houseMode, attempt, rendered, request, loading, outcome,
                   mounted>>

Retries ==
    /\ Chosen
    /\ attempt' = attempt + 1
    /\ UNCHANGED <<hostVars, houseMode, agreed, rendered, request, loading, outcome,
                   mounted>>

(* The control of the live tree. *)
Press == ~houseMode /\ interact /\ UNCHANGED shellVars

(* A message of the open interface asks for a call. *)
InterfaceCalls ==
    /\ mounted # None /\ mounted.pc = "mounted"
    /\ call(mounted.user)
    /\ UNCHANGED shellVars

(* The page closes: React releases what is mounted and disposes the host.  *)
Closes ==
    /\ dispose
    /\ loading' = 0 /\ mounted' = None
    /\ UNCHANGED <<houseMode, agreed, choices, attempt, rendered, request, outcome>>

Next ==
    \/ Render
    \/ Continuation /\ UNCHANGED shellVars
    \/ \E interface \in BOOLEAN : ActivationEnds(interface)
    \/ MountEnds
    \/ /\ ~Dirty
       /\ \/ Event /\ UNCHANGED shellVars
          \/ \E scope \in Resident : Agrees(scope) \/ Withdraws(scope)
          \/ Retries \/ Press \/ InterfaceCalls \/ Closes

Spec == Init /\ [][Next]_vars

-----------------------------------------------------------------------------
(* Safety. *)

(* The connection is the resident's: the credential of the current client  *)
(* was issued to who is signed in, however the account changed while the   *)
(* tokens were fetched, and so was the state the shell shows.              *)
ConnectionIsTheResidents ==
    ~disposed =>
        /\ client # 0 => clients[client].cred \in {None, userId}
        /\ homeState # None => homeState.user = userId

(* Nothing of a home's interface is fetched or opened except for the       *)
(* resident signed in, who agreed to it, once the shell has rendered.      *)
InterfaceNeedsAgreement ==
    ~Dirty /\ ~disposed =>
        /\ loading # 0 => userId \in agreed \ {None}
        /\ mounted # None => userId \in agreed /\ mounted.user = userId

(* An interface is never given the state of the home as another resident   *)
(* sees it: what was rendered last is passed to the one that is open.      *)
InterfaceSeesItsResident ==
    (mounted # None /\ rendered.home # None) => rendered.home.user = mounted.user

(* A call reaches the home with the credential of the resident it acts     *)
(* for, and its answer is passed on only while they are signed in.         *)
CallsKeepTheirResident ==
    /\ \A i \in DOMAIN calls : Open(calls[i]) => clients[calls[i].via].cred = calls[i].asker
    /\ \A p \in answers : p[1] = p[2]

InFlight(n) == {i \in DOMAIN calls : /\ calls[i].kind = "action"
                                     /\ Open(calls[i]) /\ calls[i].via = n}

(* A press acts once and is not left waiting: at most one is in flight on  *)
(* the connection, and the control is busy exactly as long as it is.       *)
PressActsOnce ==
    ~disposed => /\ Cardinality(InFlight(client)) <= 1
                 /\ action \in Busy <=> InFlight(client) # {}
=============================================================================
