-------------------------- MODULE AdmissionProofs ---------------------------
(***************************************************************************)
(* Who is let in: under which session the gateway admits a relay call, and *)
(* under which list of keys the agent admits a client.                     *)
(***************************************************************************)
EXTENDS AttachSession, AgentAccess, TLAPS

----------------------------------------------------------------------------
(***************************************************************************)
(* Attach sessions, for any number of calls, keys, users and snapshots and any*)
(* retention.                                                              *)
(***************************************************************************)

\* A relay call that is past the choice of its session, or registered, has had
\* its session active.
PastChoiceWasActive ==
    \A r \in Relays :
        phase[r] \in {"scan", "tell", "upgrade", "open"} => r \in held

\* A relay of served has been registered, so it does not register again.
ServedIsRegistered == \A r \in served : phase[r] \in {"open", "closed"}

\* The inductive invariant.
IInv == TypeOK /\ PreemptedIsTold /\ PastChoiceWasActive /\ ServedIsRegistered

\* The empty hub has the inductive invariant.
LEMMA InitIInv == Init => IInv
  BY KeyAssumption, CallAssumption, TimeAssumption
, SMTT(30) DEF Init, IInv, TypeOK, PreemptedIsTold, PastChoiceWasActive,
         ServedIsRegistered, NoSnap, Times, Phases, Busy

\* A step of a call keeps the types of the variables.
LEMMA CallTypeOK ==
    ASSUME TypeOK, NEW c \in Calls, CallStep(c)
    PROVE  TypeOK'
  <1> USE KeyAssumption, CallAssumption, TimeAssumption DEF TypeOK, Phases, Busy
  <1>1. ASSUME NEW k \in Keys, Activate(c, k) PROVE TypeOK'
    BY <1>1 DEF Activate, Goto
  <1>2. ASSUME NEW k \in Keys \union {NoKey}, Attach(c, k) PROVE TypeOK'
    <2> DEFINE mine == IF k = NoKey THEN active ELSE k
    <2>1. key' = [key EXCEPT ![c] = mine] /\ key'[c] = mine
      BY <1>2 DEF Attach
    <2>2. mine \in Keys \union {NoKey}
      OBVIOUS
    <2>3. phase'[c] = IF mine = NoKey THEN "refused" ELSE IF active = NoKey THEN "set"
                      ELSE IF active = mine THEN "upgrade" ELSE "check"
      BY <1>2, <2>1 DEF Attach, Goto
    <2>4. phase' = [phase EXCEPT ![c] = phase'[c]] /\ old' = [old EXCEPT ![c] = active]
      BY <1>2 DEF Attach, Goto
    <2>5. held' \subseteq Calls
      BY <1>2 DEF Attach
    <2> HIDE DEF mine
    <2> QED
      BY <1>2, <2>1, <2>2, <2>3, <2>4, <2>5 DEF Attach
  <1>3. CASE CheckRequested(c)
    <2>1. snaps[key[c]].updated \in Times \union {-1}
      BY <1>3 DEF CheckRequested
    <2>2. reqAt' \in [Calls -> Times \union {-1}]
      BY <1>3, <2>1 DEF CheckRequested
    <2>3. /\ phase' = [phase EXCEPT ![c] = phase'[c]]
          /\ phase'[c] \in {"compare", "refused"}
      BY <1>3 DEF CheckRequested, Goto
    <2> QED
      BY <1>3, <2>2, <2>3 DEF CheckRequested
  <1>4. CASE CompareActive(c)
    BY <1>4 DEF CompareActive, Goto
  <1>5. CASE SetActiveSession(c)
    BY <1>5 DEF SetActiveSession, Goto
  <1>6. CASE PreemptScan(c)
    BY <1>6 DEF PreemptScan, Goto
  <1>7. ASSUME NEW r \in Relays, PreemptTell(c, r) PROVE TypeOK'
    BY <1>7 DEF PreemptTell
  <1>8. CASE PreemptDone(c)
    BY <1>8 DEF PreemptDone, Goto
  <1>9. CASE RegisterRelay(c)
    BY <1>9 DEF RegisterRelay, Goto
  <1>10. CASE Return(c)
    BY <1>10 DEF Return, Goto
  <1>11. CASE UnregisterRelay(c)
    BY <1>11 DEF UnregisterRelay, Goto
  <1> QED
    BY <1>1, <1>2, <1>3, <1>4, <1>5, <1>6, <1>7, <1>8, <1>9, <1>10, <1>11 DEF CallStep

\* So does every other step.
LEMMA NextTypeOK ==
    ASSUME TypeOK, [Next]_vars
    PROVE  TypeOK'
  <1> USE KeyAssumption, CallAssumption, TimeAssumption DEF TypeOK
  <1>1. ASSUME NEW c \in Calls, CallStep(c) PROVE TypeOK'
    BY <1>1, CallTypeOK
  <1>2. ASSUME NEW k \in Keys, ClearActiveSession(k) PROVE TypeOK'
    BY <1>2 DEF ClearActiveSession
  <1>3. ASSUME NEW k \in Keys, NEW us \in SUBSET Users, NEW at \in 0..now,
               UpsertSession(k, us, at)
        PROVE  TypeOK'
    <2> DEFINE Snap == [updated : Times \union {-1}, for : SUBSET Users]
    <2>1. pruned(at) \in [Keys -> Snap]
      BY DEF pruned, NoSnap
    <2>2. [updated |-> at, for |-> us] \in Snap
      BY DEF Times
    <2>3. snaps' \in [Keys -> Snap]
      BY <1>3, <2>1, <2>2 DEF UpsertSession
    <2> QED
      BY <1>3, <2>3 DEF UpsertSession
  <1>4. CASE Tick
    BY <1>4 DEF Tick, Times
  <1>5. CASE UNCHANGED vars
    BY <1>5 DEF vars
  <1> QED
    BY <1>1, <1>2, <1>3, <1>4, <1>5, Zenon DEF Next

\* A call that has chosen keeps the record that its session was active.
LEMMA NextPastChoice ==
    ASSUME TypeOK, PastChoiceWasActive, [Next]_vars
    PROVE  PastChoiceWasActive'
  <1> USE KeyAssumption, CallAssumption DEF TypeOK, PastChoiceWasActive
  <1>1. ASSUME NEW c \in Calls, CallStep(c) PROVE PastChoiceWasActive'
    <2>1. ASSUME NEW k \in Keys, Activate(c, k) PROVE PastChoiceWasActive'
      BY <2>1 DEF Activate, Goto
    <2>2. ASSUME NEW k \in Keys \union {NoKey}, Attach(c, k)
          PROVE  PastChoiceWasActive'
      BY <2>2 DEF Attach, Goto
    <2>3. CASE CheckRequested(c)
      BY <2>3 DEF CheckRequested, Goto
    <2>4. CASE CompareActive(c)
      BY <2>4 DEF CompareActive, Goto
    <2>5. CASE SetActiveSession(c)
      BY <2>5 DEF SetActiveSession, Goto
    <2>6. CASE PreemptScan(c)
      BY <2>6 DEF PreemptScan, Goto
    <2>7. ASSUME NEW r \in Relays, PreemptTell(c, r) PROVE PastChoiceWasActive'
      BY <2>7 DEF PreemptTell
    <2>8. CASE PreemptDone(c)
      BY <2>8 DEF PreemptDone, Goto
    <2>9. CASE RegisterRelay(c)
      BY <2>9 DEF RegisterRelay, Goto
    <2>10. CASE Return(c)
      BY <2>10 DEF Return, Goto
    <2>11. CASE UnregisterRelay(c)
      BY <2>11 DEF UnregisterRelay, Goto
    <2> QED
      BY <1>1, <2>1, <2>2, <2>3, <2>4, <2>5, <2>6, <2>7, <2>8, <2>9, <2>10, <2>11
         DEF CallStep
  <1>2. CASE UNCHANGED <<phase, held>>
    BY <1>2
  <1> QED
    BY <1>1, <1>2 DEF Next, ClearActiveSession, UpsertSession, Tick, vars

\* A registered relay stays registered or ends.
LEMMA NextServed ==
    ASSUME TypeOK, ServedIsRegistered, [Next]_vars
    PROVE  ServedIsRegistered'
  <1> USE CallAssumption DEF TypeOK, ServedIsRegistered
  <1>1. ASSUME NEW c \in Calls, CallStep(c) PROVE ServedIsRegistered'
    <2>1. CASE RegisterRelay(c)
      BY <2>1, SMTT(30) DEF RegisterRelay, Goto
    <2>2. CASE ~RegisterRelay(c)
      BY <1>1, <2>2 DEF CallStep, Activate, Attach, CheckRequested,
            CompareActive, SetActiveSession, PreemptScan, PreemptTell,
            PreemptDone, Return, UnregisterRelay, Goto
    <2> QED
      BY <2>1, <2>2
  <1>2. CASE UNCHANGED <<phase, served>>
    BY <1>2
  <1> QED
    BY <1>1, <1>2 DEF Next, ClearActiveSession, UpsertSession, Tick, vars

\* A step of a call leaves a preemption on its way to every relay that needs one.
LEMMA CallPreempts ==
    ASSUME TypeOK, PreemptedIsTold, ServedIsRegistered, NEW c \in Calls,
           CallStep(c)
    PROVE  PreemptedIsTold'
  <1> USE KeyAssumption, CallAssumption DEF TypeOK
  <1> SUFFICES ASSUME NEW r \in (served \ told)', phase'[r] = "open",
                      active' \notin {key'[r], NoKey}
               PROVE  \E d \in Calls : Underway(d, r)'
    BY DEF PreemptedIsTold
  <1>0. r \in Relays /\ r \in Calls
    BY CallTypeOK, SMTT(30)
  <1>a. ASSUME r \in served \ told, phase[r] = "open", active \notin {key[r], NoKey}
        PROVE  \E d \in Calls : Underway(d, r)
    BY <1>a DEF PreemptedIsTold
  <1>1. ASSUME NEW k \in Keys, Activate(c, k) PROVE \E d \in Calls : Underway(d, r)'
    BY <1>0, <1>a, <1>1 DEF Activate, Goto, Underway
  <1>2. ASSUME NEW k \in Keys \union {NoKey}, Attach(c, k)
        PROVE  \E d \in Calls : Underway(d, r)'
    <2>1. c # r /\ phase[c] = "idle"
      BY <1>0, <1>2 DEF Attach, Goto
    <2>2. PICK d \in Calls : Underway(d, r)
      BY <1>0, <1>a, <1>2, <2>1 DEF Attach, Goto
    <2>3. d # c
      BY <2>1, <2>2 DEF Underway
    <2> QED
      BY <1>0, <1>2, <2>1, <2>2, <2>3 DEF Attach, Goto, Underway
  <1>3. CASE CheckRequested(c)
    BY <1>0, <1>3, <1>a DEF CheckRequested, Goto, Underway
  <1>4. CASE CompareActive(c)
    BY <1>0, <1>4, <1>a DEF CompareActive, Goto, Underway
  <1>5. CASE SetActiveSession(c)
    <2>1. phase[c] = "set" /\ c # r
      BY <1>0, <1>5 DEF SetActiveSession, Goto
    <2>2. key[r] # key[c] /\ key' = key /\ stale' = stale
      BY <1>5 DEF SetActiveSession
    <2>3. CASE active # key[c]
      <3>1. phase'[c] = "scan"
        BY <1>5, <2>3 DEF SetActiveSession, Goto
      <3> QED
        BY <2>2, <3>1 DEF Underway
    <2>4. CASE active = key[c]
      BY <1>0, <1>5, <1>a, <2>1, <2>4, SMTT(30) DEF SetActiveSession, Goto, Underway
    <2> QED
      BY <2>3, <2>4
  <1>6. CASE PreemptScan(c)
    <2>1. PICK d \in Calls : Underway(d, r)
      BY <1>0, <1>6, <1>a DEF PreemptScan, Goto
    <2>2. r \in Relays /\ phase[r] = "open"
      BY <1>0, <1>6 DEF PreemptScan, Goto
    <2>3. CASE d = c
      <3>1. key[r] # key[c]
        BY <1>6, <2>1, <2>3 DEF PreemptScan, Underway
      <3>2. r \in stale'[c] /\ phase'[c] = "tell"
        BY <1>6, <2>2, <3>1 DEF PreemptScan, Goto
      <3> QED
        BY <3>2 DEF Underway
    <2>4. CASE d # c
      BY <1>6, <2>1, <2>4 DEF PreemptScan, Goto, Underway
    <2> QED
      BY <2>3, <2>4
  <1>7. ASSUME NEW q \in Relays, PreemptTell(c, q)
        PROVE  \E d \in Calls : Underway(d, r)'
    <2>1. r # q
      BY <1>7 DEF PreemptTell
    <2> QED
      BY <1>0, <1>7, <1>a, <2>1 DEF PreemptTell, Underway
  <1>8. CASE PreemptDone(c)
    BY <1>0, <1>8, <1>a DEF PreemptDone, Goto, Underway
  <1>9. CASE RegisterRelay(c)
    <2>1. c # r
      BY <1>9 DEF RegisterRelay, ServedIsRegistered
    <2> QED
      BY <1>0, <1>9, <1>a, <2>1 DEF RegisterRelay, Goto, Underway
  <1>10. CASE Return(c)
    BY <1>0, <1>10, <1>a DEF Return, Goto, Underway
  <1>11. CASE UnregisterRelay(c)
    BY <1>0, <1>11, <1>a DEF UnregisterRelay, Goto, Underway
  <1> QED
    BY <1>1, <1>2, <1>3, <1>4, <1>5, <1>6, <1>7, <1>8, <1>9, <1>10, <1>11, ZenonT(30) DEF CallStep

\* So does every other step.
LEMMA NextPreempts ==
    ASSUME TypeOK, PreemptedIsTold, ServedIsRegistered, [Next]_vars
    PROVE  PreemptedIsTold'
  <1>1. ASSUME NEW c \in Calls, CallStep(c) PROVE PreemptedIsTold'
    BY <1>1, CallPreempts
  <1>2. ASSUME NEW k \in Keys, ClearActiveSession(k) PROVE PreemptedIsTold'
    BY <1>2 DEF ClearActiveSession, PreemptedIsTold
  <1>3. CASE UNCHANGED <<active, phase, key, stale, told, served>>
    BY <1>3 DEF PreemptedIsTold, Underway
  <1> QED
    BY <1>1, <1>2, <1>3 DEF Next, UpsertSession, Tick, vars

\* The inductive invariant always holds.
THEOREM AlwaysIInv == Spec => []IInv
  <1>1. IInv /\ [Next]_vars => IInv'
    BY NextTypeOK, NextPastChoice, NextServed, NextPreempts DEF IInv
  <1> QED
    BY InitIInv, <1>1, PTL DEF Spec

\* The variables of the hub and of its calls keep their types.
THEOREM TypeCorrect == Spec => []TypeOK
  <1>1. IInv => TypeOK
    BY DEF IInv
  <1> QED
    BY AlwaysIInv, <1>1, PTL

\* Whatever calls, activations and teardowns do, a relay registered under the
\* active session does not outlive it untold, but for a preemption under way.
THEOREM PreemptionReaches == Spec => []PreemptedIsTold
  <1>1. IInv => PreemptedIsTold
    BY DEF IInv
  <1> QED
    BY AlwaysIInv, <1>1, PTL

\* No relay call is admitted under a session that was never active while it ran.
THEOREM AdmissionIsJustified == Spec => []AdmittedWasActive
  <1>1. IInv => AdmittedWasActive
    BY DEF IInv, PastChoiceWasActive, AdmittedWasActive
  <1> QED
    BY AlwaysIInv, <1>1, PTL

----------------------------------------------------------------------------
(***************************************************************************)
(* Admission to the agent, for any clients, keys and configurations.       *)
(*                                                                         *)
(* AdmissionFollowsList is not inductive: it speaks of handshakes that have*)
(* read the list.  AccessInv adds what holds before they do (the list in   *)
(* effect is among those named to a handshake that has still to read one)  *)
(* and why no list refuses a configured key or is empty by accident (every *)
(* list holds the configured keys, and without those any client may come in).*)
(***************************************************************************)

\* The configured keys are in the list, without any every client may come in, and the
\* list in effect is among those a handshake that has still to read it may go by.
AccessInv ==
    /\ config.authorized \subseteq keys
    /\ config.authorized = {} => config.insecure
    /\ \A c \in Callers : shake[c].srv \in {"new", "reply"} => keys \in shake[c].named
    /\ AdmissionFollowsList

\* A configuration that was loaded holds well-formed keys, and says so if there
\* are none (validate_security after apply_env_overrides).
LEMMA LoadedConfig ==
    ASSUME NEW c \in load_with_env
    PROVE  /\ c \in [authorized: SUBSET PublicKeys, insecure: BOOLEAN]
           /\ normalize_keys(c.authorized) = c.authorized
           /\ c.authorized = {} => c.insecure
<1>1. PICK f \in [authorized: SUBSET RawKeys, insecure: BOOLEAN],
           e \in [set: SUBSET {"keys", "insecure"},
                  authorized: SUBSET RawKeys, insecure: BOOLEAN] :
         LET d == apply_env_overrides(f, e)
         IN  /\ validate_security(d)
             /\ c = [d EXCEPT !.authorized = normalize_keys(@)]
      BY DEF load_with_env
<1>2. DEFINE d == apply_env_overrides(f, e)
<1>3. d \in [authorized: SUBSET RawKeys, insecure: BOOLEAN]
      BY DEF apply_env_overrides
<1>4. /\ c.authorized = d.authorized \ {Blank}
      /\ c.insecure = d.insecure
      /\ c \in [authorized: SUBSET RawKeys, insecure: BOOLEAN]
      BY <1>1, <1>3 DEF normalize_keys
<1>5. /\ Malformed \notin c.authorized
      /\ c.authorized = {} => c.insecure
      BY <1>1, <1>4 DEF validate_security, normalize_keys
<1> QED BY <1>4, <1>5, ListAssumption DEF RawKeys, normalize_keys

\* A step of one handshake keeps the types if its new record has its type.
LEMMA ShakeKeepsTypes ==
    ASSUME AccessTypeOK, NEW c \in Callers, NEW r \in ShakeRecords, Shake(c, r)
    PROVE  AccessTypeOK'
BY DEF AccessTypeOK, Shake, keyVars, svcVars

\* The variables have their types in every reachable state.
THEOREM AccessTypeCorrect == AccessSpec => []AccessTypeOK
<1>1. AccessInit => AccessTypeOK
  <2> SUFFICES ASSUME AccessInit PROVE AccessTypeOK
      OBVIOUS
  <2>1. /\ config \in [authorized: SUBSET PublicKeys, insecure: BOOLEAN]
        /\ keys \in Allowlists
        BY LoadedConfig DEF AccessInit, normalize_keys, Allowlists
  <2>2. svc \in [Services -> {"select", "busy", "apply", "done"}]
        BY DEF AccessInit, Services
  <2>3. shake \in [Callers -> ShakeRecords]
        BY DEF AccessInit, NoShake, RawKeys, ShakeRecords, Allowlists
  <2>4. changes \in 0 .. MaxChanges
        BY ListAssumption DEF AccessInit
  <2>5. /\ platform \in PlatformLists
        /\ answer \in PlatformLists \union {{}}
        /\ stop \in BOOLEAN
        /\ unseen \subseteq Services
        BY Zenon DEF AccessInit
  <2> QED BY <2>1, <2>2, <2>3, <2>4, <2>5 DEF AccessTypeOK
<1>2. AccessTypeOK /\ [AccessNext]_accessVars => AccessTypeOK'
  <2> SUFFICES ASSUME AccessTypeOK, [AccessNext]_accessVars PROVE AccessTypeOK'
      OBVIOUS
  <2>1. ASSUME NEW list \in PlatformLists, PlatformChanges(list)
        PROVE  AccessTypeOK'
        BY <2>1, ListAssumption DEF AccessTypeOK, PlatformChanges, svcVars
  <2>2. CASE StopServices
        BY <2>2 DEF AccessTypeOK, StopServices, keyVars
  <2>3. ASSUME NEW s \in Services, Service(s)
        PROVE  AccessTypeOK'
    <3>1. CASE IntervalTick(s)
          BY <3>1 DEF AccessTypeOK, IntervalTick, keyVars
    <3>2. CASE ServiceStops(s)
          BY <3>2 DEF AccessTypeOK, ServiceStops, keyVars
    <3>3. CASE fetch_agent_bootstrap
          BY <3>3 DEF AccessTypeOK, fetch_agent_bootstrap, Services
    <3>4. CASE sync_once
      <4> DEFINE list == normalize_keys(config.authorized \union answer)
      <4>1. list \in Allowlists
            BY ListAssumption DEF AccessTypeOK, normalize_keys, RawKeys, Allowlists
      <4>2. ASSUME NEW c \in Callers
            PROVE  [shake[c] EXCEPT !.named = @ \union {list}] \in ShakeRecords
        <5>1. shake[c] \in ShakeRecords
              BY DEF AccessTypeOK
        <5> HIDE DEF list
        <5> QED BY <4>1, <5>1 DEF ShakeRecords
      <4>3. shake' \in [Callers -> ShakeRecords]
        <5> HIDE DEF list
        <5> QED BY <3>4, <4>2, Zenon DEF AccessTypeOK, sync_once, replace_authorized_keys, list
      <4> QED BY <3>4, <4>1, <4>3, Zenon DEF AccessTypeOK, sync_once, replace_authorized_keys, Services
    <3>5. CASE send_heartbeat
          BY <3>5 DEF AccessTypeOK, send_heartbeat, keyVars, Services
    <3> QED BY <2>3, <3>1, <3>2, <3>3, <3>4, <3>5 DEF Service
  <2>4. ASSUME NEW c \in Callers, Handshake(c)
        PROVE  AccessTypeOK'
    <3>0. shake[c] \in ShakeRecords
          BY DEF AccessTypeOK
    <3>1. CASE SendNonce(c)
          BY <3>1, <3>0, ShakeKeepsTypes DEF SendNonce, ShakeRecords
    <3>2. CASE Decide(c)
          BY <3>2, <3>0, ShakeKeepsTypes DEF Decide, ShakeRecords
    <3>3. CASE AuthFails(c)
          BY <3>3, <3>0, ShakeKeepsTypes, Zenon DEF AuthFails, ShakeRecords
    <3>4. CASE Reject(c)
          BY <3>4, <3>0, ShakeKeepsTypes, Zenon DEF Reject, ShakeRecords
    <3>5. CASE AcceptClient(c)
          BY <3>5, <3>0, ShakeKeepsTypes, Zenon DEF AcceptClient, ShakeRecords
    <3>6. CASE Sign(c)
          BY <3>6, <3>0, ShakeKeepsTypes DEF Sign, ShakeRecords
    <3>7. CASE ReadVerdict(c)
          BY <3>7, <3>0, ShakeKeepsTypes DEF ReadVerdict, ShakeRecords
    <3>8. CASE GiveUp(c)
          BY <3>8, <3>0, ShakeKeepsTypes DEF GiveUp, ShakeRecords
    <3> QED BY <2>4, <3>1, <3>2, <3>3, <3>4, <3>5, <3>6, <3>7, <3>8 DEF Handshake
  <2>5. ASSUME NEW c \in Callers, NEW k \in PublicKeys, ClientConnects(c, k)
        PROVE  AccessTypeOK'
    <3>1. [shake[c] EXCEPT !.cli = "nonce", !.key = k, !.srv = "new", !.named = {keys}]
             \in ShakeRecords
          BY ZenonT(60) DEF ShakeRecords, RawKeys, AccessTypeOK
    <3> QED BY <2>5, <3>1, ShakeKeepsTypes DEF ClientConnects
  <2>6. CASE UNCHANGED accessVars
        BY <2>6 DEF AccessTypeOK, accessVars, keyVars, svcVars
  <2> QED BY <2>1, <2>2, <2>3, <2>4, <2>5, <2>6 DEF AccessNext
<1> QED BY <1>1, <1>2, PTL DEF AccessSpec

-----------------------------------------------------------------------------

\* The agent starts with its configured keys.
LEMMA AccessInvInit == AccessInit => AccessInv
<1> SUFFICES ASSUME AccessInit PROVE AccessInv
    OBVIOUS
<1>1. /\ config.authorized \subseteq keys
      /\ config.authorized = {} => config.insecure
      BY LoadedConfig DEF AccessInit
<1>2. \A c \in Callers : shake[c].srv = "none"
      BY DEF AccessInit, NoShake
<1> QED BY <1>1, <1>2 DEF AccessInv, AdmissionFollowsList

\* What AccessInv says of handshake c.
ShakeOK(c) ==
    /\ shake[c].srv \in {"new", "reply"} => keys \in shake[c].named
    /\ shake[c].srv = "accepting" =>
          \E list \in shake[c].named :
              shake[c].key \in list \/ (list = {} /\ config.insecure)
    /\ shake[c].srv = "rejecting" =>
          /\ shake[c].key \notin config.authorized
          /\ \E list \in shake[c].named : ~Admits(list, shake[c].key)

\* A step of handshake c preserves the invariant if it does for c.
LEMMA ShakeKeepsInv ==
    ASSUME AccessTypeOK, AccessInv, NEW c \in Callers, NEW r, Shake(c, r), ShakeOK(c)'
    PROVE  AccessInv'
<1>1. UNCHANGED <<config, keys>>
      BY DEF Shake, keyVars
<1>2. ASSUME NEW d \in Callers PROVE ShakeOK(d)'
  <2>1. CASE d = c
        BY <2>1
  <2>2. CASE d # c
    <3>1. shake'[d] = shake[d]
          BY <2>2 DEF Shake, AccessTypeOK
    <3> QED BY <1>1, <3>1, SMTT(30) DEF ShakeOK, AccessInv, AdmissionFollowsList, Admits
  <2> QED BY <2>1, <2>2
<1> QED BY <1>1, <1>2, Zenon DEF ShakeOK, AccessInv, AdmissionFollowsList

\* A handshake, a refresh of the keys and a bootstrap all preserve it.
LEMMA AccessInvNext ==
    AccessTypeOK /\ AccessInv /\ [AccessNext]_accessVars => AccessInv'
<1> SUFFICES ASSUME AccessTypeOK, AccessInv, [AccessNext]_accessVars
             PROVE  AccessInv'
    OBVIOUS
<1>1. ASSUME UNCHANGED <<config, keys, shake>> PROVE AccessInv'
      BY <1>1 DEF AccessInv, AdmissionFollowsList, Admits
<1>2. CASE sync_once
  <2> DEFINE list == normalize_keys(config.authorized \union answer)
  <2>1. config.authorized \subseteq list
        BY ListAssumption DEF AccessTypeOK, normalize_keys
  <2> HIDE DEF list
  <2>2. /\ keys' = list
        /\ config' = config
        /\ shake' = [c \in Callers |->
                        IF shake[c].srv \in {"new", "reply"}
                        THEN [shake[c] EXCEPT !.named = @ \union {list}] ELSE shake[c]]
        BY <1>2 DEF sync_once, replace_authorized_keys, list
  <2>3. ASSUME NEW c \in Callers PROVE ShakeOK(c)'
    <3>1. CASE shake[c].srv \in {"new", "reply"}
      <4>1. shake[c] \in ShakeRecords
            BY DEF AccessTypeOK
      <4>2. shake'[c] = [shake[c] EXCEPT !.named = @ \union {list}]
            BY <2>2, <3>1
      <4>3. /\ shake'[c].srv = shake[c].srv
            /\ list \in shake'[c].named
            BY <4>1, <4>2 DEF ShakeRecords
      <4> QED BY <2>2, <3>1, <4>3 DEF ShakeOK
    <3>2. CASE shake[c].srv \notin {"new", "reply"}
      <4>1. shake'[c] = shake[c]
            BY <2>2, <3>2
      <4> QED BY <2>2, <3>2, <4>1 DEF ShakeOK, AccessInv, AdmissionFollowsList, Admits
    <3> QED BY <3>1, <3>2
  <2> QED BY <2>1, <2>2, <2>3 DEF ShakeOK, AccessInv, AdmissionFollowsList
<1>3. ASSUME NEW c \in Callers, NEW k \in PublicKeys, ClientConnects(c, k)
      PROVE  AccessInv'
  <2>1. shake'[c].srv = "new" /\ keys' \in shake'[c].named
        BY <1>3 DEF ClientConnects, Shake, keyVars, AccessTypeOK, ShakeRecords
  <2> QED BY <1>3, <2>1, ShakeKeepsInv DEF ClientConnects, ShakeOK
<1>4. ASSUME NEW c \in Callers, Handshake(c)
      PROVE  AccessInv'
  <2>0. /\ shake[c] \in ShakeRecords
        /\ ShakeOK(c)
        BY DEF AccessTypeOK, AccessInv, AdmissionFollowsList, ShakeOK
  <2>1. CASE SendNonce(c)
    <3>1. keys' = keys /\ shake'[c] = [shake[c] EXCEPT !.srv = "reply"]
          BY <2>1 DEF SendNonce, Shake, keyVars, AccessTypeOK
    <3>2. shake'[c].srv = "reply" /\ keys' \in shake'[c].named
          BY <2>0, <2>1, <3>1 DEF SendNonce, ShakeOK, ShakeRecords
    <3> QED BY <2>1, <3>2, ShakeKeepsInv DEF SendNonce, ShakeOK
  <2>2. CASE Decide(c)
    <3>1. /\ config' = config
          /\ shake'[c] = [shake[c] EXCEPT !.srv = IF Admits(keys, shake[c].key)
                                                  THEN "accepting" ELSE "rejecting"]
          BY <2>2 DEF Decide, Shake, keyVars, AccessTypeOK
    <3>2. /\ shake'[c].srv = IF Admits(keys, shake[c].key) THEN "accepting" ELSE "rejecting"
          /\ shake'[c].key = shake[c].key
          /\ keys \in shake'[c].named
          BY <2>0, <2>2, <3>1 DEF Decide, ShakeOK, ShakeRecords
    <3>3. /\ config.authorized \subseteq keys
          /\ keys = {} => config.insecure
          BY DEF AccessInv
    <3>4. ShakeOK(c)'
          BY <3>1, <3>2, <3>3 DEF ShakeOK, Admits
    <3> QED BY <2>2, <3>4, ShakeKeepsInv DEF Decide
  <2>3. CASE AuthFails(c) \/ Reject(c) \/ AcceptClient(c)
    <3>1. shake'[c].srv \in {"ended", "in"}
      <4>1. CASE AuthFails(c)
            BY <2>0, <4>1 DEF AuthFails, Shake, AccessTypeOK, ShakeRecords
      <4>2. CASE Reject(c)
            BY <2>0, <4>2 DEF Reject, Shake, AccessTypeOK, ShakeRecords
      <4>3. CASE AcceptClient(c)
            BY <2>0, <4>3 DEF AcceptClient, Shake, AccessTypeOK, ShakeRecords
      <4> QED BY <2>3, <4>1, <4>2, <4>3
    <3>2. ShakeOK(c)'
          BY <3>1 DEF ShakeOK
    <3> QED BY <2>3, <3>2, ShakeKeepsInv DEF AuthFails, Reject, AcceptClient
  <2>4. CASE Sign(c) \/ ReadVerdict(c) \/ GiveUp(c)
    <3>1. /\ UNCHANGED <<config, keys>>
          /\ \E x : shake'[c] = [shake[c] EXCEPT !.cli = x]
          BY <2>4, ZenonT(30) DEF Sign, ReadVerdict, GiveUp, Shake, keyVars, AccessTypeOK
    <3>2. /\ shake'[c].srv = shake[c].srv
          /\ shake'[c].key = shake[c].key
          /\ shake'[c].named = shake[c].named
          BY <2>0, <3>1 DEF ShakeRecords
    <3>3. ShakeOK(c)'
          BY <2>0, <3>1, <3>2 DEF ShakeOK, Admits
    <3> QED BY <2>4, <3>3, ShakeKeepsInv DEF Sign, ReadVerdict, GiveUp
  <2> QED BY <1>4, <2>1, <2>2, <2>3, <2>4, SMTT(30) DEF Handshake
<1>5. CASE \/ \E list \in PlatformLists : PlatformChanges(list)
           \/ StopServices
           \/ \E s \in Services : IntervalTick(s) \/ ServiceStops(s)
           \/ fetch_agent_bootstrap
           \/ send_heartbeat
           \/ UNCHANGED accessVars
      BY <1>1, <1>5 DEF PlatformChanges, StopServices, IntervalTick, ServiceStops,
           fetch_agent_bootstrap, send_heartbeat, accessVars, keyVars
<1> QED BY <1>2, <1>3, <1>4, <1>5 DEF AccessNext, Service

\* Whatever the keys, the platform's lists and the number of clients: a client
\* is admitted only under an allowlist that was in effect during its handshake
\* and named it, or was empty where the configuration allows that, and a
\* configured key is never refused (auth.rs, authorized_keys.rs, config.rs).
THEOREM AdmissionIsSafe == AccessSpec => []AdmissionFollowsList
<1>1. AccessInv => AdmissionFollowsList
      BY DEF AccessInv
<1> QED BY <1>1, AccessInvInit, AccessInvNext, AccessTypeCorrect, PTL DEF AccessSpec
=============================================================================
