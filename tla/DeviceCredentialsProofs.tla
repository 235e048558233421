----------------------- MODULE DeviceCredentialsProofs -----------------------
(***************************************************************************)
(* Proofs about DeviceCredentials, for every number of devices, keys,      *)
(* sockets, pairing codes and migrations.                                  *)
(***************************************************************************)
EXTENDS DeviceCredentials, TLAPS

-----------------------------------------------------------------------------
(* The inductive invariant.                                                *)

\* One active and one pending key for a device at most.
OnePerState ==
  \A j, k \in Keys :
    state[j] \in {"active", "pending"} /\ state[k] = state[j] /\ owner[k] = owner[j] => j = k

PairingsUnowned == \A k \in pairings : state[k] = "none"

\* A device has an active key from its first proof on, and none before.
SeenHasActive == \A d \in seen : \E k \in Keys : owner[k] = d /\ state[k] = "active"
ActiveIsSeen == \A k \in Keys : state[k] = "active" => owner[k] \in seen

\* A pending key that replaces nothing is the first key of a device.
FirstKey == \A k \in Keys : state[k] = "pending" /\ k \notin replacement => owner[k] \notin seen

\* Only a device that was seen is given sessions, and only one that exists keys.
SessionsOfSeen == creating \subseteq seen /\ unresolved \subseteq seen
OwnersExist == \A k \in Keys : owner[k] # NoDevice => authorization[owner[k]] # "none"

KeyInv ==
  /\ OnePerState /\ PairingsUnowned /\ SeenHasActive /\ ActiveIsSeen
  /\ FirstKey /\ SessionsOfSeen /\ OwnersExist

\* A handler that goes on has proved a key with an owner, and the registry holds
\* only sockets of the device that serve or are about to unregister.
ProvedOwned == \A s \in Sockets : phase[s] # "free" => state[proved[s]] # "none"
RegisteredServes ==
  \A d \in Devices : registered[d] # NoSocket =>
    /\ phase[registered[d]] \in {"serving", "leaving"}
    /\ owner[proved[registered[d]]] = d

ChannelInv == ProvedOwned /\ RegisteredServes

Inv == TypeOK /\ KeyInv /\ ChannelInv

\* The steps that leave keys, devices and sessions alone.
Tables == <<authorization, seen, keys, sessions, migrations>>

-----------------------------------------------------------------------------
(* Types.                                                                  *)

\* The type invariant is inductive: no step leaves a field outside its type, and
\* a key has an owner exactly when it has a row.
LEMMA InitTypeOK == Init => TypeOK
BY CredentialAssumption DEF Init, TypeOK, KeyStates, Phases

LEMMA EnrolmentTypeOK ==
  ASSUME TypeOK, NEW k \in Keys, Enrolment(k)
  PROVE  TypeOK'
<1> USE CredentialAssumption DEF TypeOK, KeyStates, Phases, keys, sessions, channels
<1>1. CASE Pair(k)
  BY <1>1 DEF Pair, LivePairings
<1>2. CASE DeadlinePasses(k)
  BY <1>2 DEF DeadlinePasses
<1>3. CASE ExpireKey(k)
  BY <1>3 DEF ExpireKey, Expired
<1>4. ASSUME NEW d \in Devices, ApprovePairing(d, k)
      PROVE  TypeOK'
  BY <1>4 DEF ApprovePairing
<1>5. ASSUME NEW d \in Devices, BindReplacement(d, k)
      PROVE  TypeOK'
  BY <1>5 DEF BindReplacement, Expired, Lapsed, KeysOf
<1>6. ASSUME NEW s \in Sockets, Activate(s, k)
      PROVE  TypeOK'
  BY <1>6 DEF Activate, MayActivate, Accept, KeysOf
<1>7. ASSUME NEW s \in Sockets, Reconnect(s, k)
      PROVE  TypeOK'
  BY <1>7 DEF Reconnect, Accept
<1>8. QED
  BY <1>1, <1>2, <1>3, <1>4, <1>5, <1>6, <1>7 DEF Enrolment

LEMMA DeviceStepTypeOK ==
  ASSUME TypeOK, NEW d \in Devices, DeviceStep(d)
  PROVE  TypeOK'
<1> USE CredentialAssumption DEF TypeOK, KeyStates, Phases, keys, sessions, channels
<1>1. CASE RefuseRecovery(d)
  BY <1>1 DEF RefuseRecovery, Expired, Lapsed, KeysOf
<1>2. CASE Revoke(d)
  BY <1>2 DEF Revoke
<1>3. CASE DisconnectRevoked(d)
  BY <1>3 DEF DisconnectRevoked, Closing
<1>4. CASE BeginCreate(d) \/ FinishCreate(d) \/ ResolveSession(d)
  BY <1>4 DEF BeginCreate, FinishCreate, ResolveSession
<1>5. QED
  BY <1>1, <1>2, <1>3, <1>4 DEF DeviceStep

LEMMA SocketStepTypeOK ==
  ASSUME TypeOK, NEW s \in Sockets, SocketStep(s)
  PROVE  TypeOK'
<1> USE CredentialAssumption DEF TypeOK, KeyStates, Phases, keys, sessions, channels
<1>1. CASE DisconnectReplaced(s)
  BY <1>1 DEF DisconnectReplaced, Closing
<1>2. CASE Register(s)
  BY <1>2 DEF Register
<1>3. CASE DenyHeartbeat(s) \/ LoseSocket(s)
  BY <1>3 DEF DenyHeartbeat, LoseSocket
<1>4. CASE Unregister(s)
  BY <1>4 DEF Unregister, WithoutChannel
<1>5. QED
  BY <1>1, <1>2, <1>3, <1>4 DEF SocketStep

LEMMA DowngradeTypeOK ==
  ASSUME TypeOK, NEW kept \in SUBSET Keys, DowngradeAndUpgrade(kept)
  PROVE  TypeOK'
BY CredentialAssumption
   DEF TypeOK, KeyStates, Phases, DowngradeAndUpgrade, StopControlPlane, IsKept

LEMMA NextTypeOK == TypeOK /\ [Next]_vars => TypeOK'
<1> SUFFICES ASSUME TypeOK, [Next]_vars
             PROVE  TypeOK'
  OBVIOUS
<1>1. CASE Restart
  BY <1>1 DEF TypeOK, Restart, StopControlPlane, Phases
<1>2. CASE UNCHANGED vars
  BY <1>2 DEF TypeOK, vars, keys, sessions, channels
<1>3. QED
  BY <1>1, <1>2, EnrolmentTypeOK, DeviceStepTypeOK, SocketStepTypeOK, DowngradeTypeOK DEF Next

\* Every field keeps its type, through crashes and the migration.
THEOREM TypeCorrect == Spec => []TypeOK
BY InitTypeOK, NextTypeOK, PTL DEF Spec

-----------------------------------------------------------------------------
(* The rows of the keys.                                                   *)

\* Expiring pending keys, of any devices, keeps the invariant.
LEMMA ExpiryKeepsKeys ==
  ASSUME TypeOK, KeyInv, NEW lapsed \in SUBSET Keys,
         \A k \in lapsed : state[k] = "pending",
         state' = Expired(lapsed),
         UNCHANGED <<authorization, seen, pairings, owner, replacement, sessions>>
  PROVE  KeyInv'
BY DEF TypeOK, KeyInv, OnePerState, PairingsUnowned, SeenHasActive, ActiveIsSeen,
       FirstKey, SessionsOfSeen, OwnersExist, Expired, sessions

LEMMA ApproveKeepsKeys ==
  ASSUME TypeOK, KeyInv, NEW d \in Devices, NEW k \in Keys, ApprovePairing(d, k)
  PROVE  KeyInv'
<1>1. state[k] = "none" /\ authorization[d] = "none"
  BY DEF ApprovePairing, KeyInv, PairingsUnowned, LivePairings
<1>2. \A j \in Keys : owner[j] # d
  BY <1>1, CredentialAssumption DEF KeyInv, OwnersExist
<1>3. d \notin seen
  BY <1>2 DEF KeyInv, SeenHasActive
<1> USE <1>1, <1>2, <1>3, CredentialAssumption DEF ApprovePairing, TypeOK, KeyInv, sessions
<1>4. OnePerState'
  BY DEF OnePerState
<1>5. PairingsUnowned' /\ OwnersExist'
  BY DEF PairingsUnowned, OwnersExist
<1>6. SeenHasActive' /\ ActiveIsSeen' /\ FirstKey' /\ SessionsOfSeen'
  BY DEF SeenHasActive, ActiveIsSeen, FirstKey, SessionsOfSeen
<1>7. QED
  BY <1>4, <1>5, <1>6

LEMMA BindKeepsKeys ==
  ASSUME TypeOK, KeyInv, NEW d \in Devices, NEW k \in Keys, BindReplacement(d, k)
  PROVE  KeyInv'
<1>1. state[k] = "none"
  BY DEF BindReplacement, KeyInv, PairingsUnowned, LivePairings
<1>2. \A j \in Keys : state'[j] = IF j = k THEN "pending"
                                  ELSE IF j \in Lapsed(d) THEN "expired" ELSE state[j]
  BY DEF BindReplacement, TypeOK, Expired
<1>3. \A j \in Keys : owner'[j] = IF j = k THEN d ELSE owner[j]
  BY DEF BindReplacement, TypeOK
<1>4. \A j \in Keys : owner[j] = d /\ state[j] = "pending" => j \in Lapsed(d)
  BY DEF BindReplacement, Competing, Lapsed, KeysOf
<1>5. \A j \in Lapsed(d) : state[j] = "pending" /\ owner[j] = d
  BY DEF Lapsed, KeysOf
<1>6. /\ pairings' = pairings \ {k} /\ replacement' = replacement \cup {k}
      /\ UNCHANGED <<authorization, seen, creating, unresolved>> /\ authorization[d] = "active"
  BY DEF BindReplacement, sessions
<1> USE <1>1, <1>2, <1>3, <1>4, <1>5, <1>6 DEF KeyInv
<1>7. OnePerState'
  BY DEF OnePerState
<1>8. PairingsUnowned' /\ OwnersExist'
  BY DEF PairingsUnowned, OwnersExist, TypeOK
<1>9. SeenHasActive' /\ ActiveIsSeen'
  BY DEF SeenHasActive, ActiveIsSeen
<1>10. FirstKey' /\ SessionsOfSeen'
  BY DEF FirstKey, SessionsOfSeen
<1>11. QED
  BY <1>7, <1>8, <1>9, <1>10

LEMMA ActivateKeepsKeys ==
  ASSUME TypeOK, KeyInv, NEW s \in Sockets, NEW k \in Keys, Activate(s, k)
  PROVE  KeyInv'
<1>1. /\ state[k] = "pending"
      /\ seen' = seen \cup {owner[k]}
      /\ UNCHANGED <<authorization, pairings, owner, replacement, creating, unresolved>>
  BY DEF Activate, MayActivate, sessions
<1>2. \A j \in Keys : state'[j] =
        IF j = k THEN "active"
        ELSE IF k \in replacement /\ owner[j] = owner[k] /\ state[j] = "active" THEN "replaced"
        ELSE state[j]
  BY DEF Activate, TypeOK, KeysOf
<1>3. k \notin replacement => \A j \in Keys : owner[j] = owner[k] => state[j] # "active"
  BY <1>1 DEF KeyInv, FirstKey, ActiveIsSeen
<1>4. \A j \in Keys : owner[j] = owner[k] /\ state[j] = "pending" => j = k
  BY <1>1 DEF KeyInv, OnePerState
<1>5. owner[k] \in Devices
  BY <1>1 DEF TypeOK
<1> USE <1>1, <1>2, <1>3, <1>4 DEF KeyInv
<1>6. OnePerState'
  BY DEF OnePerState
<1>7. PairingsUnowned' /\ OwnersExist' /\ SessionsOfSeen'
  BY DEF PairingsUnowned, OwnersExist, SessionsOfSeen, TypeOK
<1>8. SeenHasActive' /\ ActiveIsSeen'
  BY DEF SeenHasActive, ActiveIsSeen
<1>9. FirstKey'
  BY DEF FirstKey
<1>10. QED
  BY <1>6, <1>7, <1>8, <1>9

\* What the migration makes of the rows.
LEMMA DowngradeRows ==
  ASSUME TypeOK, KeyInv, NEW kept \in SUBSET Keys, DowngradeAndUpgrade(kept)
  PROVE  /\ \A k \in Keys : state'[k] \in {"active", "pending"} => k \in kept /\ owner'[k] = owner[k]
         /\ \A k \in kept : /\ owner[k] \in Devices
                            /\ owner[k] \in seen => state[k] = "active" /\ state'[k] = "active"
                            /\ owner[k] \notin seen => state'[k] = "pending"
         /\ \A j, k \in kept : owner[j] = owner[k] => j = k
         /\ \A d \in seen : \E k \in kept : owner[k] = d
<1>1. IsKept(kept)
  BY DEF DowngradeAndUpgrade
<1>2. \A k \in kept : owner[k] \in Devices /\ k \in Candidates(owner[k]) /\ k \in Owned(owner[k])
  BY <1>1 DEF IsKept, TypeOK, Owned
<1>3. \A d \in seen : KeysOf(d, "active") # {}
  BY DEF KeyInv, SeenHasActive, KeysOf
<1>4. \A k \in kept : owner[k] \in seen => state[k] = "active"
  BY <1>2, <1>3 DEF Candidates, KeysOf
<1>5. \A j, k \in kept : owner[j] = owner[k] => j = k
  BY <1>1, <1>2 DEF IsKept
<1>6. \A d \in seen : \E k \in kept : owner[k] = d
  <2> SUFFICES ASSUME NEW d \in seen
               PROVE  \E k \in kept : owner[k] = d
    OBVIOUS
  <2>1. d \in Devices /\ Owned(d) # {}
    BY <1>3 DEF TypeOK, KeysOf, Owned
  <2>2. PICK k \in Owned(d) : kept \cap Owned(d) = {k}
    BY <1>1, <2>1 DEF IsKept
  <2>3. QED
    BY <2>2 DEF Owned
<1>7. QED
  BY <1>2, <1>4, <1>5, <1>6 DEF DowngradeAndUpgrade, TypeOK

LEMMA DowngradeKeepsKeys ==
  ASSUME TypeOK, KeyInv, NEW kept \in SUBSET Keys, DowngradeAndUpgrade(kept)
  PROVE  KeyInv'
<1> USE DowngradeRows DEF KeyInv
<1>1. /\ UNCHANGED <<authorization, seen, pairings, unresolved>> /\ creating' = {}
      /\ \A k \in Keys : k \notin kept => state'[k] = "none" /\ owner'[k] = NoDevice
      /\ \A k \in kept : owner'[k] = owner[k]
  BY DEF DowngradeAndUpgrade, StopControlPlane, TypeOK
<1>2. OnePerState' /\ FirstKey' /\ ActiveIsSeen'
  BY <1>1 DEF OnePerState, FirstKey, ActiveIsSeen
<1>3. PairingsUnowned'
  <2>1. \A k \in pairings : k \in Keys /\ owner[k] = NoDevice
    BY DEF PairingsUnowned, TypeOK
  <2>2. \A k \in kept : owner[k] # NoDevice
    BY CredentialAssumption
  <2>3. QED
    BY <1>1, <2>1, <2>2 DEF PairingsUnowned
<1>4. SeenHasActive'
  BY <1>1 DEF SeenHasActive
<1>5. SessionsOfSeen' /\ OwnersExist'
  BY <1>1 DEF SessionsOfSeen, OwnersExist
<1>6. QED
  BY <1>2, <1>3, <1>4, <1>5

LEMMA NextKeepsKeys == TypeOK /\ KeyInv /\ [Next]_vars => KeyInv'
<1> SUFFICES ASSUME TypeOK, KeyInv, [Next]_vars
             PROVE  KeyInv'
  OBVIOUS
<1>1. ASSUME NEW k \in Keys, Pair(k) \/ DeadlinePasses(k)
      PROVE  KeyInv'
  BY <1>1 DEF Pair, DeadlinePasses, LivePairings, KeyInv, OnePerState, PairingsUnowned, SeenHasActive,
       ActiveIsSeen, FirstKey, SessionsOfSeen, OwnersExist, sessions
<1>2. ASSUME NEW k \in Keys, ExpireKey(k)
      PROVE  KeyInv'
  BY <1>2, ExpiryKeepsKeys DEF ExpireKey
<1>3. ASSUME NEW d \in Devices, RefuseRecovery(d)
      PROVE  KeyInv'
  BY <1>3, ExpiryKeepsKeys DEF RefuseRecovery, Lapsed, KeysOf
<1>4. ASSUME NEW s \in Sockets, NEW k \in Keys, Reconnect(s, k)
      PROVE  KeyInv'
  BY <1>4 DEF Reconnect, TypeOK, KeyInv, OnePerState, PairingsUnowned, SeenHasActive,
       ActiveIsSeen, FirstKey, SessionsOfSeen, OwnersExist, keys, sessions
<1>5. ASSUME NEW d \in Devices,
             Revoke(d) \/ BeginCreate(d) \/ FinishCreate(d) \/ ResolveSession(d)
      PROVE  KeyInv'
  BY <1>5 DEF Revoke, BeginCreate, FinishCreate, ResolveSession, TypeOK, KeyInv, OnePerState,
       PairingsUnowned, SeenHasActive, ActiveIsSeen, FirstKey, SessionsOfSeen, OwnersExist, keys, sessions
<1>6. CASE Restart
  BY <1>6 DEF Restart, StopControlPlane, KeyInv, OnePerState, PairingsUnowned, SeenHasActive,
       ActiveIsSeen, FirstKey, SessionsOfSeen, OwnersExist
<1>7. ASSUME UNCHANGED Tables
      PROVE  KeyInv'
  BY <1>7 DEF Tables, KeyInv, OnePerState, PairingsUnowned, SeenHasActive,
       ActiveIsSeen, FirstKey, SessionsOfSeen, OwnersExist, keys, sessions
<1>8. ASSUME NEW d \in Devices, DisconnectRevoked(d)
      PROVE  KeyInv'
  BY <1>7, <1>8 DEF DisconnectRevoked, Tables
<1>9. ASSUME NEW s \in Sockets, SocketStep(s)
      PROVE  KeyInv'
  BY <1>7, <1>9 DEF SocketStep, DisconnectReplaced, Register, DenyHeartbeat, LoseSocket, Unregister, Tables
<1>10. CASE UNCHANGED vars
  BY <1>7, <1>10 DEF vars, Tables
<1>11. QED
  BY <1>1, <1>2, <1>3, <1>4, <1>5, <1>6, <1>8, <1>9, <1>10, ApproveKeepsKeys, BindKeepsKeys,
     ActivateKeepsKeys, DowngradeKeepsKeys DEF Next, Enrolment, DeviceStep

-----------------------------------------------------------------------------
(* The sockets and the registry.                                           *)

\* Keys with an owner keep it, unless the migration drops the row; none of the
\* steps of a running control plane gives a key back.
OwnersKept == \A k \in Keys : state[k] # "none" => state'[k] # "none" /\ owner'[k] = owner[k]

LEMMA KeysKeepOwners ==
  ASSUME TypeOK, KeyInv, [Next]_vars
  PROVE  OwnersKept \/ \E kept \in SUBSET Keys : DowngradeAndUpgrade(kept)
<1>1. ASSUME NEW k \in Keys, Enrolment(k)
      PROVE  OwnersKept
  <2> USE DEF TypeOK, KeyStates, OwnersKept, keys
  <2>1. CASE Pair(k) \/ DeadlinePasses(k)
    BY <2>1 DEF Pair, DeadlinePasses
  <2>2. CASE ExpireKey(k)
    BY <2>2 DEF ExpireKey, Expired
  <2>3. ASSUME NEW d \in Devices, ApprovePairing(d, k)
        PROVE  OwnersKept
    BY <2>3 DEF ApprovePairing, KeyInv, PairingsUnowned, LivePairings
  <2>4. ASSUME NEW d \in Devices, BindReplacement(d, k)
        PROVE  OwnersKept
    BY <2>4 DEF BindReplacement, KeyInv, PairingsUnowned, LivePairings, Expired
  <2>5. ASSUME NEW s \in Sockets, Activate(s, k) \/ Reconnect(s, k)
        PROVE  OwnersKept
    BY <2>5 DEF Activate, Reconnect
  <2>6. QED
    BY <1>1, <2>1, <2>2, <2>3, <2>4, <2>5 DEF Enrolment
<1>2. ASSUME NEW d \in Devices, DeviceStep(d)
      PROVE  OwnersKept
  BY <1>2 DEF DeviceStep, RefuseRecovery, Revoke, DisconnectRevoked, BeginCreate, FinishCreate,
       ResolveSession, Expired, TypeOK, OwnersKept, keys
<1>3. ASSUME NEW s \in Sockets, SocketStep(s)
      PROVE  OwnersKept
  BY <1>3 DEF SocketStep, DisconnectReplaced, Register, DenyHeartbeat, LoseSocket, Unregister,
       OwnersKept, keys
<1>4. CASE Restart \/ UNCHANGED vars
  BY <1>4 DEF Restart, OwnersKept, vars, keys
<1>5. QED
  BY <1>1, <1>2, <1>3, <1>4 DEF Next

\* A stop of the control plane frees every socket.
LEMMA StopKeepsChannels ==
  ASSUME StopControlPlane
  PROVE  ChannelInv'
BY DEF StopControlPlane, ChannelInv, ProvedOwned, RegisteredServes

LEMMA NextKeepsChannels ==
  ASSUME TypeOK, KeyInv, ChannelInv, [Next]_vars
  PROVE  ChannelInv'
<1>1. CASE Restart \/ \E kept \in SUBSET Keys : DowngradeAndUpgrade(kept)
  BY <1>1, StopKeepsChannels DEF Restart, DowngradeAndUpgrade
<1>2. ASSUME OwnersKept, UNCHANGED <<phase, proved, registered>>
      PROVE  ChannelInv'
  BY <1>2, CredentialAssumption DEF TypeOK, OwnersKept, ChannelInv, ProvedOwned, RegisteredServes
<1>3. ASSUME OwnersKept, NEW s \in Sockets, NEW k \in Keys, Activate(s, k) \/ Reconnect(s, k)
      PROVE  ChannelInv'
  <2>1. PICK next \in {"replacing", "accepted"} : Accept(s, k, next)
    BY <1>3 DEF Activate, Reconnect
  <2>2. state[k] # "none" /\ state'[k] # "none"
    BY <1>3 DEF Activate, MayActivate, Reconnect, OwnersKept
  <2>3. \A t \in Sockets : t # s => phase'[t] = phase[t] /\ proved'[t] = proved[t]
    BY <2>1 DEF Accept, TypeOK
  <2>4. proved'[s] = k /\ phase'[s] = next /\ phase[s] = "free" /\ registered' = registered
    BY <2>1 DEF Accept, TypeOK
  <2>5. ProvedOwned'
    BY <1>3, <2>2, <2>3, <2>4 DEF ChannelInv, ProvedOwned, OwnersKept, TypeOK
  <2>6. RegisteredServes'
    <3> SUFFICES ASSUME NEW d \in Devices, registered'[d] # NoSocket
                 PROVE  /\ phase'[registered'[d]] \in {"serving", "leaving"}
                        /\ owner'[proved'[registered'[d]]] = d
      BY DEF RegisteredServes
    <3>1. registered[d] \in Sockets /\ registered[d] # s
      BY <2>4 DEF ChannelInv, RegisteredServes, TypeOK
    <3>2. state[proved[registered[d]]] # "none" /\ proved[registered[d]] \in Keys
      BY <3>1, <2>4 DEF ChannelInv, ProvedOwned, RegisteredServes, TypeOK
    <3>3. QED
      BY <1>3, <2>3, <2>4, <3>1, <3>2 DEF ChannelInv, RegisteredServes, OwnersKept
  <2>7. QED
    BY <2>5, <2>6 DEF ChannelInv
<1>4. ASSUME NEW d \in Devices, DisconnectRevoked(d)
      PROVE  ChannelInv'
  BY <1>4, CredentialAssumption
     DEF DisconnectRevoked, Closing, keys, TypeOK, ChannelInv, ProvedOwned, RegisteredServes
<1>5. ASSUME NEW s \in Sockets, DisconnectReplaced(s)
      PROVE  ChannelInv'
  BY <1>5, CredentialAssumption
     DEF DisconnectReplaced, DeviceOf, Closing, keys, TypeOK, ChannelInv, ProvedOwned, RegisteredServes
<1>6. ASSUME NEW s \in Sockets, Register(s)
      PROVE  ChannelInv'
  BY <1>6, CredentialAssumption
     DEF Register, DeviceOf, keys, TypeOK, ChannelInv, ProvedOwned, RegisteredServes
<1>7. ASSUME NEW s \in Sockets, DenyHeartbeat(s) \/ LoseSocket(s)
      PROVE  ChannelInv'
  BY <1>7, CredentialAssumption
     DEF DenyHeartbeat, LoseSocket, keys, TypeOK, ChannelInv, ProvedOwned, RegisteredServes
<1>8. ASSUME NEW s \in Sockets, Unregister(s)
      PROVE  ChannelInv'
  BY <1>8, CredentialAssumption
     DEF Unregister, WithoutChannel, DeviceOf, keys, TypeOK, ChannelInv, ProvedOwned, RegisteredServes
<1>9. ASSUME OwnersKept, NEW k \in Keys, Enrolment(k)
      PROVE  ChannelInv'
  BY <1>2, <1>3, <1>9 DEF Enrolment, Pair, DeadlinePasses, ExpireKey, ApprovePairing, BindReplacement, channels
<1>10. ASSUME OwnersKept, NEW d \in Devices, DeviceStep(d)
      PROVE  ChannelInv'
  BY <1>2, <1>4, <1>10 DEF DeviceStep, RefuseRecovery, Revoke, BeginCreate, FinishCreate, ResolveSession, channels
<1>11. CASE UNCHANGED vars
  BY <1>11 DEF vars, keys, channels, ChannelInv, ProvedOwned, RegisteredServes
<1>12. QED
  BY <1>1, <1>5, <1>6, <1>7, <1>8, <1>9, <1>10, <1>11, KeysKeepOwners DEF Next, SocketStep

\* The invariant holds of every reachable state.
LEMMA Invariance == Spec => []Inv
<1>1. Init => KeyInv
  BY DEF Init, KeyInv, OnePerState, PairingsUnowned, SeenHasActive, ActiveIsSeen,
         FirstKey, SessionsOfSeen, OwnersExist
<1>2. Init => ChannelInv
  BY DEF Init, ChannelInv, ProvedOwned, RegisteredServes
<1>3. Inv /\ [Next]_vars => Inv'
  BY NextTypeOK, NextKeepsKeys, NextKeepsChannels DEF Inv
<1>4. Init => Inv
  BY <1>1, <1>2, InitTypeOK DEF Inv
<1>5. QED
  BY <1>3, <1>4, PTL DEF Spec

-----------------------------------------------------------------------------
(* The theorems.                                                           *)

\* No step of enrolment, recovery, activation or migration violates the unique
\* indexes on active and pending keys.
THEOREM KeysUnique == Spec => []KeysStayUnique
<1>1. Inv => KeysStayUnique
  BY DEF Inv, KeyInv, OnePerState, PairingsUnowned, KeysStayUnique
<1>2. QED
  BY <1>1, Invariance, PTL

\* The steps that change the active keys of a device.
ActiveKept == \A d \in Devices : KeysOf(d, "active")' = KeysOf(d, "active")

\* A migration keeps the active key of every device that has one.
LEMMA DowngradeKeepsActive ==
  ASSUME Inv, NEW kept \in SUBSET Keys, DowngradeAndUpgrade(kept),
         NEW d \in Devices, KeysOf(d, "active") # {}
  PROVE  KeysOf(d, "active")' = KeysOf(d, "active")
<1>1. d \in seen
  BY DEF Inv, KeyInv, ActiveIsSeen, KeysOf
<1>2. PICK k \in kept : owner[k] = d
  BY <1>1, DowngradeRows DEF Inv
<1>3. k \in KeysOf(d, "active")
  BY <1>1, <1>2, DowngradeRows DEF Inv, KeysOf
<1>4. \A j \in KeysOf(d, "active") : j = k
  BY <1>3 DEF Inv, KeyInv, OnePerState, KeysOf
<1>5. state'[k] = "active" /\ owner'[k] = d
  BY <1>1, <1>2, DowngradeRows DEF Inv
<1>6. \A j \in Keys : owner'[j] = d /\ state'[j] = "active" => j = k
  BY <1>2, DowngradeRows DEF Inv
<1>7. QED
  BY <1>3, <1>4, <1>5, <1>6 DEF KeysOf

\* Every other step but an activation leaves the active keys as they are.
LEMMA ActiveChanges ==
  ASSUME Inv, [Next]_vars
  PROVE  \/ ActiveKept
         \/ \E s \in Sockets, k \in Keys : Activate(s, k)
         \/ \E kept \in SUBSET Keys : DowngradeAndUpgrade(kept)
<1> USE DEF ActiveKept, KeysOf, Inv
<1>1. ASSUME NEW lapsed \in SUBSET Keys, \A k \in lapsed : state[k] = "pending",
             state' = Expired(lapsed), owner' = owner
      PROVE  ActiveKept
  BY <1>1 DEF Expired, TypeOK
<1>2. ASSUME NEW k \in Keys, Enrolment(k), ~\E s \in Sockets : Activate(s, k)
      PROVE  ActiveKept
  <2>1. CASE Pair(k) \/ DeadlinePasses(k)
    BY <2>1 DEF Pair, DeadlinePasses
  <2>2. CASE ExpireKey(k)
    BY <1>1, <2>2 DEF ExpireKey
  <2>3. ASSUME NEW d \in Devices, ApprovePairing(d, k)
        PROVE  ActiveKept
    BY <2>3 DEF ApprovePairing, KeyInv, PairingsUnowned, LivePairings, TypeOK
  <2>4. ASSUME NEW d \in Devices, BindReplacement(d, k)
        PROVE  ActiveKept
    BY <2>4 DEF BindReplacement, KeyInv, PairingsUnowned, LivePairings, Lapsed, Expired, TypeOK
  <2>5. ASSUME NEW s \in Sockets, Reconnect(s, k)
        PROVE  ActiveKept
    BY <2>5 DEF Reconnect, keys
  <2>6. QED
    BY <1>2, <2>1, <2>2, <2>3, <2>4, <2>5 DEF Enrolment
<1>3. ASSUME NEW d \in Devices, RefuseRecovery(d)
      PROVE  ActiveKept
  BY <1>1, <1>3 DEF RefuseRecovery, Lapsed
<1>4. ASSUME NEW d \in Devices, DeviceStep(d), ~RefuseRecovery(d)
      PROVE  ActiveKept
  BY <1>4 DEF DeviceStep, Revoke, DisconnectRevoked, BeginCreate, FinishCreate, ResolveSession, keys
<1>5. ASSUME NEW s \in Sockets, SocketStep(s)
      PROVE  ActiveKept
  BY <1>5 DEF SocketStep, DisconnectReplaced, Register, DenyHeartbeat, LoseSocket, Unregister, keys
<1>6. CASE Restart \/ UNCHANGED vars
  BY <1>6 DEF Restart, vars, keys
<1>7. QED
  BY <1>2, <1>3, <1>4, <1>5, <1>6 DEF Next

\* What an activation does to the active keys of a device.
LEMMA ActivationReplaces ==
  ASSUME Inv, NEW s \in Sockets, NEW k \in Keys, Activate(s, k),
         NEW d \in Devices, KeysOf(d, "active") # {}, KeysOf(d, "active")' # KeysOf(d, "active")
  PROVE  k \in KeysOf(d, "pending") \cap replacement /\ KeysOf(d, "active")' = {k}
<1>1. /\ state[k] = "pending" /\ owner' = owner
      /\ \A j \in Keys : state'[j] =
           IF j = k THEN "active"
           ELSE IF k \in replacement /\ owner[j] = owner[k] /\ state[j] = "active" THEN "replaced"
           ELSE state[j]
  BY DEF Activate, MayActivate, Inv, TypeOK, KeysOf
<1>2. owner[k] = d
  BY <1>1 DEF KeysOf
<1>3. k \in replacement
  BY <1>1, <1>2 DEF Inv, KeyInv, FirstKey, ActiveIsSeen, KeysOf
<1>4. QED
  BY <1>1, <1>2, <1>3 DEF KeysOf

\* The active key of a device changes by a recovery that is proved in time, and
\* by nothing else.
THEOREM KeyChangesOnlyByRecovery == Spec => KeyChangesByRecovery
<1>1. ASSUME Inv, [Next]_vars, NEW d \in Devices,
             KeysOf(d, "active") # {}, KeysOf(d, "active")' # KeysOf(d, "active")
      PROVE  \E k \in KeysOf(d, "pending") \cap replacement :
               k \notin overdue /\ authorization[d] = "active" /\ KeysOf(d, "active")' = {k}
  <2>1. PICK s \in Sockets, k \in Keys : Activate(s, k)
    BY <1>1, ActiveChanges, DowngradeKeepsActive DEF ActiveKept
  <2>2. k \in KeysOf(d, "pending") \cap replacement /\ KeysOf(d, "active")' = {k}
    BY <1>1, <2>1, ActivationReplaces
  <2>3. k \notin overdue /\ authorization[d] = "active"
    BY <2>1, <2>2 DEF Activate, MayActivate, KeysOf
  <2>4. QED
    BY <2>2, <2>3
<1>2. Inv /\ [Next]_vars =>
        [\A d \in Devices : KeysOf(d, "active") # {} /\ KeysOf(d, "active")' # KeysOf(d, "active") =>
           \E k \in KeysOf(d, "pending") \cap replacement :
             k \notin overdue /\ authorization[d] = "active" /\ KeysOf(d, "active")' = {k}]_vars
  BY <1>1
<1>3. QED
  BY <1>2, Invariance, PTL DEF Spec, KeyChangesByRecovery

\* Under an unresolved session the active key of the device stays, although the
\* creation of a session and a recovery may overlap.
THEOREM KeyStaysUnderSession == Spec => KeyOfSessionStays
<1>1. ASSUME Inv, [Next]_vars, NEW d \in unresolved
      PROVE  KeysOf(d, "active")' = KeysOf(d, "active")
  <2>1. d \in Devices /\ KeysOf(d, "active") # {}
    BY <1>1 DEF Inv, TypeOK, KeyInv, SessionsOfSeen, SeenHasActive, KeysOf
  <2>2. ASSUME NEW s \in Sockets, NEW k \in Keys, Activate(s, k)
        PROVE  KeysOf(d, "active")' = KeysOf(d, "active")
    <3>1. k \in replacement => owner[k] # d
      BY <1>1, <2>2 DEF Activate, MayActivate
    <3>2. QED
      BY <1>1, <2>1, <2>2, <3>1, ActivationReplaces DEF KeysOf
  <2>3. QED
    BY <1>1, <2>1, <2>2, ActiveChanges, DowngradeKeepsActive DEF ActiveKept
<1>2. Inv /\ [Next]_vars =>
        [\A d \in unresolved : KeysOf(d, "active")' = KeysOf(d, "active")]_vars
  BY <1>1
<1>3. QED
  BY <1>2, Invariance, PTL DEF Spec, KeyOfSessionStays

-----------------------------------------------------------------------------
(* Keys that ended, and newer channels.                                    *)

\* A key that was replaced or has expired is not brought back by any later code,
\* retry or proof: the ways to a new state start at a pairing, which no key with
\* an owner has, or at a pending key.
THEOREM EndedKeysEnd == Spec => EndedKeysStayEnded
<1>1. ASSUME Inv, [Next]_vars, NEW k \in Keys,
             state[k] \in {"replaced", "expired"}, migrations' = migrations
      PROVE  state'[k] = state[k]
  <2> USE <1>1 DEF Inv, TypeOK
  <2>1. k \notin pairings
    BY DEF KeyInv, PairingsUnowned
  <2>2. ASSUME NEW j \in Keys, Enrolment(j)
        PROVE  state'[k] = state[k]
    <3>1. CASE Pair(j) \/ DeadlinePasses(j) \/ ExpireKey(j)
      BY <3>1 DEF Pair, DeadlinePasses, ExpireKey, Expired
    <3>2. ASSUME NEW d \in Devices, ApprovePairing(d, j) \/ BindReplacement(d, j)
          PROVE  state'[k] = state[k]
      BY <3>2, <2>1 DEF ApprovePairing, BindReplacement, LivePairings, Expired, Lapsed, KeysOf
    <3>3. ASSUME NEW s \in Sockets, Activate(s, j) \/ Reconnect(s, j)
          PROVE  state'[k] = state[k]
      BY <3>3 DEF Activate, MayActivate, Reconnect, KeysOf, keys
    <3>4. QED
      BY <2>2, <3>1, <3>2, <3>3 DEF Enrolment
  <2>3. ASSUME NEW d \in Devices, DeviceStep(d)
        PROVE  state'[k] = state[k]
    BY <2>3 DEF DeviceStep, RefuseRecovery, Revoke, DisconnectRevoked, BeginCreate,
       FinishCreate, ResolveSession, Expired, Lapsed, KeysOf, keys
  <2>4. ASSUME NEW s \in Sockets, SocketStep(s)
        PROVE  state'[k] = state[k]
    BY <2>4 DEF SocketStep, DisconnectReplaced, Register, DenyHeartbeat, LoseSocket,
       Unregister, keys
  <2>5. CASE Restart
    BY <2>5 DEF Restart
  <2>6. ASSUME NEW kept \in SUBSET Keys
        PROVE  ~DowngradeAndUpgrade(kept)
    BY CredentialAssumption DEF DowngradeAndUpgrade
  <2>7. CASE UNCHANGED vars
    BY <2>7 DEF vars, keys
  <2>8. QED
    BY <2>2, <2>3, <2>4, <2>5, <2>6, <2>7 DEF Next
<1>2. Inv /\ [Next]_vars =>
        [\A k \in Keys : state[k] \in {"replaced", "expired"} /\ migrations' = migrations =>
           state'[k] = state[k]]_vars
  BY <1>1
<1>3. QED
  BY <1>2, Invariance, PTL DEF Spec, EndedKeysStayEnded

\* A registry entry is removed only together with the socket it names: by the
\* disconnect that closes it, by its own end, or by the end of the process.
THEOREM NewerChannelKept == Spec => NewerChannelStays
<1>1. ASSUME Inv, [Next]_vars, NEW d \in Devices,
             registered[d] # NoSocket, registered'[d] = NoSocket
      PROVE  phase'[registered[d]] \in {"leaving", "free"}
  <2> USE <1>1, CredentialAssumption DEF Inv, TypeOK
  <2>1. /\ registered[d] \in Sockets
        /\ owner[proved[registered[d]]] = d
    BY DEF ChannelInv, RegisteredServes
  <2>2. ASSUME NEW k \in Keys
        PROVE  ~Enrolment(k)
    BY DEF Enrolment, Pair, DeadlinePasses, ExpireKey, ApprovePairing, BindReplacement,
       Activate, Reconnect, Accept, channels
  <2>3. ASSUME NEW e \in Devices, DeviceStep(e)
        PROVE  phase'[registered[d]] \in {"leaving", "free"}
    BY <2>1, <2>3 DEF DeviceStep, RefuseRecovery, Revoke, DisconnectRevoked, Closing,
       BeginCreate, FinishCreate, ResolveSession, channels
  <2>4. ASSUME NEW s \in Sockets, SocketStep(s)
        PROVE  phase'[registered[d]] \in {"leaving", "free"}
    <3>1. CASE DisconnectReplaced(s)
      BY <2>1, <3>1 DEF DisconnectReplaced, Closing, DeviceOf, ChannelInv, RegisteredServes
    <3>2. CASE Unregister(s)
      BY <2>1, <3>2 DEF Unregister, WithoutChannel, DeviceOf
    <3>3. CASE Register(s) \/ DenyHeartbeat(s) \/ LoseSocket(s)
      BY <3>3 DEF Register, DenyHeartbeat, LoseSocket
    <3>4. QED
      BY <2>4, <3>1, <3>2, <3>3 DEF SocketStep
  <2>5. CASE StopControlPlane
    BY <2>1, <2>5 DEF StopControlPlane
  <2>6. ~UNCHANGED vars
    BY DEF vars, channels
  <2>7. QED
    BY <2>2, <2>3, <2>4, <2>5, <2>6 DEF Next, Restart, DowngradeAndUpgrade
<1>2. Inv /\ [Next]_vars =>
        [\A d \in Devices : registered[d] # NoSocket /\ registered'[d] = NoSocket =>
           phase'[registered[d]] \in {"leaving", "free"}]_vars
  BY <1>1
<1>3. QED
  BY <1>2, Invariance, PTL DEF Spec, NewerChannelStays
=============================================================================
