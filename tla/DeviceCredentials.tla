------------------------- MODULE DeviceCredentials -------------------------
(***************************************************************************)
(* The keys of devices: pairing, approval, technician recovery, activation *)
(* by proof of possession, revocation and a schema downgrade (database.py, *)
(* migrations 0006 and 0007), against sessions that are being created, and *)
(* the registry of the sockets that such a proof opened (app.py,           *)
(* connections.py).                                                        *)
(*                                                                         *)
(* A pairing code stands for the key it was issued to.  A transaction that *)
(* takes advisory lock 4004 first is one step; the creation of a session   *)
(* is two, because its only query reads under a snapshot that may be older *)
(* than the row lock it then waits for (READ COMMITTED).                   *)
(***************************************************************************)
EXTENDS Naturals, FiniteSets

CONSTANTS
  Devices, Keys, Sockets,
  NoDevice, NoSocket,
  MaxPairings,      \* 1000 in authenticate_device
  MaxMigrations     \* downgrades checked

ASSUME CredentialAssumption ==
  /\ NoDevice \notin Devices
  /\ NoSocket \notin Sockets
  /\ MaxPairings \in Nat
  /\ MaxMigrations \in Nat

VARIABLES
  authorization,  \* devices.authorization_status, "none" before the row exists
  seen,           \* devices whose last_seen is set
  pairings,       \* keys with a pairing code
  owner,          \* device_credentials.device_id
  state,          \* device_credentials.state, "none" before the row exists
  replacement,    \* keys with replaces_credential_id
  overdue,        \* keys whose expires_at or activate_before has passed
  creating,       \* create_starting_session between its snapshot and its lock
  unresolved,     \* devices with a session in UNRESOLVED_SESSION_STATES
  disconnecting,  \* revoke_device before it disconnects the channel
  phase,          \* of the handler of each socket, endpoint_agent
  proved,         \* the key whose possession the socket has proved
  registered,     \* endpoint_agents._channels
  migrations      \* downgrades so far

keys == <<pairings, owner, state, replacement, overdue>>
sessions == <<creating, unresolved>>
channels == <<disconnecting, phase, proved, registered>>
vars == <<authorization, seen, keys, sessions, channels, migrations>>

KeyStates == {"none", "pending", "active", "replaced", "expired"}
Phases == {"free", "replacing", "accepted", "serving", "leaving"}

KeysOf(d, status) == {k \in Keys : owner[k] = d /\ state[k] = status}
LivePairings == pairings \ overdue

-----------------------------------------------------------------------------
(* Pairing, approval and recovery.                                         *)

\* authenticate_device for a key without credential.
Pair(k) ==
  /\ state[k] = "none"
  /\ pairings' = IF Cardinality(LivePairings) < MaxPairings
                   THEN LivePairings \cup {k} ELSE LivePairings
  /\ overdue' = overdue \ pairings
  /\ UNCHANGED <<authorization, seen, owner, state, replacement, sessions, channels, migrations>>

DeadlinePasses(k) ==
  /\ k \in pairings \/ state[k] = "pending"
  /\ overdue' = overdue \cup {k}
  /\ UNCHANGED <<authorization, seen, pairings, owner, state, replacement>>
  /\ UNCHANGED <<sessions, channels, migrations>>

ApprovePairing(d, k) ==
  /\ authorization[d] = "none"
  /\ k \in LivePairings
  /\ authorization' = [authorization EXCEPT ![d] = "active"]
  /\ pairings' = pairings \ {k}
  /\ owner' = [owner EXCEPT ![k] = d]
  /\ state' = [state EXCEPT ![k] = "pending"]
  /\ UNCHANGED <<seen, replacement, overdue, sessions, channels, migrations>>

\* recover_device first expires the overdue pending keys of the device.
Lapsed(d) == KeysOf(d, "pending") \cap overdue
Expired_Forgotten(lapsed) == [k \in Keys |-> IF k \in lapsed THEN "none" ELSE state[k]] \* mutant
Expired(lapsed) == [k \in Keys |-> IF k \in lapsed THEN "expired" ELSE state[k]]

Competing_None(d) == {} \* mutant
Competing(d) == KeysOf(d, "pending") \ overdue

\* It then binds the key of the code, if the device is idle and no key competes.
BindReplacement(d, k) ==
  /\ authorization[d] = "active" /\ d \notin unresolved /\ Competing(d) = {}
  /\ k \in LivePairings
  /\ pairings' = pairings \ {k}
  /\ owner' = [owner EXCEPT ![k] = d]
  /\ state' = [Expired(Lapsed(d)) EXCEPT ![k] = "pending"]
  /\ replacement' = replacement \cup {k}
  /\ overdue' = overdue \ Lapsed(d)
  /\ UNCHANGED <<authorization, seen, sessions, channels, migrations>>

\* A refused recovery (busy, competing, wrong code) or a retry keeps the expiry.
RefuseRecovery(d) ==
  /\ authorization[d] = "active" /\ Lapsed(d) # {}
  /\ state' = Expired(Lapsed(d))
  /\ overdue' = overdue \ Lapsed(d)
  /\ UNCHANGED <<authorization, seen, pairings, owner, replacement, sessions, channels, migrations>>

-----------------------------------------------------------------------------
(* authenticate_device for a key with a credential, on a socket.           *)

Accept(s, k, next) ==
  /\ phase[s] = "free"
  /\ phase' = [phase EXCEPT ![s] = next]
  /\ proved' = [proved EXCEPT ![s] = k]
  /\ UNCHANGED <<disconnecting, registered>>

\* A proof of a pending key after its deadline; the answer is "denied".
ExpireKey(k) ==
  /\ state[k] = "pending" /\ k \in overdue /\ authorization[owner[k]] = "active"
  /\ state' = Expired({k})
  /\ overdue' = overdue \ {k}
  /\ UNCHANGED <<authorization, seen, pairings, owner, replacement, sessions, channels, migrations>>

MayActivate_Expired(k) == \* mutant
  /\ state[k] \in {"pending", "expired"} /\ authorization[owner[k]] = "active"
  /\ k \in replacement => owner[k] \notin unresolved
MayActivate_UnderSession(k) == \* mutant
  state[k] = "pending" /\ k \notin overdue /\ authorization[owner[k]] = "active"
MayActivate(k) ==
  /\ state[k] = "pending" /\ k \notin overdue
  /\ authorization[owner[k]] = "active"
  /\ k \in replacement => owner[k] \notin unresolved

\* The first proof of a pending key; a replacement ends the key before it.
Activate(s, k) ==
  /\ MayActivate(k)
  /\ state' = [j \in Keys |->
       IF j = k THEN "active"
       ELSE IF k \in replacement /\ j \in KeysOf(owner[k], "active") THEN "replaced"
       ELSE state[j]]
  /\ seen' = seen \cup {owner[k]}
  /\ Accept(s, k, IF k \in replacement THEN "replacing" ELSE "accepted")
  /\ UNCHANGED <<authorization, pairings, owner, replacement, overdue, sessions, migrations>>

Reconnect(s, k) ==
  /\ state[k] = "active" /\ authorization[owner[k]] = "active"
  /\ seen' = seen \cup {owner[k]}
  /\ Accept(s, k, "accepted")
  /\ UNCHANGED <<authorization, keys, sessions, migrations>>

-----------------------------------------------------------------------------
(* Revocation and sessions.                                                *)

\* revoke_device; a repeated request disconnects again.
Revoke(d) ==
  /\ authorization[d] # "none"
  /\ authorization' = [authorization EXCEPT ![d] = "revoked"]
  /\ disconnecting' = disconnecting \cup {d}
  /\ UNCHANGED <<seen, keys, sessions, phase, proved, registered, migrations>>

\* create_starting_session: the conditions, as of the snapshot of its query.
BeginCreate(d) ==
  /\ authorization[d] = "active" /\ d \in seen
  /\ KeysOf(d, "pending") \cap replacement = {}
  /\ creating' = creating \cup {d}
  /\ UNCHANGED <<authorization, seen, keys, unresolved, channels, migrations>>

\* With the lock, only conditions on the row itself are evaluated again.
FinishCreate(d) ==
  /\ d \in creating
  /\ creating' = creating \ {d}
  /\ unresolved' = IF authorization[d] = "active" THEN unresolved \cup {d} ELSE unresolved
  /\ UNCHANGED <<authorization, seen, keys, channels, migrations>>

\* The session ends in one of the ways of Investigation.
ResolveSession(d) ==
  /\ d \in unresolved
  /\ unresolved' = unresolved \ {d}
  /\ UNCHANGED <<authorization, seen, keys, creating, channels, migrations>>

-----------------------------------------------------------------------------
(* The registry and the handlers of the sockets.                           *)

DeviceOf(s) == owner[proved[s]]

\* EndpointAgentRegistry.disconnect: the closed socket ends its handler.
Closing(d, s) == IF s = registered[d] THEN "leaving" ELSE phase[s]

DisconnectRevoked(d) ==
  /\ d \in disconnecting
  /\ disconnecting' = disconnecting \ {d}
  /\ phase' = [s \in Sockets |-> Closing(d, s)]
  /\ registered' = [registered EXCEPT ![d] = NoSocket]
  /\ UNCHANGED <<authorization, seen, keys, sessions, proved, migrations>>

DisconnectReplaced(s) ==
  /\ phase[s] = "replacing"
  /\ phase' = [t \in Sockets |-> IF t = s THEN "accepted" ELSE Closing(DeviceOf(s), t)]
  /\ registered' = [registered EXCEPT ![DeviceOf(s)] = NoSocket]
  /\ UNCHANGED <<authorization, seen, keys, sessions, disconnecting, proved, migrations>>

\* The channel registered before is neither closed nor told.
Register(s) ==
  /\ phase[s] = "accepted"
  /\ phase' = [phase EXCEPT ![s] = "serving"]
  /\ registered' = [registered EXCEPT ![DeviceOf(s)] = s]
  /\ UNCHANGED <<authorization, seen, keys, sessions, disconnecting, proved, migrations>>

MayServe_OtherKey(s) == authorization[DeviceOf(s)] = "active" \* mutant
MayServe(s) == authorization[DeviceOf(s)] = "active" /\ state[proved[s]] = "active"

\* record_heartbeat finds no row; an accepted heartbeat changes nothing here.
DenyHeartbeat(s) ==
  /\ phase[s] = "serving" /\ ~MayServe(s)
  /\ phase' = [phase EXCEPT ![s] = "leaving"]
  /\ UNCHANGED <<authorization, seen, keys, sessions>>
  /\ UNCHANGED <<disconnecting, proved, registered, migrations>>

\* The peer goes away or sends what is not accepted.
LoseSocket(s) ==
  /\ phase[s] \in {"accepted", "serving"}
  /\ phase' = [phase EXCEPT ![s] = IF @ = "serving" THEN "leaving" ELSE "free"]
  /\ UNCHANGED <<authorization, seen, keys, sessions>>
  /\ UNCHANGED <<disconnecting, proved, registered, migrations>>

WithoutChannel_Any(s) == [registered EXCEPT ![DeviceOf(s)] = NoSocket] \* mutant
WithoutChannel(s) ==
  [registered EXCEPT ![DeviceOf(s)] = IF @ = s THEN NoSocket ELSE @]

Unregister(s) ==
  /\ phase[s] = "leaving"
  /\ phase' = [phase EXCEPT ![s] = "free"]
  /\ registered' = WithoutChannel(s)
  /\ UNCHANGED <<authorization, seen, keys, sessions, disconnecting, proved, migrations>>

-----------------------------------------------------------------------------
(* Stopping the control plane; the downgrade below 0006 and back.          *)

StopControlPlane ==
  /\ creating' = {} /\ disconnecting' = {}
  /\ phase' = [s \in Sockets |-> "free"]
  /\ registered' = [d \in Devices |-> NoSocket]
  /\ UNCHANGED <<authorization, seen, pairings, unresolved, proved>>

Restart ==
  /\ StopControlPlane
  /\ UNCHANGED <<owner, state, replacement, overdue, migrations>>

\* The downgrade keeps one key of a device: the active, else the pending one,
\* else the latest, left open here.
Owned(d) == {k \in Keys : owner[k] = d}
Candidates_Latest(d) == Owned(d) \* mutant
Candidates(d) ==
  IF KeysOf(d, "active") # {} THEN KeysOf(d, "active")
  ELSE IF KeysOf(d, "pending") # {} THEN KeysOf(d, "pending") ELSE Owned(d)

IsKept(kept) ==
  /\ \A k \in kept : owner[k] # NoDevice /\ k \in Candidates(owner[k])
  /\ \A d \in Devices : Owned(d) # {} => \E k \in Owned(d) : kept \cap Owned(d) = {k}

\* The upgrade takes the key of a device that was ever seen for active.
DowngradeAndUpgrade(kept) ==
  /\ migrations < MaxMigrations /\ migrations' = migrations + 1
  /\ IsKept(kept)
  /\ StopControlPlane
  /\ owner' = [k \in Keys |-> IF k \in kept THEN owner[k] ELSE NoDevice]
  /\ state' = [k \in Keys |->
       IF k \notin kept THEN "none" ELSE IF owner[k] \in seen THEN "active" ELSE "pending"]
  /\ replacement' = {}
  /\ overdue' = (pairings \cap overdue) \cup
       {k \in kept : owner[k] \notin seen /\ (k \in overdue \/ state[k] = "expired")}

-----------------------------------------------------------------------------

Init ==
  /\ authorization = [d \in Devices |-> "none"] /\ seen = {}
  /\ pairings = {} /\ overdue = {} /\ replacement = {}
  /\ owner = [k \in Keys |-> NoDevice]
  /\ state = [k \in Keys |-> "none"]
  /\ creating = {} /\ unresolved = {} /\ disconnecting = {}
  /\ phase = [s \in Sockets |-> "free"]
  /\ proved \in [Sockets -> Keys]
  /\ registered = [d \in Devices |-> NoSocket]
  /\ migrations = 0

Enrolment(k) ==
  \/ Pair(k) \/ DeadlinePasses(k) \/ ExpireKey(k)
  \/ \E d \in Devices : ApprovePairing(d, k) \/ BindReplacement(d, k)
  \/ \E s \in Sockets : Activate(s, k) \/ Reconnect(s, k)

DeviceStep(d) ==
  \/ RefuseRecovery(d) \/ Revoke(d) \/ DisconnectRevoked(d)
  \/ BeginCreate(d) \/ FinishCreate(d) \/ ResolveSession(d)

SocketStep(s) ==
  \/ DisconnectReplaced(s) \/ Register(s) \/ DenyHeartbeat(s)
  \/ LoseSocket(s) \/ Unregister(s)

Next ==
  \/ \E k \in Keys : Enrolment(k)
  \/ \E d \in Devices : DeviceStep(d)
  \/ \E s \in Sockets : SocketStep(s)
  \/ Restart
  \/ \E kept \in SUBSET Keys : DowngradeAndUpgrade(kept)

Spec == Init /\ [][Next]_vars

\* An endpoint sends heartbeats or its connection ends; handlers finish.
Fairness ==
  \A s \in Sockets : WF_vars(DenyHeartbeat(s)) /\ WF_vars(Unregister(s))

FairSpec == Spec /\ Fairness

-----------------------------------------------------------------------------
(* Properties.                                                             *)

\* Every variable keeps its type; a key has an owner exactly when it has a row.
TypeOK ==
  /\ authorization \in [Devices -> {"none", "active", "revoked"}]
  /\ seen \subseteq Devices
  /\ pairings \subseteq Keys /\ overdue \subseteq Keys /\ replacement \subseteq Keys
  /\ owner \in [Keys -> Devices \cup {NoDevice}]
  /\ state \in [Keys -> KeyStates]
  /\ \A k \in Keys : owner[k] = NoDevice <=> state[k] = "none"
  /\ creating \subseteq Devices /\ unresolved \subseteq Devices
  /\ disconnecting \subseteq Devices
  /\ phase \in [Sockets -> Phases]
  /\ proved \in [Sockets -> Keys]
  /\ registered \in [Devices -> Sockets \cup {NoSocket}]
  /\ migrations \in 0 .. MaxMigrations

\* approve_pairing, recover_device, authenticate_device and the migration never
\* run into the unique indexes one_active and one_pending (database.py:80-83),
\* nor pair a key that already belongs to a device.
KeysStayUnique ==
  /\ \A j, k \in Keys :
       state[j] \in {"active", "pending"} /\ state[k] = state[j] /\ owner[k] = owner[j] => j = k
  /\ \A k \in pairings : state[k] = "none"

\* The active key of a device changes only when a technician's replacement is
\* proved in time: not by a first key, a late one, a revocation or a migration.
KeyChangesByRecovery ==
  [][\A d \in Devices : KeysOf(d, "active") # {} /\ KeysOf(d, "active")' # KeysOf(d, "active") =>
       \E k \in KeysOf(d, "pending") \cap replacement :
         k \notin overdue /\ authorization[d] = "active" /\ KeysOf(d, "active")' = {k}]_vars

\* The key of a device does not change under a session that is not resolved,
\* also when recovery and the creation of the session overlap
\* (authenticate_device checks again what recover_device checked).
KeyOfSessionStays ==
  [][\A d \in unresolved : KeysOf(d, "active")' = KeysOf(d, "active")]_vars

\* A replaced or expired key never works again (migrations apart), whatever
\* codes, retries and proofs follow.
EndedKeysStayEnded ==
  [][\A k \in Keys : state[k] \in {"replaced", "expired"} /\ migrations' = migrations =>
       state'[k] = state[k]]_vars

\* The registry forgets a channel only when that channel itself is over: a late
\* end of an older socket of the device does not cut off the newer one.
NewerChannelStays ==
  [][\A d \in Devices : registered[d] # NoSocket /\ registered'[d] = NoSocket =>
       phase'[registered[d]] \in {"leaving", "free"}]_vars

\* A channel that serves a revoked device or a key that was replaced, even one
\* that registered after the disconnect, does not stay the device's channel.
StaleChannelLeaves ==
  \A d \in Devices, s \in Sockets :
    registered[d] = s /\ (authorization[d] = "revoked" \/ state[proved[s]] # "active")
      ~> registered[d] # s
=============================================================================
