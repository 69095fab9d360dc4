--------------------------- MODULE ManagerProofs ---------------------------
(***************************************************************************)
(* The manager's counters are exact, a bootstrap makes one session, and    *)
(* shutdown leaves nothing behind: for any number of addresses, profiles,  *)
(* bootstraps, sessions and backends, and any limits.                      *)
(*                                                                         *)
(* The invariant has four parts, one for each group of variables; each is  *)
(* proved against the steps that touch its variables.                      *)
(***************************************************************************)
EXTENDS Manager, FiniteSetTheorems, SequenceTheorems, TLAPS

-----------------------------------------------------------------------------
(* A count c of the elements of T[k], for each key k.                      *)
Counts(K, c, T) ==
  /\ c \in [K -> Nat]
  /\ \A k \in K : IsFiniteSet(T[k]) /\ c[k] = Cardinality(T[k])

(* An element is added under one key.                                      *)
LEMMA CountsAdd ==
  ASSUME NEW K, NEW c, NEW T, NEW U, Counts(K, c, T),
         NEW key \in K, NEW x, x \notin T[key],
         \A k \in K : U[k] = IF k = key THEN T[k] \cup {x} ELSE T[k]
  PROVE  Counts(K, [c EXCEPT ![key] = @ + 1], U)
<1>1. IsFiniteSet(T[key] \cup {x}) /\ Cardinality(T[key] \cup {x}) = Cardinality(T[key]) + 1
  BY FS_AddElement DEF Counts
<1> DEFINE d == [c EXCEPT ![key] = @ + 1]
<1>2. c \in [K -> Nat] /\ c[key] = Cardinality(T[key])
  BY DEF Counts
<1>3. d \in [K -> Nat]
  BY <1>2
<1>4. ASSUME NEW k \in K PROVE IsFiniteSet(U[k]) /\ d[k] = Cardinality(U[k])
  <2>1. CASE k = key
    BY <1>1, <1>2, <2>1
  <2>2. CASE k # key
    BY <1>2, <2>2 DEF Counts
  <2> QED BY <2>1, <2>2
<1> HIDE DEF d
<1>5. Counts(K, d, U)
  BY <1>3, <1>4 DEF Counts
<1> QED BY <1>5 DEF d

(* An element is removed under one key.                                    *)
LEMMA CountsRemove ==
  ASSUME NEW K, NEW c, NEW T, NEW U, Counts(K, c, T),
         NEW key \in K, NEW x, x \in T[key],
         \A k \in K : U[k] = IF k = key THEN T[k] \ {x} ELSE T[k]
  PROVE  Counts(K, [c EXCEPT ![key] = @ - 1], U)
<1>1. IsFiniteSet(T[key]) /\ IsFiniteSet(T[key] \ {x})
      /\ Cardinality(T[key] \ {x}) = Cardinality(T[key]) - 1
  BY FS_RemoveElement DEF Counts
<1> DEFINE d == [c EXCEPT ![key] = @ - 1]
<1>2. c \in [K -> Nat] /\ c[key] = Cardinality(T[key])
  BY DEF Counts
<1>3. Cardinality(T[key] \ {x}) \in Nat
  BY <1>1, FS_CardinalityType
<1>4. d \in [K -> Nat]
  BY <1>1, <1>2, <1>3
<1>5. ASSUME NEW k \in K PROVE IsFiniteSet(U[k]) /\ d[k] = Cardinality(U[k])
  <2>1. CASE k = key
    BY <1>1, <1>2, <2>1
  <2>2. CASE k # key
    BY <1>2, <2>2 DEF Counts
  <2> QED BY <2>1, <2>2
<1> HIDE DEF d
<1>6. Counts(K, d, U)
  BY <1>4, <1>5 DEF Counts
<1> QED BY <1>6 DEF d

(* Under every key a set is removed.                                       *)
LEMMA CountsCut ==
  ASSUME NEW K, NEW c, NEW T, NEW D, NEW U, Counts(K, c, T),
         \A k \in K : D[k] \subseteq T[k] /\ U[k] = T[k] \ D[k]
  PROVE  Counts(K, [k \in K |-> c[k] - Cardinality(D[k])], U)
<1> DEFINE d == [k \in K |-> c[k] - Cardinality(D[k])]
<1>1. ASSUME NEW k \in K
      PROVE  IsFiniteSet(U[k]) /\ d[k] \in Nat /\ d[k] = Cardinality(U[k])
  <2>1. IsFiniteSet(T[k]) /\ c[k] = Cardinality(T[k])
    BY DEF Counts
  <2>2. T[k] \cap D[k] = D[k] /\ U[k] = T[k] \ D[k]
    OBVIOUS
  <2>3. IsFiniteSet(U[k]) /\ Cardinality(U[k]) = Cardinality(T[k]) - Cardinality(D[k])
    <3>1. IsFiniteSet(T[k] \ D[k])
          /\ Cardinality(T[k] \ D[k]) = Cardinality(T[k]) - Cardinality(T[k] \cap D[k])
      BY <2>1, FS_Difference, Zenon
    <3> QED BY <2>2, <3>1, Zenon
  <2>4. Cardinality(U[k]) \in Nat
    BY <2>3, FS_CardinalityType
  <2> QED BY <2>1, <2>3, <2>4
<1>2. d \in [K -> Nat]
  BY <1>1
<1> HIDE DEF d
<1>3. Counts(K, d, U)
  BY <1>1, <1>2 DEF Counts
<1> QED BY <1>3 DEF d

(* Nothing changes under any key.                                          *)
LEMMA CountsSame ==
  ASSUME NEW K, NEW c, NEW T, NEW U, Counts(K, c, T), \A k \in K : U[k] = T[k]
  PROVE  Counts(K, c, U)
BY DEF Counts

-----------------------------------------------------------------------------
(* The registry.                                                           *)
ByAddress == [ip \in IPs |-> {s \in sessions : info[s].ip = ip}]

ByProfile == [p \in Profiles |-> {s \in sessions : info[s].profile = p}]

RegistryInv ==
  /\ RegistryType
  /\ Counts(IPs, sessionsPerIP, ByAddress)
  /\ Counts(Profiles, sessionsPerProfile, ByProfile)
  /\ NoLostPlace
  /\ open \cap finishing = {}

(* Forgetting tokens leaves a list of tokens that is no longer.            *)
LEMMA TokensType ==
  ASSUME closedTokens \in Seq(SessionIds), Len(closedTokens) <= MaxClosedTokens,
         ForgetTokens
  PROVE  closedTokens' \in Seq(SessionIds) /\ Len(closedTokens') <= MaxClosedTokens
<1>1. PICK k \in 1 .. Len(closedTokens) + 1 :
        closedTokens' = SubSeq(closedTokens, k, Len(closedTokens))
  BY DEF ForgetTokens
<1>2. Len(closedTokens) \in Nat
  OBVIOUS
<1>3. /\ SubSeq(closedTokens, k, Len(closedTokens)) \in Seq(SessionIds)
      /\ Len(SubSeq(closedTokens, k, Len(closedTokens))) <= Len(closedTokens)
  BY <1>2
<1> QED
  BY <1>1, <1>2, <1>3, ManagerAssumption DEF ManagerAssumption

(* A new session is counted under its address and its profile.             *)
LEMMA CreateRegistry ==
  ASSUME RegistryInv, BootstrapType, NEW b \in BootIds, NEW ip \in IPs, Create(b, ip)
  PROVE  RegistryInv'
<1> DEFINE s == created + 1  p == bootstraps[b].profile
           new == [ip |-> ip, profile |-> p, bootstrap |-> b]
<1>1. s \in SessionIds /\ s \notin sessions /\ p \in Profiles /\ created \in 0 .. MaxCreated
      /\ s \notin finishing /\ s \in 1 .. s
  <2>1. created \in 0 .. MaxCreated /\ created < MaxCreated /\ MaxCreated \in Nat
    BY ManagerAssumption DEF RegistryInv, RegistryType, Create, ManagerAssumption
  <2>2. sessions \subseteq 1 .. created /\ finishing \subseteq sessions
    BY DEF RegistryInv, RegistryType
  <2>3. p \in Profiles
    BY DEF BootstrapType, Bootstrap
  <2> QED BY <2>1, <2>2, <2>3 DEF SessionIds
<1>2. info' = [info EXCEPT ![s] = new] /\ sessions' = sessions \cup {s}
      /\ open' = open \cup {s} /\ created' = s
      /\ finishing' = finishing /\ closedTokens' = closedTokens
  BY DEF Create
<1>3. sessions \subseteq SessionIds /\ info \in [SessionIds -> Info]
  <2>1. sessions \subseteq 1 .. created /\ info \in [SessionIds -> Info] /\ MaxCreated \in Nat
    BY ManagerAssumption DEF RegistryInv, RegistryType, ManagerAssumption
  <2> QED BY <1>1, <2>1 DEF SessionIds
<1>4. new \in Info
  BY <1>1 DEF Info
<1>5. info' \in [SessionIds -> Info]
  BY <1>2, <1>3, <1>4
<1>6. info'[s] = new /\ \A r \in sessions : info'[r] = info[r]
  BY <1>1, <1>2, <1>3
<1> HIDE DEF s, new
<1>7. new.ip = ip /\ new.profile = p
  BY DEF new
<1>8. Counts(IPs, sessionsPerIP', ByAddress')
  <2>1. \A k \in IPs : ByAddress'[k] = IF k = ip THEN ByAddress[k] \cup {s} ELSE ByAddress[k]
    BY <1>2, <1>6, <1>7 DEF ByAddress
  <2>2. s \notin ByAddress[ip]
    BY <1>1 DEF ByAddress
  <2>3. Counts(IPs, [sessionsPerIP EXCEPT ![ip] = @ + 1], ByAddress')
    BY <2>1, <2>2, CountsAdd, Zenon DEF RegistryInv
  <2> QED BY <2>3 DEF Create
<1>9. Counts(Profiles, sessionsPerProfile', ByProfile')
  <2>1. \A k \in Profiles : ByProfile'[k] = IF k = p THEN ByProfile[k] \cup {s} ELSE ByProfile[k]
    BY <1>2, <1>6, <1>7 DEF ByProfile
  <2>2. s \notin ByProfile[p]
    BY <1>1 DEF ByProfile
  <2>3. ASSUME NEW k \in Profiles, k = p
        PROVE  Counts(Profiles, [sessionsPerProfile EXCEPT ![k] = @ + 1], ByProfile')
    <3>1. Counts(Profiles, sessionsPerProfile, ByProfile)
      BY DEF RegistryInv
    <3>2. \A j \in Profiles : ByProfile'[j] = IF j = k THEN ByProfile[j] \cup {s} ELSE ByProfile[j]
      BY <2>1, <2>3
    <3>3. s \notin ByProfile[k]
      BY <2>2, <2>3
    <3> QED BY <3>1, <3>2, <3>3, CountsAdd, Zenon
  <2> QED BY <1>1, <2>3 DEF Create
<1>10. sessions' \subseteq 1 .. created' /\ created' \in 0 .. MaxCreated
  BY <1>1, <1>2 DEF RegistryInv, RegistryType, s, SessionIds
<1> QED
  BY <1>1, <1>2, <1>5, <1>8, <1>9, <1>10
  DEF RegistryInv, RegistryType, NoLostPlace, Counts

(* Its place, its address and its profile are given back at its end.       *)
LEMMA FinishedRegistry ==
  ASSUME RegistryInv, NEW s \in SessionIds, SessionFinished(s)
  PROVE  RegistryInv'
<1>1. s \in sessions /\ s \notin open /\ info[s].ip \in IPs /\ info[s].profile \in Profiles
  BY DEF RegistryInv, RegistryType, SessionFinished, Info
<1>2. sessions' = sessions \ {s} /\ open' = open /\ finishing' = finishing \ {s}
      /\ info' = info /\ created' = created /\ closedTokens' = Remembered(s)
  BY DEF SessionFinished
<1>3. Counts(IPs, sessionsPerIP', ByAddress')
  <2>1. \A k \in IPs : ByAddress'[k] = IF k = info[s].ip THEN ByAddress[k] \ {s} ELSE ByAddress[k]
    BY <1>1, <1>2 DEF ByAddress
  <2>2. s \in ByAddress[info[s].ip]
    BY <1>1 DEF ByAddress
  <2>3. ASSUME NEW k \in IPs, k = info[s].ip
        PROVE  Counts(IPs, [sessionsPerIP EXCEPT ![k] = @ - 1], ByAddress')
    <3>1. Counts(IPs, sessionsPerIP, ByAddress)
      BY DEF RegistryInv
    <3>2. \A j \in IPs : ByAddress'[j] = IF j = k THEN ByAddress[j] \ {s} ELSE ByAddress[j]
      BY <2>1, <2>3
    <3>3. s \in ByAddress[k]
      BY <2>2, <2>3
    <3> QED BY <3>1, <3>2, <3>3, CountsRemove, Zenon
  <2> QED BY <1>1, <2>3 DEF SessionFinished
<1>4. Counts(Profiles, sessionsPerProfile', ByProfile')
  <2>1. \A k \in Profiles : ByProfile'[k] = IF k = info[s].profile THEN ByProfile[k] \ {s}
                                                                ELSE ByProfile[k]
    BY <1>1, <1>2 DEF ByProfile
  <2>2. s \in ByProfile[info[s].profile]
    BY <1>1 DEF ByProfile
  <2>3. ASSUME NEW k \in Profiles, k = info[s].profile
        PROVE  Counts(Profiles, [sessionsPerProfile EXCEPT ![k] = @ - 1], ByProfile')
    <3>1. Counts(Profiles, sessionsPerProfile, ByProfile)
      BY DEF RegistryInv
    <3>2. \A j \in Profiles : ByProfile'[j] = IF j = k THEN ByProfile[j] \ {s} ELSE ByProfile[j]
      BY <2>1, <2>3
    <3>3. s \in ByProfile[k]
      BY <2>2, <2>3
    <3> QED BY <3>1, <3>2, <3>3, CountsRemove, Zenon
  <2> QED BY <1>1, <2>3 DEF SessionFinished
<1>5. closedTokens' \in Seq(SessionIds) /\ Len(closedTokens') <= MaxClosedTokens
  <2>1. closedTokens \in Seq(SessionIds) /\ Len(closedTokens) <= MaxClosedTokens
        /\ MaxClosedTokens \in Nat \ {0} /\ Len(closedTokens) \in Nat
    BY ManagerAssumption DEF RegistryInv, RegistryType, ManagerAssumption
  <2>2. CASE Len(closedTokens) >= MaxClosedTokens
    <3>1. closedTokens # <<>>
      BY <2>1, <2>2
    <3>2. Tail(closedTokens) \in Seq(SessionIds)
          /\ Len(Tail(closedTokens)) = Len(closedTokens) - 1
      BY <2>1, <3>1
    <3>3. closedTokens' = Append(Tail(closedTokens), s)
      BY <1>2, <2>2 DEF Remembered
    <3> QED BY <2>1, <2>2, <3>2, <3>3
  <2>3. CASE ~ (Len(closedTokens) >= MaxClosedTokens)
    <3>1. closedTokens' = Append(closedTokens, s)
      BY <1>2, <2>3 DEF Remembered
    <3> QED BY <2>1, <2>3, <3>1
  <2> QED BY <2>2, <2>3
<1> QED
  BY <1>1, <1>2, <1>3, <1>4, <1>5 DEF RegistryInv, RegistryType, NoLostPlace, Counts

(* A session that closes keeps its place until its end is reported.        *)
LEMMA CloseRegistry ==
  ASSUME RegistryInv, NEW s, Close(s), UNCHANGED registry
  PROVE  RegistryInv'
<1>1. Counts(IPs, sessionsPerIP', ByAddress') /\ Counts(Profiles, sessionsPerProfile', ByProfile')
  BY DEF RegistryInv, registry, ByAddress, ByProfile
<1> QED
  BY <1>1 DEF RegistryInv, RegistryType, NoLostPlace, registry, Close

(* Nothing but the remembered tokens changes.                              *)
LEMMA RegistryKept ==
  ASSUME RegistryInv,
         UNCHANGED <<created, sessions, info, sessionsPerIP, sessionsPerProfile, open,
                     finishing>>,
         ForgetTokens \/ UNCHANGED closedTokens
  PROVE  RegistryInv'
<1>1. Counts(IPs, sessionsPerIP', ByAddress') /\ Counts(Profiles, sessionsPerProfile', ByProfile')
  BY DEF RegistryInv, ByAddress, ByProfile
<1>2. closedTokens' \in Seq(SessionIds) /\ Len(closedTokens') <= MaxClosedTokens
  BY TokensType DEF RegistryInv, RegistryType
<1> QED
  BY <1>1, <1>2 DEF RegistryInv, RegistryType, NoLostPlace

(* Every step keeps the registry and its counters.                         *)
LEMMA RegistryStep ==
  ASSUME RegistryInv, BootstrapType, [Next]_vars
  PROVE  RegistryInv'
<1>1. CASE BootstrapStep
  <2>1. UNCHANGED <<created, sessions, info, sessionsPerIP, sessionsPerProfile, open, finishing>>
        /\ (ForgetTokens \/ UNCHANGED closedTokens)
    BY <1>1 DEF BootstrapStep, TimePasses, BootstrapRefused, IssueBootstrap, registry
  <2> QED BY <2>1, RegistryKept, Zenon
<1>2. CASE CreateStep
  <2>1. PICK b \in BootIds : CreateAgain(b) \/ \E ip \in IPs : Create(b, ip)
    BY <1>2 DEF CreateStep
  <2>2. CASE CreateAgain(b)
    <3>1. UNCHANGED <<created, sessions, info, sessionsPerIP, sessionsPerProfile, open,
                      finishing>> /\ UNCHANGED closedTokens
      BY <2>2 DEF CreateAgain, registry
    <3> QED BY <3>1, RegistryKept, Zenon
  <2>3. CASE \E ip \in IPs : Create(b, ip)
    BY <2>3, CreateRegistry, Zenon
  <2> QED BY <2>1, <2>2, <2>3, Zenon
<1>3. CASE SessionStep
  <2>1. PICK s \in SessionIds : \/ SessionCloses(s) \/ SessionFinished(s)
                               \/ FallsSilent(s) \/ Touch(s) \/ ClientLeaves(s)
    BY <1>3 DEF SessionStep
  <2>2. CASE SessionCloses(s)
    BY <2>2, CloseRegistry, Zenon DEF SessionCloses
  <2>3. CASE SessionFinished(s)
    BY <2>3, FinishedRegistry, Zenon
  <2>4. CASE FallsSilent(s) \/ Touch(s) \/ ClientLeaves(s)
    <3>1. UNCHANGED <<created, sessions, info, sessionsPerIP, sessionsPerProfile, open,
                      finishing>> /\ UNCHANGED closedTokens
      BY <2>4 DEF FallsSilent, Touch, ClientLeaves, registry
    <3> QED BY <3>1, RegistryKept, Zenon
  <2> QED BY <2>1, <2>2, <2>3, <2>4, Zenon
<1>4. CASE StreamStep
  <2>1. UNCHANGED <<created, sessions, info, sessionsPerIP, sessionsPerProfile, open, finishing>>
        /\ UNCHANGED closedTokens
    BY <1>4 DEF StreamStep, OpenStream, BackendDialFinished, StreamFinished, BackendDone, registry
  <2> QED BY <2>1, RegistryKept, Zenon
<1>5. CASE Cleaner
  <2>1. CASE CleanerCloses
    BY <2>1, CloseRegistry, Zenon DEF CleanerCloses
  <2>2. CASE CleanerTicks \/ CleanerStops \/ \E s \in SessionIds : CleanerChecks(s)
    <3>1. UNCHANGED <<created, sessions, info, sessionsPerIP, sessionsPerProfile, open,
                      finishing>> /\ (ForgetTokens \/ UNCHANGED closedTokens)
      BY <2>2 DEF CleanerTicks, CleanerStops, CleanerChecks, registry
    <3> QED BY <3>1, RegistryKept, Zenon
  <2> QED BY <1>5, <2>1, <2>2, Zenon DEF Cleaner
<1>6. CASE Shutdown
  <2>1. CASE \E s \in SessionIds : ShutdownCloses(s)
    BY <2>1, CloseRegistry, Zenon DEF ShutdownCloses
  <2>2. CASE ShutdownStarts \/ ShutdownClosed \/ ShutdownReturns
             \/ \E s \in SessionIds : ShutdownWaits(s)
    <3>1. UNCHANGED <<created, sessions, info, sessionsPerIP, sessionsPerProfile, open,
                      finishing>> /\ UNCHANGED closedTokens
      BY <2>2 DEF ShutdownStarts, ShutdownClosed, ShutdownReturns, ShutdownWaits, registry
    <3> QED BY <3>1, RegistryKept, Zenon
  <2> QED BY <1>6, <2>1, <2>2, Zenon DEF Shutdown
<1>7. CASE UNCHANGED vars
  <2>1. UNCHANGED <<created, sessions, info, sessionsPerIP, sessionsPerProfile, open, finishing>>
        /\ UNCHANGED closedTokens
    BY <1>7 DEF vars, registry
  <2> QED BY <2>1, RegistryKept, Zenon
<1> QED
  BY <1>1, <1>2, <1>3, <1>4, <1>5, <1>6, <1>7, Zenon DEF Next

-----------------------------------------------------------------------------
(* Backends.                                                               *)
LiveBy == [p \in Profiles |-> {x \in Live : ProfileOf(x) = p}]

DialingBy == [p \in Profiles |-> {x \in Dialing : ProfileOf(x) = p}]

StreamInv ==
  /\ StreamType
  /\ Counts(Profiles, streamsPerProfile, LiveBy)
  /\ Counts(Profiles, dialsPerProfile, DialingBy)
  /\ streamsLive = Cardinality(Live) /\ backendDialsInFlight = Cardinality(Dialing)
  /\ \A x \in Backends : backends[x].stage # "none" => backends[x].session \in 1 .. created

(* Sessions that are made or end leave the backends' counters alone.       *)
LEMMA StreamKept ==
  ASSUME StreamInv, UNCHANGED streamVars, created \in Nat, created' \in Nat,
         created <= created', \A s \in 1 .. created : info'[s] = info[s]
  PROVE  StreamInv'
<1>1. backends' = backends /\ streamsPerProfile' = streamsPerProfile
      /\ dialsPerProfile' = dialsPerProfile /\ streamsLive' = streamsLive
      /\ backendDialsInFlight' = backendDialsInFlight
  BY DEF streamVars
<1>2. Live' = Live /\ Dialing' = Dialing
  BY <1>1 DEF Live, Dialing
<1>3. \A x \in Live : ProfileOf(x)' = ProfileOf(x)
  BY <1>1 DEF Live, ProfileOf, StreamInv
<1>4. Dialing \subseteq Live
  BY DEF Live, Dialing
<1>5. \A p \in Profiles : LiveBy'[p] = LiveBy[p] /\ DialingBy'[p] = DialingBy[p]
  BY <1>2, <1>3, <1>4 DEF LiveBy, DialingBy
<1>6. Counts(Profiles, streamsPerProfile', LiveBy') /\ Counts(Profiles, dialsPerProfile', DialingBy')
  BY <1>1, <1>5, CountsSame, Zenon DEF StreamInv
<1>7. \A x \in Backends : backends'[x].stage # "none" => backends'[x].session \in 1 .. created'
  BY <1>1 DEF StreamInv
<1> QED
  BY <1>1, <1>2, <1>6, <1>7 DEF StreamInv, StreamType

(* The sets that are counted are finite, as Backends is.                   *)
LEMMA BackendsFinite ==
  IsFiniteSet(Live) /\ IsFiniteSet(Dialing)
<1>1. IsFiniteSet(Backends) /\ Live \subseteq Backends /\ Dialing \subseteq Backends
  BY ManagerAssumption DEF ManagerAssumption, Live, Dialing
<1> QED BY <1>1, FS_Subset

(* What the steps of a backend have in common: x alone changes, and no     *)
(* session does.                                                           *)
LEMMA OtherBackends ==
  ASSUME StreamInv, RegistryInv, NEW x \in Backends, NEW entry \in Backend,
         backends' = [backends EXCEPT ![x] = entry], UNCHANGED registry,
         entry.stage # "none" => entry.session \in 1 .. created
  PROVE  /\ backends' \in [Backends -> Backend] /\ backends'[x] = entry
         /\ \A y \in Backends : y # x => backends'[y] = backends[y] /\ ProfileOf(y)' = ProfileOf(y)
         /\ \A y \in Backends : backends'[y].stage # "none" => backends'[y].session \in 1 .. created'
<1>1. backends \in [Backends -> Backend] /\ info' = info /\ created' = created
  BY DEF StreamInv, StreamType, registry
<1>2. backends' \in [Backends -> Backend] /\ backends'[x] = entry
      /\ \A y \in Backends : y # x => backends'[y] = backends[y]
  BY <1>1, Zenon
<1>3. \A y \in Backends : y # x => ProfileOf(y)' = ProfileOf(y)
  BY <1>1, <1>2 DEF ProfileOf
<1>4. \A y \in Backends : backends'[y].stage # "none" => backends'[y].session \in 1 .. created'
  <2>1. \A y \in Backends : backends[y].stage # "none" => backends[y].session \in 1 .. created
    BY DEF StreamInv
  <2> QED BY <1>1, <1>2, <2>1, Zenon
<1> QED BY <1>2, <1>3, <1>4

(* A stream's profile is one of the profiles.                              *)
LEMMA ProfileKnown ==
  ASSUME RegistryInv, NEW s \in 1 .. created
  PROVE  s \in SessionIds /\ info[s].profile \in Profiles
<1>1. created \in 0 .. MaxCreated /\ info \in [SessionIds -> Info] /\ MaxCreated \in Nat
  BY ManagerAssumption DEF RegistryInv, RegistryType, ManagerAssumption
<1>2. s \in SessionIds
  BY <1>1 DEF SessionIds
<1> QED BY <1>1, <1>2 DEF Info

(* A stream that opens is counted, and so is its dial.                     *)
LEMMA OpenStreams ==
  ASSUME StreamInv, RegistryInv, NEW x \in Backends, NEW s \in SessionIds, OpenStream(x, s)
  PROVE  StreamInv'
<1> DEFINE p == info[s].profile  entry == [stage |-> "dialing", session |-> s]
<1>1. s \in 1 .. created /\ p \in Profiles /\ s \in 0 .. MaxCreated /\ info' = info
  <2>1. s \in 1 .. created
    BY DEF RegistryInv, RegistryType, OpenStream
  <2> QED BY <2>1, ProfileKnown, ManagerAssumption DEF SessionIds, OpenStream, registry,
                                                      ManagerAssumption
<1>2. backends' = [backends EXCEPT ![x] = entry] /\ UNCHANGED registry
      /\ backends[x].stage = "none" /\ streamsLive' = streamsLive + 1
      /\ backendDialsInFlight' = backendDialsInFlight + 1
      /\ streamsPerProfile' = [streamsPerProfile EXCEPT ![p] = @ + 1]
      /\ dialsPerProfile' = [dialsPerProfile EXCEPT ![p] = @ + 1]
  BY DEF OpenStream
<1>3. entry \in Backend /\ entry.stage = "dialing" /\ entry.session = s
  BY <1>1 DEF Backend
<1> HIDE DEF entry
<1>4. /\ backends' \in [Backends -> Backend] /\ backends'[x] = entry
      /\ \A y \in Backends : y # x => backends'[y] = backends[y] /\ ProfileOf(y)' = ProfileOf(y)
      /\ \A y \in Backends : backends'[y].stage # "none" => backends'[y].session \in 1 .. created'
  BY <1>1, <1>2, <1>3, OtherBackends, Zenon
<1>5. ProfileOf(x)' = p
  BY <1>1, <1>3, <1>4 DEF ProfileOf
<1>6. /\ Live' = Live \cup {x} /\ x \notin Live
      /\ Dialing' = Dialing \cup {x} /\ x \notin Dialing /\ Dialing \subseteq Live
      /\ Live \subseteq Backends
  BY <1>2, <1>3, <1>4 DEF Live, Dialing
<1>7. streamsLive' = Cardinality(Live') /\ backendDialsInFlight' = Cardinality(Dialing')
  BY <1>2, <1>6, BackendsFinite, FS_AddElement DEF StreamInv
<1>8. ASSUME NEW k \in Profiles, k = p
      PROVE  Counts(Profiles, [streamsPerProfile EXCEPT ![k] = @ + 1], LiveBy')
  <2>1. \A j \in Profiles : LiveBy'[j] = IF j = k THEN LiveBy[j] \cup {x} ELSE LiveBy[j]
    BY <1>4, <1>5, <1>6, <1>8 DEF LiveBy
  <2>2. x \notin LiveBy[k]
    BY <1>6 DEF LiveBy
  <2>3. Counts(Profiles, streamsPerProfile, LiveBy)
    BY DEF StreamInv
  <2> QED BY <2>1, <2>2, <2>3, CountsAdd, Zenon
<1>9. ASSUME NEW k \in Profiles, k = p
      PROVE  Counts(Profiles, [dialsPerProfile EXCEPT ![k] = @ + 1], DialingBy')
  <2>1. \A j \in Profiles : DialingBy'[j] = IF j = k THEN DialingBy[j] \cup {x} ELSE DialingBy[j]
    BY <1>4, <1>5, <1>6, <1>9 DEF DialingBy
  <2>2. x \notin DialingBy[k]
    BY <1>6 DEF DialingBy
  <2>3. Counts(Profiles, dialsPerProfile, DialingBy)
    BY DEF StreamInv
  <2> QED BY <2>1, <2>2, <2>3, CountsAdd, Zenon
<1>10. Counts(Profiles, streamsPerProfile', LiveBy') /\ Counts(Profiles, dialsPerProfile', DialingBy')
  BY <1>1, <1>2, <1>8, <1>9
<1>11. streamsLive' \in Nat /\ backendDialsInFlight' \in Nat
  BY <1>2 DEF StreamInv, StreamType
<1> QED
  BY <1>4, <1>7, <1>10, <1>11 DEF StreamInv, StreamType, Counts

(* A dial that ends is no longer counted; its stream still is.             *)
LEMMA DialFinished ==
  ASSUME StreamInv, RegistryInv, NEW x \in Backends, BackendDialFinished(x)
  PROVE  StreamInv'
<1> DEFINE p == ProfileOf(x)  entry == [backends[x] EXCEPT !.stage = "running"]
<1>1. backends[x] \in Backend /\ backends[x].session \in 1 .. created
      /\ backends[x].stage = "dialing"
  BY DEF StreamInv, StreamType, BackendDialFinished
<1>2. p \in Profiles
  BY <1>1, ProfileKnown DEF ProfileOf
<1>3. backends' = [backends EXCEPT ![x] = entry] /\ UNCHANGED registry
      /\ streamsLive' = streamsLive /\ streamsPerProfile' = streamsPerProfile
      /\ backendDialsInFlight' = backendDialsInFlight - 1
      /\ dialsPerProfile' = [dialsPerProfile EXCEPT ![p] = @ - 1]
  BY DEF BackendDialFinished
<1>4. entry \in Backend /\ entry.stage = "running" /\ entry.session = backends[x].session
  BY <1>1 DEF Backend
<1> HIDE DEF entry
<1>5. /\ backends' \in [Backends -> Backend] /\ backends'[x] = entry
      /\ \A y \in Backends : y # x => backends'[y] = backends[y] /\ ProfileOf(y)' = ProfileOf(y)
      /\ \A y \in Backends : backends'[y].stage # "none" => backends'[y].session \in 1 .. created'
  BY <1>1, <1>3, <1>4, OtherBackends, Zenon
<1>6. ProfileOf(x)' = p
  BY <1>3, <1>4, <1>5 DEF ProfileOf, registry
<1>7. /\ Live' = Live /\ Dialing' = Dialing \ {x} /\ x \in Dialing /\ Dialing \subseteq Live
      /\ Live \subseteq Backends
  BY <1>1, <1>4, <1>5 DEF Live, Dialing
<1>8. streamsLive' = Cardinality(Live') /\ backendDialsInFlight' = Cardinality(Dialing')
      /\ backendDialsInFlight' \in Nat
  <2>1. IsFiniteSet(Dialing \ {x}) /\ Cardinality(Dialing \ {x}) = Cardinality(Dialing) - 1
    BY <1>7, BackendsFinite, FS_RemoveElement
  <2>2. Cardinality(Dialing \ {x}) \in Nat
    BY <2>1, FS_CardinalityType
  <2> QED BY <1>3, <1>7, <2>1, <2>2 DEF StreamInv
<1>9. Counts(Profiles, streamsPerProfile', LiveBy')
  <2>1. \A j \in Profiles : LiveBy'[j] = LiveBy[j]
    BY <1>5, <1>6, <1>7 DEF LiveBy
  <2> QED BY <1>3, <2>1, CountsSame, Zenon DEF StreamInv
<1>10. ASSUME NEW k \in Profiles, k = p
       PROVE  Counts(Profiles, [dialsPerProfile EXCEPT ![k] = @ - 1], DialingBy')
  <2>1. \A j \in Profiles : DialingBy'[j] = IF j = k THEN DialingBy[j] \ {x} ELSE DialingBy[j]
    BY <1>5, <1>7, <1>10 DEF DialingBy
  <2>2. x \in DialingBy[k]
    BY <1>7, <1>10 DEF DialingBy
  <2>3. Counts(Profiles, dialsPerProfile, DialingBy)
    BY DEF StreamInv
  <2> QED BY <2>1, <2>2, <2>3, CountsRemove, Zenon
<1>11. Counts(Profiles, dialsPerProfile', DialingBy')
  BY <1>2, <1>3, <1>10
<1> QED
  BY <1>3, <1>5, <1>8, <1>9, <1>11 DEF StreamInv, StreamType, Counts

(* A stream that ends is no longer counted.                                *)
LEMMA StreamFinishes ==
  ASSUME StreamInv, RegistryInv, NEW x \in Backends, StreamFinished(x)
  PROVE  StreamInv'
<1> DEFINE p == ProfileOf(x)  entry == [backends[x] EXCEPT !.stage = "finished"]
<1>1. backends[x] \in Backend /\ backends[x].session \in 1 .. created
      /\ backends[x].stage = "running"
  BY DEF StreamInv, StreamType, StreamFinished
<1>2. p \in Profiles
  BY <1>1, ProfileKnown DEF ProfileOf
<1>3. backends' = [backends EXCEPT ![x] = entry] /\ UNCHANGED registry
      /\ backendDialsInFlight' = backendDialsInFlight /\ dialsPerProfile' = dialsPerProfile
      /\ streamsLive' = streamsLive - 1
      /\ streamsPerProfile' = [streamsPerProfile EXCEPT ![p] = @ - 1]
  BY DEF StreamFinished
<1>4. entry \in Backend /\ entry.stage = "finished" /\ entry.session = backends[x].session
  BY <1>1 DEF Backend
<1> HIDE DEF entry
<1>5. /\ backends' \in [Backends -> Backend] /\ backends'[x] = entry
      /\ \A y \in Backends : y # x => backends'[y] = backends[y] /\ ProfileOf(y)' = ProfileOf(y)
      /\ \A y \in Backends : backends'[y].stage # "none" => backends'[y].session \in 1 .. created'
  BY <1>1, <1>3, <1>4, OtherBackends, Zenon
<1>6. /\ Dialing' = Dialing /\ Live' = Live \ {x} /\ x \in Live /\ x \notin Dialing
      /\ Live \subseteq Backends /\ Dialing \subseteq Live
  BY <1>1, <1>4, <1>5 DEF Live, Dialing
<1>7. backendDialsInFlight' = Cardinality(Dialing') /\ streamsLive' = Cardinality(Live')
      /\ streamsLive' \in Nat
  <2>1. IsFiniteSet(Live \ {x}) /\ Cardinality(Live \ {x}) = Cardinality(Live) - 1
    BY <1>6, BackendsFinite, FS_RemoveElement
  <2>2. Cardinality(Live \ {x}) \in Nat
    BY <2>1, FS_CardinalityType
  <2> QED BY <1>3, <1>6, <2>1, <2>2 DEF StreamInv
<1>8. Counts(Profiles, dialsPerProfile', DialingBy')
  <2>1. \A j \in Profiles : DialingBy'[j] = DialingBy[j]
    BY <1>5, <1>6 DEF DialingBy
  <2> QED BY <1>3, <2>1, CountsSame, Zenon DEF StreamInv
<1>9. ASSUME NEW k \in Profiles, k = p
      PROVE  Counts(Profiles, [streamsPerProfile EXCEPT ![k] = @ - 1], LiveBy')
  <2>1. \A j \in Profiles : LiveBy'[j] = IF j = k THEN LiveBy[j] \ {x} ELSE LiveBy[j]
    BY <1>5, <1>6, <1>9 DEF LiveBy
  <2>2. x \in LiveBy[k]
    BY <1>6, <1>9 DEF LiveBy
  <2>3. Counts(Profiles, streamsPerProfile, LiveBy)
    BY DEF StreamInv
  <2> QED BY <2>1, <2>2, <2>3, CountsRemove
<1>10. Counts(Profiles, streamsPerProfile', LiveBy')
  BY <1>2, <1>3, <1>9
<1> QED
  BY <1>3, <1>5, <1>7, <1>8, <1>10 DEF StreamInv, StreamType, Counts

(* The end of a goroutine is counted nowhere.                              *)
LEMMA DoneStreams ==
  ASSUME StreamInv, RegistryInv, NEW x \in Backends, BackendDone(x)
  PROVE  StreamInv'
<1>1. backends[x].stage = "finished" /\ backends' = [backends EXCEPT ![x] = NoBackend]
      /\ UNCHANGED registry
      /\ streamsLive' = streamsLive /\ backendDialsInFlight' = backendDialsInFlight
      /\ streamsPerProfile' = streamsPerProfile /\ dialsPerProfile' = dialsPerProfile
  BY DEF BackendDone
<1>2. NoBackend \in Backend /\ NoBackend.stage = "none"
  BY ManagerAssumption DEF NoBackend, Backend, ManagerAssumption
<1>3. /\ backends' \in [Backends -> Backend] /\ backends'[x] = NoBackend
      /\ \A y \in Backends : y # x => backends'[y] = backends[y] /\ ProfileOf(y)' = ProfileOf(y)
      /\ \A y \in Backends : backends'[y].stage # "none" => backends'[y].session \in 1 .. created'
  BY <1>1, <1>2, OtherBackends, Zenon
<1>4. /\ Dialing' = Dialing /\ Live' = Live /\ x \notin Live
      /\ Live \subseteq Backends /\ Dialing \subseteq Live
  BY <1>1, <1>2, <1>3 DEF Live, Dialing
<1>5. \A j \in Profiles : DialingBy'[j] = DialingBy[j] /\ LiveBy'[j] = LiveBy[j]
  BY <1>3, <1>4 DEF DialingBy, LiveBy
<1>6. Counts(Profiles, streamsPerProfile', LiveBy') /\ Counts(Profiles, dialsPerProfile', DialingBy')
  BY <1>1, <1>5, CountsSame, Zenon DEF StreamInv
<1> QED
  BY <1>1, <1>3, <1>4, <1>6 DEF StreamInv, StreamType

(* Every step keeps the backends and their counters.                       *)
LEMMA StreamsStep ==
  ASSUME StreamInv, RegistryInv, [Next]_vars
  PROVE  StreamInv'
<1>1. created \in Nat /\ created <= created
  BY DEF RegistryInv, RegistryType
<1>2. CASE StreamStep
  <2>1. PICK x \in Backends : \/ \E s \in SessionIds : OpenStream(x, s)
                              \/ BackendDialFinished(x) \/ StreamFinished(x) \/ BackendDone(x)
    BY <1>2 DEF StreamStep
  <2> QED BY <2>1, OpenStreams, DialFinished, StreamFinishes, DoneStreams, Zenon
<1>3. CASE CreateStep
  <2>1. PICK b \in BootIds : CreateAgain(b) \/ \E ip \in IPs : Create(b, ip)
    BY <1>3 DEF CreateStep
  <2>2. CASE CreateAgain(b)
    <3>1. UNCHANGED streamVars /\ created' = created /\ info' = info
      BY <2>2 DEF CreateAgain, registry
    <3> QED BY <1>1, <3>1, StreamKept
  <2>3. ASSUME NEW ip \in IPs, Create(b, ip) PROVE StreamInv'
    <3>1. UNCHANGED streamVars /\ created' = created + 1
          /\ info' = [info EXCEPT ![created + 1] =
                        [ip |-> ip, profile |-> bootstraps[b].profile, bootstrap |-> b]]
      BY <2>3 DEF Create
    <3>2. \A s \in 1 .. created : info'[s] = info[s]
      <4>1. ASSUME NEW s \in 1 .. created PROVE info'[s] = info[s]
        <5>1. s \in SessionIds /\ s # created + 1 /\ info \in [SessionIds -> Info]
          BY <1>1, ProfileKnown DEF RegistryInv, RegistryType
        <5> QED BY <3>1, <5>1, Zenon
      <4> QED BY <4>1
    <3> QED BY <1>1, <3>1, <3>2, StreamKept
  <2> QED BY <2>1, <2>2, <2>3, Zenon
<1>4. CASE BootstrapStep \/ SessionStep \/ Cleaner \/ Shutdown \/ UNCHANGED vars
  <2>1. UNCHANGED streamVars /\ created' = created /\ info' = info
    BY <1>4 DEF BootstrapStep, TimePasses, BootstrapRefused, IssueBootstrap,
      SessionStep, SessionCloses, SessionFinished, FallsSilent, Touch, ClientLeaves,
      Cleaner, CleanerTicks, CleanerChecks, CleanerCloses, CleanerStops,
      Shutdown, ShutdownStarts, ShutdownCloses, ShutdownClosed, ShutdownWaits,
      ShutdownReturns, registry, vars
  <2> QED BY <1>1, <2>1, StreamKept
<1> QED
  BY <1>2, <1>3, <1>4, Zenon DEF Next

-----------------------------------------------------------------------------
(* Bootstraps.                                                             *)
Issuers(bs) == [ip \in IPs |-> {b \in Unused(bs) : bs[b].ip = ip}]

(* Of a table bs when n bootstraps have been issued: an entry has a        *)
(* session exactly when it is used, and no other session was answered to   *)
(* its bootstrap.                                                          *)
TableSound(bs, n) ==
  /\ bs \in [BootIds -> Bootstrap]
  /\ \A b \in BootIds :
       /\ b > n => bs[b].st = "absent" /\ answers[b] = {}
       /\ bs[b].st = "used" <=> bs[b].session # 0
       /\ bs[b].st = "unused" => answers[b] = {}
       /\ bs[b].st = "used" => answers[b] \subseteq {bs[b].session}

OneAnswer == \A b \in BootIds : \A s, r \in answers[b] : s = r

BootInv ==
  /\ BootstrapType
  /\ Counts(IPs, bootstrapsPerIP, Issuers(bootstraps))
  /\ TableSound(bootstraps, issued)
  /\ OneAnswer

(* What an entry that is not there looks like.                             *)
LEMMA Absent == NoBootstrap \in Bootstrap /\ NoBootstrap.st = "absent" /\ NoBootstrap.session = 0
<1>1. NoIP \in IPs /\ NoProfile \in Profiles /\ 0 \in 0 .. MaxCreated
  BY ManagerAssumption DEF ManagerAssumption, NoIP, NoProfile
<1> QED BY <1>1 DEF NoBootstrap, Bootstrap

(* Removing entries keeps the table and the counter in step.               *)
LEMMA CutTable ==
  ASSUME NEW bs, NEW count, NEW gs, TableSound(bs, issued), Counts(IPs, count, Issuers(bs))
  PROVE  /\ TableSound(Without(bs, gs), issued)
         /\ Counts(IPs, CountWithout(bs, count, gs), Issuers(Without(bs, gs)))
<1>1. \A b \in BootIds : Without(bs, gs)[b] = IF b \in gs THEN NoBootstrap ELSE bs[b]
  BY DEF Without
<1>2. Without(bs, gs) \in [BootIds -> Bootstrap]
  BY Absent DEF Without, TableSound
<1>3. TableSound(Without(bs, gs), issued)
  BY <1>1, <1>2, Absent DEF TableSound
<1> DEFINE D == [ip \in IPs |-> {b \in gs \cap Unused(bs) : bs[b].ip = ip}]
<1>4. \A ip \in IPs : D[ip] \subseteq Issuers(bs)[ip]
                      /\ Issuers(Without(bs, gs))[ip] = Issuers(bs)[ip] \ D[ip]
  <2>1. ASSUME NEW ip \in IPs
        PROVE  D[ip] \subseteq Issuers(bs)[ip]
               /\ Issuers(Without(bs, gs))[ip] = Issuers(bs)[ip] \ D[ip]
    <3>1. D[ip] = {b \in gs \cap Unused(bs) : bs[b].ip = ip}
      OBVIOUS
    <3>2. Unused(Without(bs, gs)) = Unused(bs) \ gs
      BY <1>1, Absent DEF Unused
    <3>3. \A b \in Unused(bs) \ gs : Without(bs, gs)[b] = bs[b]
      BY <1>1 DEF Unused
    <3> QED BY <3>1, <3>2, <3>3 DEF Issuers
  <2> QED BY <2>1
<1> HIDE DEF D
<1>5. Counts(IPs, [ip \in IPs |-> count[ip] - Cardinality(D[ip])], Issuers(Without(bs, gs)))
  <2>1. ASSUME NEW T, NEW U, T = Issuers(bs), U = Issuers(Without(bs, gs))
        PROVE  Counts(IPs, [ip \in IPs |-> count[ip] - Cardinality(D[ip])], U)
    <3>1. Counts(IPs, count, T) /\ \A ip \in IPs : D[ip] \subseteq T[ip] /\ U[ip] = T[ip] \ D[ip]
      BY <1>4, <2>1
    <3> QED BY <3>1, CountsCut
  <2> QED BY <2>1
<1>6. CountWithout(bs, count, gs) = [ip \in IPs |-> count[ip] - Cardinality(D[ip])]
  BY DEF CountWithout, D
<1> QED BY <1>3, <1>5, <1>6

(* The expired entries go.                                                 *)
LEMMA ExpireTable ==
  ASSUME BootInv, UNCHANGED <<issued, expired, answers>>,
         bootstraps' = Without(bootstraps, Overtaken(bootstraps)),
         bootstrapsPerIP' = CountWithout(bootstraps, bootstrapsPerIP, Overtaken(bootstraps))
  PROVE  BootInv'
<1>1. /\ TableSound(bootstraps', issued)
      /\ Counts(IPs, bootstrapsPerIP', Issuers(bootstraps'))
  BY CutTable, Zenon DEF BootInv
<1>2. TableSound(bootstraps, issued)' /\ Issuers(bootstraps') = Issuers(bootstraps)'
  BY <1>1 DEF TableSound, Issuers, Unused
<1> QED BY <1>1, <1>2 DEF BootInv, BootstrapType, OneAnswer, TableSound, Counts

(* A new entry is counted under the address it was issued to.              *)
LEMMA IssueTable ==
  ASSUME BootInv, NEW ip \in IPs, NEW p \in Profiles, IssueBootstrap(ip, p)
  PROVE  BootInv'
<1> DEFINE kept == Without(bootstraps, Overtaken(bootstraps))
           count == CountWithout(bootstraps, bootstrapsPerIP, Overtaken(bootstraps))
           full == Cardinality(Present(kept)) >= MaxBootstrapsGlobal
           evicted == IF full THEN OldestUnused(kept) ELSE {}
           entry == [st |-> "unused", ip |-> ip, profile |-> p, session |-> 0]
           table == Without(kept, evicted)
           left == CountWithout(kept, count, evicted)
           n == issued + 1
<1>1. /\ issued < MaxIssued /\ issued' = n
      /\ bootstraps' = [table EXCEPT ![n] = entry]
      /\ bootstrapsPerIP' = [left EXCEPT ![ip] = @ + 1]
      /\ answers' = answers /\ expired' = expired
  BY DEF IssueBootstrap
<1>2. issued \in 0 .. MaxIssued /\ MaxIssued \in Nat /\ expired \in 0 .. issued
      /\ answers \in [BootIds -> SUBSET SessionIds]
  BY ManagerAssumption DEF BootInv, BootstrapType, ManagerAssumption
<1>3. n \in BootIds /\ n > issued /\ \A b \in BootIds : b > n => b > issued
  BY <1>1, <1>2 DEF BootIds
<1> HIDE DEF evicted, entry
<1>4. TableSound(table, issued) /\ Counts(IPs, left, Issuers(table))
  <2>1. TableSound(kept, issued) /\ Counts(IPs, count, Issuers(kept))
    BY CutTable, Zenon DEF BootInv
  <2> HIDE DEF kept, count
  <2> QED BY <2>1, CutTable, Zenon
<1>5. entry \in Bootstrap /\ entry.st = "unused" /\ entry.ip = ip /\ entry.session = 0
  BY <1>2, ManagerAssumption DEF entry, Bootstrap, ManagerAssumption
<1> HIDE DEF table, left, n
<1>6. bootstraps' \in [BootIds -> Bootstrap] /\ bootstraps'[n] = entry
      /\ \A b \in BootIds : b # n => bootstraps'[b] = table[b]
  BY <1>1, <1>3, <1>4, <1>5, Zenon DEF TableSound
<1>7. answers[n] = {} /\ table[n].st = "absent"
  BY <1>3, <1>4 DEF TableSound
<1>8. \A b \in BootIds :
        /\ b > n => bootstraps'[b].st = "absent" /\ answers[b] = {}
        /\ bootstraps'[b].st = "used" <=> bootstraps'[b].session # 0
        /\ bootstraps'[b].st = "unused" => answers[b] = {}
        /\ bootstraps'[b].st = "used" => answers[b] \subseteq {bootstraps'[b].session}
  <2>1. ASSUME NEW b \in BootIds, b # n
        PROVE  /\ b > n => bootstraps'[b].st = "absent" /\ answers[b] = {}
               /\ bootstraps'[b].st = "used" <=> bootstraps'[b].session # 0
               /\ bootstraps'[b].st = "unused" => answers[b] = {}
               /\ bootstraps'[b].st = "used" => answers[b] \subseteq {bootstraps'[b].session}
    BY <1>3, <1>4, <1>6, <2>1, Zenon DEF TableSound
  <2>2. ~ (n > n)
    BY <1>2 DEF n
  <2> QED BY <1>5, <1>6, <1>7, <2>1, <2>2
<1>9. TableSound(bootstraps, issued)'
  BY <1>1, <1>6, <1>8 DEF TableSound
<1>10. Counts(IPs, bootstrapsPerIP', Issuers(bootstraps'))
  <2>1. Unused(bootstraps') = Unused(table) \cup {n} /\ n \notin Unused(table)
    BY <1>3, <1>5, <1>6, <1>7 DEF Unused
  <2>2. \A k \in IPs : Issuers(bootstraps')[k] =
          IF k = ip THEN Issuers(table)[k] \cup {n} ELSE Issuers(table)[k]
    <3>1. ASSUME NEW k \in IPs
          PROVE  Issuers(bootstraps')[k] =
                   IF k = ip THEN Issuers(table)[k] \cup {n} ELSE Issuers(table)[k]
      <4>1. \A b \in Unused(table) : bootstraps'[b] = table[b]
        BY <1>6, <2>1 DEF Unused
      <4> QED BY <1>5, <1>6, <2>1, <4>1 DEF Issuers
    <3> QED BY <3>1
  <2>3. n \notin Issuers(table)[ip]
    BY <2>1 DEF Issuers
  <2>4. ASSUME NEW T, NEW U, T = Issuers(table), U = Issuers(bootstraps')
        PROVE  Counts(IPs, [left EXCEPT ![ip] = @ + 1], U)
    <3>1. Counts(IPs, left, T) /\ n \notin T[ip]
          /\ \A k \in IPs : U[k] = IF k = ip THEN T[k] \cup {n} ELSE T[k]
      BY <1>4, <2>2, <2>3, <2>4
    <3> QED BY <3>1, CountsAdd, Zenon
  <2> QED BY <1>1, <2>4
<1>11. BootstrapType'
  <2>1. issued' \in 0 .. MaxIssued /\ expired' \in 0 .. issued'
    BY <1>1, <1>2 DEF n
  <2> QED BY <1>1, <1>2, <1>6, <1>10, <2>1 DEF BootstrapType, Counts
<1> QED
  BY <1>1, <1>9, <1>10, <1>11 DEF BootInv, OneAnswer, Issuers, Unused

(* A bootstrap that makes a session is no longer counted.                  *)
LEMMA CreateTable ==
  ASSUME BootInv, RegistryType, NEW b \in BootIds, NEW ip \in IPs, Create(b, ip)
  PROVE  BootInv'
<1> DEFINE s == created + 1
           entry == [bootstraps[b] EXCEPT !.st = "used", !.session = s]
<1>1. bootstraps[b] \in Bootstrap /\ bootstraps[b].st = "unused" /\ answers[b] = {}
  BY DEF Create, BootInv, TableSound
<1>2. /\ UNCHANGED <<issued, expired>>
      /\ bootstraps' = [bootstraps EXCEPT ![b].st = "used", ![b].session = s]
      /\ bootstrapsPerIP' = [bootstrapsPerIP EXCEPT ![bootstraps[b].ip] = @ - 1]
      /\ answers' = [answers EXCEPT ![b] = @ \cup {s}]
  BY DEF Create, Answered
<1>3. s \in SessionIds /\ s \in 0 .. MaxCreated /\ s # 0
  BY ManagerAssumption, SMTT(60) DEF RegistryType, Create, SessionIds, ManagerAssumption
<1>4. entry \in Bootstrap /\ entry.st = "used" /\ entry.session = s
      /\ entry.ip = bootstraps[b].ip
  BY <1>1, <1>3 DEF Bootstrap
<1>5. bootstraps' = [bootstraps EXCEPT ![b] = entry]
  BY <1>1, <1>2 DEF Bootstrap
<1> HIDE DEF entry, s
<1>6. bootstraps \in [BootIds -> Bootstrap] /\ answers \in [BootIds -> SUBSET SessionIds]
  BY DEF BootInv, BootstrapType
<1>7. bootstraps' \in [BootIds -> Bootstrap] /\ bootstraps'[b] = entry
      /\ \A c \in BootIds : c # b => bootstraps'[c] = bootstraps[c]
  BY <1>4, <1>5, <1>6, Zenon
<1>8. answers' \in [BootIds -> SUBSET SessionIds] /\ answers'[b] = {s}
      /\ \A c \in BootIds : c # b => answers'[c] = answers[c]
  BY <1>1, <1>2, <1>3, <1>6
<1>9. ~ (b > issued)
  BY <1>1 DEF BootInv, TableSound
<1>10. TableSound(bootstraps, issued)' /\ OneAnswer'
  <2>1. ASSUME NEW c \in BootIds, c # b
        PROVE  /\ c > issued => bootstraps'[c].st = "absent" /\ answers'[c] = {}
               /\ bootstraps'[c].st = "used" <=> bootstraps'[c].session # 0
               /\ bootstraps'[c].st = "unused" => answers'[c] = {}
               /\ bootstraps'[c].st = "used" => answers'[c] \subseteq {bootstraps'[c].session}
               /\ \A x, y \in answers'[c] : x = y
    <3>1. /\ c > issued => bootstraps[c].st = "absent" /\ answers[c] = {}
          /\ bootstraps[c].st = "used" <=> bootstraps[c].session # 0
          /\ bootstraps[c].st = "unused" => answers[c] = {}
          /\ bootstraps[c].st = "used" => answers[c] \subseteq {bootstraps[c].session}
          /\ \A x, y \in answers[c] : x = y
      BY DEF BootInv, TableSound, OneAnswer
    <3>2. bootstraps'[c] = bootstraps[c] /\ answers'[c] = answers[c]
      BY <1>7, <1>8, <2>1
    <3> QED BY <3>1, <3>2
  <2> QED BY <1>2, <1>3, <1>4, <1>7, <1>8, <1>9, <2>1 DEF TableSound, OneAnswer
<1>11. Counts(IPs, bootstrapsPerIP', Issuers(bootstraps'))
  <2>1. bootstraps[b].ip \in IPs
    BY <1>1 DEF Bootstrap
  <2>2. Unused(bootstraps') = Unused(bootstraps) \ {b} /\ b \in Unused(bootstraps)
    BY <1>1, <1>4, <1>7 DEF Unused
  <2>3. \A k \in IPs : Issuers(bootstraps')[k] =
          IF k = bootstraps[b].ip THEN Issuers(bootstraps)[k] \ {b} ELSE Issuers(bootstraps)[k]
    <3>1. ASSUME NEW k \in IPs
          PROVE  Issuers(bootstraps')[k] =
                   IF k = bootstraps[b].ip THEN Issuers(bootstraps)[k] \ {b}
                                           ELSE Issuers(bootstraps)[k]
      BY <1>7, <2>2 DEF Issuers, Unused
    <3> QED BY <3>1
  <2>4. ASSUME NEW k \in IPs, k = bootstraps[b].ip,
               NEW T, NEW U, T = Issuers(bootstraps), U = Issuers(bootstraps')
        PROVE  Counts(IPs, [bootstrapsPerIP EXCEPT ![k] = @ - 1], U)
    <3>1. b \in T[k] /\ \A j \in IPs : U[j] = IF j = k THEN T[j] \ {b} ELSE T[j]
      BY <2>2, <2>3, <2>4 DEF Issuers
    <3>2. Counts(IPs, bootstrapsPerIP, T)
      BY <2>4 DEF BootInv
    <3> QED BY <3>1, <3>2, CountsRemove, Zenon
  <2> QED BY <1>2, <2>1, <2>4
<1>12. BootstrapType'
  BY <1>2, <1>7, <1>8, <1>11 DEF BootInv, BootstrapType, Counts
<1> QED
  BY <1>10, <1>11, <1>12 DEF BootInv, Issuers, Unused

(* A repeated creation is answered with the session it has been answered   *)
(* with before.                                                            *)
LEMMA AgainTable ==
  ASSUME BootInv, NEW b \in BootIds, CreateAgain(b)
  PROVE  BootInv'
<1> DEFINE s == bootstraps[b].session
<1>1. UNCHANGED bootVars /\ answers' = [answers EXCEPT ![b] = @ \cup {s}]
      /\ bootstraps[b].st = "used"
  BY DEF CreateAgain, Answered
<1>2. s \in 0 .. MaxCreated /\ s # 0 /\ answers[b] \subseteq {s} /\ ~ (b > issued)
  BY <1>1 DEF BootInv, TableSound, Bootstrap
<1>3. s \in SessionIds
  BY <1>2, ManagerAssumption DEF SessionIds, ManagerAssumption
<1> HIDE DEF s
<1>4. answers \in [BootIds -> SUBSET SessionIds]
  BY DEF BootInv, BootstrapType
<1>5. answers' \in [BootIds -> SUBSET SessionIds] /\ answers'[b] = {s}
      /\ \A c \in BootIds : c # b => answers'[c] = answers[c]
  BY <1>1, <1>2, <1>3, <1>4
<1>6. OneAnswer'
  BY <1>5 DEF BootInv, OneAnswer
<1>7. bootstraps' = bootstraps /\ issued' = issued /\ expired' = expired
      /\ bootstrapsPerIP' = bootstrapsPerIP
  BY <1>1 DEF bootVars
<1>8. TableSound(bootstraps, issued)'
  BY <1>1, <1>2, <1>5, <1>7 DEF BootInv, TableSound, s
<1>9. Counts(IPs, bootstrapsPerIP', Issuers(bootstraps'))
  BY <1>7 DEF BootInv
<1> QED
  BY <1>5, <1>6, <1>7, <1>8, <1>9 DEF BootInv, BootstrapType, Issuers, Unused

(* The entry that made a session goes with it; it was not counted.         *)
LEMMA FinishTable ==
  ASSUME BootInv, NEW s \in SessionIds, SessionFinished(s)
  PROVE  BootInv'
<1> DEFINE gs == BootstrapsOf(s)
<1>1. bootstraps' = Without(bootstraps, gs) /\ UNCHANGED <<issued, expired, answers>>
      /\ bootstrapsPerIP' = bootstrapsPerIP
  BY DEF SessionFinished
<1>2. s # 0
  BY ManagerAssumption DEF SessionIds, ManagerAssumption
<1>3. gs \cap Unused(bootstraps) = {}
  BY <1>2 DEF BootstrapsOf, Unused, BootInv, TableSound
<1> HIDE DEF gs
<1>4. TableSound(bootstraps', issued)
  BY <1>1, CutTable, Zenon DEF BootInv
<1>5. \A ip \in IPs : Issuers(bootstraps')[ip] = Issuers(bootstraps)[ip]
  <2>1. \A b \in BootIds : bootstraps'[b] = IF b \in gs THEN NoBootstrap ELSE bootstraps[b]
    BY <1>1 DEF Without
  <2>2. Unused(bootstraps') = Unused(bootstraps)
    BY <1>3, <2>1, Absent DEF Unused
  <2>3. \A b \in Unused(bootstraps) : bootstraps'[b] = bootstraps[b]
    BY <1>3, <2>1 DEF Unused
  <2> QED BY <2>2, <2>3 DEF Issuers
<1>6. Counts(IPs, bootstrapsPerIP', Issuers(bootstraps'))
  <2>1. ASSUME NEW T, NEW U, T = Issuers(bootstraps), U = Issuers(bootstraps')
        PROVE  Counts(IPs, bootstrapsPerIP, U)
    <3>1. Counts(IPs, bootstrapsPerIP, T) /\ \A ip \in IPs : U[ip] = T[ip]
      BY <1>5, <2>1 DEF BootInv
    <3> QED BY <3>1, CountsSame, Zenon
  <2> QED BY <1>1, <2>1
<1>7. TableSound(bootstraps, issued)' /\ Issuers(bootstraps') = Issuers(bootstraps)'
  BY <1>1, <1>4 DEF TableSound, Issuers, Unused
<1> QED BY <1>1, <1>4, <1>6, <1>7 DEF BootInv, BootstrapType, OneAnswer, TableSound

(* Other steps leave the table alone; time may overtake its entries.       *)
LEMMA TableKept ==
  ASSUME BootInv, UNCHANGED <<issued, bootstraps, bootstrapsPerIP, answers>>,
         expired' \in 0 .. issued
  PROVE  BootInv'
BY DEF BootInv, BootstrapType, TableSound, OneAnswer, Issuers, Unused

(* Every step keeps the bootstraps.                                        *)
LEMMA BootStep ==
  ASSUME BootInv, RegistryInv, [Next]_vars
  PROVE  BootInv'
<1>1. RegistryType /\ expired \in 0 .. issued /\ issued \in Nat
  BY DEF RegistryInv, BootInv, BootstrapType
<1>2. CASE BootstrapStep
  <2>1. CASE TimePasses
    <3>1. UNCHANGED <<issued, bootstraps, bootstrapsPerIP, answers>> /\ expired' \in 0 .. issued
      BY <1>1, <2>1 DEF TimePasses
    <3> QED BY <3>1, TableKept, Zenon
  <2>2. CASE BootstrapRefused
    BY <2>2, ExpireTable DEF BootstrapRefused
  <2>3. CASE \E ip \in IPs, p \in Profiles : IssueBootstrap(ip, p)
    BY <2>3, IssueTable, Zenon
  <2> QED BY <1>2, <2>1, <2>2, <2>3, Zenon DEF BootstrapStep
<1>3. CASE CreateStep
  <2>1. PICK b \in BootIds : CreateAgain(b) \/ \E ip \in IPs : Create(b, ip)
    BY <1>3 DEF CreateStep
  <2> QED BY <1>1, <2>1, AgainTable, CreateTable, Zenon
<1>4. CASE SessionStep
  <2>1. PICK s \in SessionIds : \/ SessionCloses(s) \/ SessionFinished(s)
                               \/ FallsSilent(s) \/ Touch(s) \/ ClientLeaves(s)
    BY <1>4 DEF SessionStep
  <2>2. CASE SessionFinished(s)
    BY <2>2, FinishTable, Zenon
  <2>3. CASE SessionCloses(s) \/ FallsSilent(s) \/ Touch(s) \/ ClientLeaves(s)
    <3>1. UNCHANGED <<issued, bootstraps, bootstrapsPerIP, answers>> /\ expired' \in 0 .. issued
      BY <1>1, <2>3 DEF SessionCloses, FallsSilent, Touch, ClientLeaves, bootVars
    <3> QED BY <3>1, TableKept, Zenon
  <2> QED BY <2>1, <2>2, <2>3, Zenon
<1>5. CASE Cleaner
  <2>1. CASE CleanerTicks
    BY <2>1, ExpireTable DEF CleanerTicks
  <2>2. CASE CleanerCloses \/ CleanerStops \/ \E s \in SessionIds : CleanerChecks(s)
    <3>1. UNCHANGED <<issued, bootstraps, bootstrapsPerIP, answers>> /\ expired' \in 0 .. issued
      BY <1>1, <2>2 DEF CleanerCloses, CleanerStops, CleanerChecks, bootVars
    <3> QED BY <3>1, TableKept, Zenon
  <2> QED BY <1>5, <2>1, <2>2, Zenon DEF Cleaner
<1>6. CASE StreamStep \/ Shutdown \/ UNCHANGED vars
  <2>1. UNCHANGED <<issued, bootstraps, bootstrapsPerIP, answers>> /\ expired' \in 0 .. issued
    BY <1>1, <1>6 DEF StreamStep, OpenStream, BackendDialFinished, StreamFinished, BackendDone,
      Shutdown, ShutdownStarts, ShutdownCloses, ShutdownClosed, ShutdownWaits,
      ShutdownReturns, bootVars, vars
  <2> QED BY <2>1, TableKept, Zenon
<1> QED
  BY <1>2, <1>3, <1>4, <1>5, <1>6, Zenon DEF Next

-----------------------------------------------------------------------------
(* Bootstraps and sessions together.                                       *)
KeptInv ==
  /\ UsedBootstrapsKept
  /\ \A s \in sessions : info[s].bootstrap <= issued

(* No entry becomes used, and none that is used and in time goes.          *)
LEMMA KeptSame ==
  ASSUME KeptInv, RegistryInv, BootInv, UNCHANGED <<sessions, info>>,
         expired' \in Int, issued' \in Int, expired <= expired', issued <= issued',
         \A b \in BootIds : bootstraps'[b].st = "used" =>
           bootstraps[b].st = "used" /\ bootstraps'[b].session = bootstraps[b].session,
         \A b \in BootIds : b <= issued /\ b > expired' /\ bootstraps[b].st = "used" =>
           bootstraps'[b].st = "used" /\ bootstraps'[b].session = bootstraps[b].session
  PROVE  KeptInv'
<1>1. \A s \in sessions : info[s].bootstrap \in BootIds /\ info[s].bootstrap \in Int
      /\ info[s].bootstrap <= issued
  <2>1. \A s \in sessions : s \in SessionIds
    <3>1. sessions \subseteq 1 .. created /\ created \in 0 .. MaxCreated /\ MaxCreated \in Nat
      BY ManagerAssumption DEF RegistryInv, RegistryType, ManagerAssumption
    <3> QED BY <3>1 DEF SessionIds
  <2> QED BY <2>1 DEF KeptInv, RegistryInv, RegistryType, Info, BootIds
<1>2. expired \in Int /\ issued \in Int
  BY DEF BootInv, BootstrapType
<1>3. \A s \in sessions : info[s].bootstrap <= issued'
  BY <1>1, <1>2
<1>4. \A b \in BootIds : bootstraps'[b].st = "used" => bootstraps'[b].session \in sessions
  BY DEF KeptInv, UsedBootstrapsKept
<1>5. ASSUME NEW s \in sessions, NEW b, b = info[s].bootstrap, b > expired'
      PROVE  bootstraps'[b].st = "used" /\ bootstraps'[b].session = s
  <2>1. b \in BootIds /\ b > expired /\ b <= issued
    BY <1>1, <1>2, <1>5
  <2>2. bootstraps[b].st = "used" /\ bootstraps[b].session = s
    BY <1>5, <2>1 DEF KeptInv, UsedBootstrapsKept
  <2> QED BY <1>5, <2>1, <2>2
<1> QED
  BY <1>3, <1>4, <1>5 DEF KeptInv, UsedBootstrapsKept

(* Entries that are unused or overtaken may go.                            *)
LEMMA KeptCut ==
  ASSUME BootInv, NEW gs, gs \subseteq Overtaken(bootstraps)
  PROVE  /\ \A b \in BootIds : Without(bootstraps, gs)[b].st = "used" =>
              bootstraps[b].st = "used" /\ Without(bootstraps, gs)[b] = bootstraps[b]
         /\ \A b \in BootIds : b > expired => Without(bootstraps, gs)[b] = bootstraps[b]
<1>1. \A b \in BootIds : Without(bootstraps, gs)[b] = IF b \in gs THEN NoBootstrap ELSE bootstraps[b]
  BY DEF Without
<1>2. \A b \in gs : ~ (b > expired)
  BY DEF Overtaken, Present, BootInv, BootstrapType, BootIds
<1> QED BY <1>1, <1>2, Absent

(* An issued bootstrap displaces no used one.                              *)
LEMMA KeptIssue ==
  ASSUME KeptInv, RegistryInv, BootInv, NEW ip \in IPs, NEW p \in Profiles,
         IssueBootstrap(ip, p)
  PROVE  KeptInv'
<1> DEFINE kept == Without(bootstraps, Overtaken(bootstraps))
           full == Cardinality(Present(kept)) >= MaxBootstrapsGlobal
           evicted == IF full THEN OldestUnused(kept) ELSE {}
           entry == [st |-> "unused", ip |-> ip, profile |-> p, session |-> 0]
           table == Without(kept, evicted)
           n == issued + 1
<1>1. /\ issued < MaxIssued /\ issued' = n /\ UNCHANGED <<sessions, info>>
      /\ bootstraps' = [table EXCEPT ![n] = entry] /\ expired' = expired
  BY DEF IssueBootstrap
<1>2. issued \in Int /\ expired \in Int /\ n \in Int /\ issued <= n /\ expired <= expired
      /\ \A b \in BootIds : b <= issued => b # n
  BY DEF BootInv, BootstrapType, BootIds
<1>3. /\ \A b \in BootIds : kept[b].st = "used" => bootstraps[b].st = "used" /\ kept[b] = bootstraps[b]
      /\ \A b \in BootIds : b > expired => kept[b] = bootstraps[b]
  BY KeptCut
<1>4. \A b \in evicted : kept[b].st # "used"
  BY DEF evicted, OldestUnused, Unused
<1>5. entry.st = "unused"
  OBVIOUS
<1> HIDE DEF kept, evicted, entry
<1>6. \A b \in BootIds : table[b] = IF b \in evicted THEN NoBootstrap ELSE kept[b]
  BY DEF Without
<1>7. table = [b \in BootIds |-> table[b]]
  BY DEF Without
<1> HIDE DEF table, n
<1>8. \A b \in BootIds : bootstraps'[b] = IF b = n THEN entry ELSE table[b]
  BY <1>1, <1>7, Zenon
<1>9. \A b \in BootIds : bootstraps'[b].st = "used" =>
         bootstraps[b].st = "used" /\ bootstraps'[b] = bootstraps[b]
  BY <1>3, <1>5, <1>6, <1>8, Absent
<1>10. \A b \in BootIds : b <= issued /\ b > expired /\ bootstraps[b].st = "used" =>
         bootstraps'[b] = bootstraps[b]
  <2>1. ASSUME NEW b \in BootIds, b <= issued, b > expired, bootstraps[b].st = "used"
        PROVE  bootstraps'[b] = bootstraps[b]
    <3>1. kept[b] = bootstraps[b] /\ b # n
      BY <1>2, <1>3, <2>1
    <3>2. b \notin evicted
      BY <1>4, <2>1, <3>1
    <3> QED BY <1>6, <1>8, <3>1, <3>2
  <2> QED BY <2>1
<1>11. expired' \in Int /\ issued' \in Int /\ expired <= expired' /\ issued <= issued'
  BY <1>1, <1>2
<1> QED
  BY <1>1, <1>9, <1>10, <1>11, KeptSame, Zenon

(* A created session is the one its entry names.                           *)
LEMMA KeptCreate ==
  ASSUME KeptInv, RegistryInv, BootInv, NEW b \in BootIds, NEW ip \in IPs, Create(b, ip)
  PROVE  KeptInv'
<1> DEFINE s == created + 1
           new == [ip |-> ip, profile |-> bootstraps[b].profile, bootstrap |-> b]
<1>1. /\ sessions' = sessions \cup {s} /\ info' = [info EXCEPT ![s] = new]
      /\ bootstraps' = [bootstraps EXCEPT ![b].st = "used", ![b].session = s]
      /\ UNCHANGED <<issued, expired>> /\ bootstraps[b].st = "unused"
  BY DEF Create
<1>2. s \in SessionIds /\ s \notin sessions /\ info \in [SessionIds -> Info]
      /\ sessions \subseteq SessionIds
  <2>1. created \in 0 .. MaxCreated /\ created < MaxCreated /\ MaxCreated \in Nat
        /\ sessions \subseteq 1 .. created /\ info \in [SessionIds -> Info]
    BY ManagerAssumption DEF RegistryInv, RegistryType, Create, ManagerAssumption
  <2> QED BY <2>1 DEF SessionIds
<1>3. bootstraps \in [BootIds -> Bootstrap] /\ ~ (b > issued) /\ b \in Int /\ issued \in Int
  BY <1>1 DEF BootInv, BootstrapType, TableSound, BootIds
<1> HIDE DEF s
<1>4. info'[s].bootstrap = b /\ \A r \in sessions : info'[r] = info[r] /\ r # s
  BY <1>1, <1>2
<1>5. bootstraps'[b].st = "used" /\ bootstraps'[b].session = s
      /\ \A c \in BootIds : c # b => bootstraps'[c] = bootstraps[c]
  BY <1>1, <1>3 DEF Bootstrap
<1>6. \A r \in sessions : info[r].bootstrap = b => ~ (b > expired)
  BY <1>1 DEF KeptInv, UsedBootstrapsKept
<1>7. \A r \in sessions : info[r].bootstrap \in BootIds
  BY <1>2 DEF Info
<1>8. \A c \in BootIds : bootstraps'[c].st = "used" => bootstraps'[c].session \in sessions'
  <2>1. ASSUME NEW c \in BootIds, bootstraps'[c].st = "used", c # b
        PROVE  bootstraps'[c].session \in sessions
    <3>1. bootstraps[c].st = "used" /\ bootstraps'[c] = bootstraps[c]
      BY <1>5, <2>1
    <3> QED BY <3>1 DEF KeptInv, UsedBootstrapsKept
  <2>2. sessions \subseteq sessions' /\ s \in sessions'
    BY <1>1
  <2> QED BY <1>5, <2>1, <2>2
<1>9. ASSUME NEW r \in sessions', NEW c, c = info'[r].bootstrap, c > expired'
      PROVE  bootstraps'[c].st = "used" /\ bootstraps'[c].session = r
  <2>1. CASE r = s
    BY <1>4, <1>5, <1>9, <2>1
  <2>2. CASE r # s
    <3>1. r \in sessions /\ c = info[r].bootstrap /\ c \in BootIds /\ c > expired
      BY <1>1, <1>4, <1>7, <1>9, <2>2
    <3>2. bootstraps[c].st = "used" /\ bootstraps[c].session = r
      BY <3>1 DEF KeptInv, UsedBootstrapsKept
    <3> QED BY <1>1, <1>5, <3>1, <3>2
  <2> QED BY <2>1, <2>2
<1>10. \A r \in sessions' : info'[r].bootstrap <= issued'
  BY <1>1, <1>3, <1>4 DEF KeptInv
<1> QED
  BY <1>8, <1>9, <1>10 DEF KeptInv, UsedBootstrapsKept

(* The entry of a session that ended goes with it, and no other.           *)
LEMMA KeptFinish ==
  ASSUME KeptInv, RegistryInv, BootInv, NEW s \in SessionIds, SessionFinished(s)
  PROVE  KeptInv'
<1>1. /\ sessions' = sessions \ {s} /\ UNCHANGED <<info, issued, expired>>
      /\ bootstraps' = Without(bootstraps, BootstrapsOf(s))
  BY DEF SessionFinished
<1>2. \A b \in BootIds : bootstraps'[b] = IF b \in BootstrapsOf(s) THEN NoBootstrap ELSE bootstraps[b]
  BY <1>1 DEF Without
<1>3. \A b \in BootIds : bootstraps'[b].st = "used" =>
        bootstraps[b].st = "used" /\ bootstraps'[b] = bootstraps[b] /\ bootstraps[b].session # s
  BY <1>2, Absent DEF BootstrapsOf
<1>4. \A b \in BootIds : bootstraps'[b].st = "used" => bootstraps'[b].session \in sessions'
  BY <1>1, <1>3 DEF KeptInv, UsedBootstrapsKept
<1>5. ASSUME NEW r \in sessions', NEW b, b = info'[r].bootstrap, b > expired'
      PROVE  bootstraps'[b].st = "used" /\ bootstraps'[b].session = r
  <2>1. r \in sessions /\ r # s /\ b = info[r].bootstrap /\ b > expired
    BY <1>1, <1>5
  <2>2. bootstraps[b].st = "used" /\ bootstraps[b].session = r
    BY <2>1 DEF KeptInv, UsedBootstrapsKept
  <2>3. b \in BootIds
    <3>1. sessions \subseteq 1 .. created /\ created \in 0 .. MaxCreated /\ MaxCreated \in Nat
          /\ info \in [SessionIds -> Info]
      BY ManagerAssumption DEF RegistryInv, RegistryType, ManagerAssumption
    <3> QED BY <2>1, <3>1 DEF SessionIds, Info
  <2> QED BY <1>2, <2>1, <2>2, <2>3 DEF BootstrapsOf
<1> QED
  BY <1>1, <1>4, <1>5 DEF KeptInv, UsedBootstrapsKept

(* Every step keeps the entries of registered sessions.                    *)
LEMMA KeptStep ==
  ASSUME KeptInv, RegistryInv, BootInv, [Next]_vars
  PROVE  KeptInv'
<1>1. issued \in Int /\ expired \in Int /\ issued <= issued /\ expired <= expired
      /\ expired <= expired + 1 /\ expired + 1 \in Int
  BY DEF BootInv, BootstrapType
<1>2. ASSUME UNCHANGED <<sessions, info, issued, bootstraps>>,
             expired' = expired \/ expired' = expired + 1
      PROVE  KeptInv'
  <2>1. \A b \in BootIds : bootstraps'[b] = bootstraps[b]
    BY <1>2
  <2>2. UNCHANGED <<sessions, info>> /\ expired' \in Int /\ issued' \in Int
        /\ expired <= expired' /\ issued <= issued'
    BY <1>1, <1>2
  <2> QED BY <2>1, <2>2, KeptSame, Zenon
<1>3. ASSUME bootstraps' = Without(bootstraps, Overtaken(bootstraps)),
             UNCHANGED <<sessions, info, issued, expired>>
      PROVE  KeptInv'
  <2>1. /\ \A b \in BootIds : bootstraps'[b].st = "used" =>
             bootstraps[b].st = "used" /\ bootstraps'[b] = bootstraps[b]
        /\ \A b \in BootIds : b > expired => bootstraps'[b] = bootstraps[b]
    BY <1>3, KeptCut
  <2>2. UNCHANGED <<sessions, info>> /\ expired' \in Int /\ issued' \in Int
        /\ expired <= expired' /\ issued <= issued' /\ expired' = expired
    BY <1>1, <1>3
  <2> QED BY <2>1, <2>2, KeptSame, Zenon
<1>4. CASE BootstrapStep
  <2>1. CASE TimePasses
    <3>1. UNCHANGED <<sessions, info, issued, bootstraps>> /\ expired' = expired + 1
      BY <2>1 DEF TimePasses, registry
    <3> QED BY <1>2, <3>1, Zenon
  <2>2. CASE BootstrapRefused
    <3>1. bootstraps' = Without(bootstraps, Overtaken(bootstraps))
          /\ UNCHANGED <<sessions, info, issued, expired>>
      BY <2>2 DEF BootstrapRefused
    <3> QED BY <1>3, <3>1, Zenon
  <2>3. CASE \E ip \in IPs, p \in Profiles : IssueBootstrap(ip, p)
    BY <2>3, KeptIssue, Zenon
  <2> QED BY <1>4, <2>1, <2>2, <2>3, Zenon DEF BootstrapStep
<1>5. CASE CreateStep
  <2>1. PICK b \in BootIds : CreateAgain(b) \/ \E ip \in IPs : Create(b, ip)
    BY <1>5 DEF CreateStep
  <2>2. CASE CreateAgain(b)
    <3>1. UNCHANGED <<sessions, info, issued, bootstraps>> /\ expired' = expired
      BY <2>2 DEF CreateAgain, bootVars, registry
    <3> QED BY <1>2, <3>1, Zenon
  <2> QED BY <2>1, <2>2, KeptCreate, Zenon
<1>6. CASE SessionStep
  <2>1. PICK s \in SessionIds : \/ SessionCloses(s) \/ SessionFinished(s)
                               \/ FallsSilent(s) \/ Touch(s) \/ ClientLeaves(s)
    BY <1>6 DEF SessionStep
  <2>2. CASE SessionCloses(s) \/ FallsSilent(s) \/ Touch(s) \/ ClientLeaves(s)
    <3>1. UNCHANGED <<sessions, info, issued, bootstraps>> /\ expired' = expired
      BY <2>2 DEF SessionCloses, FallsSilent, Touch, ClientLeaves, bootVars, registry
    <3> QED BY <1>2, <3>1, Zenon
  <2> QED BY <2>1, <2>2, KeptFinish, Zenon
<1>7. CASE Cleaner
  <2>1. CASE CleanerTicks
    <3>1. bootstraps' = Without(bootstraps, Overtaken(bootstraps))
          /\ UNCHANGED <<sessions, info, issued, expired>>
      BY <2>1 DEF CleanerTicks
    <3> QED BY <1>3, <3>1, Zenon
  <2>2. CASE CleanerCloses \/ CleanerStops \/ \E s \in SessionIds : CleanerChecks(s)
    <3>1. UNCHANGED <<sessions, info, issued, bootstraps>> /\ expired' = expired
      BY <2>2 DEF CleanerCloses, CleanerStops, CleanerChecks, bootVars, registry
    <3> QED BY <1>2, <3>1, Zenon
  <2> QED BY <1>7, <2>1, <2>2, Zenon DEF Cleaner
<1>8. CASE StreamStep \/ Shutdown \/ UNCHANGED vars
  <2>1. UNCHANGED <<sessions, info, issued, bootstraps>> /\ expired' = expired
    BY <1>8 DEF StreamStep, OpenStream, BackendDialFinished, StreamFinished, BackendDone,
      Shutdown, ShutdownStarts, ShutdownCloses, ShutdownClosed, ShutdownWaits,
      ShutdownReturns, bootVars, registry, vars
  <2> QED BY <1>2, <2>1, Zenon
<1> QED
  BY <1>4, <1>5, <1>6, <1>7, <1>8, Zenon DEF Next

-----------------------------------------------------------------------------
(* Shutdown: what it has closed stays closed, and what it has waited for   *)
(* stays finished.                                                         *)
ShutdownInv ==
  /\ ProcessType
  /\ closed <=> shutdown.pc # "no"
  /\ shutdown.pc = "closing" => open \subseteq shutdown.todo
  /\ shutdown.pc \in {"waiting", "returned"} => open = {}
  /\ shutdown.pc = "waiting" => \A s \in shutdown.snapshot \ shutdown.todo : Running(s) = {}
  /\ shutdown.pc = "returned" => \A s \in shutdown.snapshot : Running(s) = {}

(* The sessions are among the session numbers.                             *)
LEMMA SessionsKnown ==
  ASSUME RegistryType
  PROVE  sessions \subseteq SessionIds /\ open \subseteq sessions
BY ManagerAssumption DEF RegistryType, SessionIds, ManagerAssumption

(* After Shutdown has begun a session's goroutines only end.               *)
LEMMA OnlyEnding ==
  ASSUME StreamType, closed, [Next]_vars, NEW s
  PROVE  Running(s)' \subseteq Running(s)
<1>1. CASE StreamStep
  <2>1. PICK x \in Backends : BackendDialFinished(x) \/ StreamFinished(x) \/ BackendDone(x)
    BY <1>1 DEF StreamStep, OpenStream
  <2>2. /\ backends[x].stage # "none"
        /\ \A y \in Backends : y # x => backends'[y] = backends[y]
        /\ backends'[x].stage # "none" => backends'[x].session = backends[x].session
    <3>1. backends \in [Backends -> Backend] /\ backends[x] \in Backend
      BY DEF StreamType
    <3>2. CASE BackendDialFinished(x)
      BY <3>1, <3>2 DEF BackendDialFinished, Backend
    <3>3. CASE StreamFinished(x)
      BY <3>1, <3>3 DEF StreamFinished, Backend
    <3>4. CASE BackendDone(x)
      BY <3>1, <3>4 DEF BackendDone, NoBackend
    <3> QED BY <2>1, <3>2, <3>3, <3>4, Zenon
  <2> QED BY <2>2 DEF Running
<1>2. CASE BootstrapStep \/ CreateStep \/ SessionStep \/ Cleaner \/ Shutdown \/ UNCHANGED vars
  <2>1. backends' = backends
    BY <1>2 DEF BootstrapStep, TimePasses, BootstrapRefused, IssueBootstrap,
      CreateStep, Create, CreateAgain,
      SessionStep, SessionCloses, SessionFinished, FallsSilent, Touch, ClientLeaves,
      Cleaner, CleanerTicks, CleanerChecks, CleanerCloses, CleanerStops,
      Shutdown, ShutdownStarts, ShutdownCloses, ShutdownClosed, ShutdownWaits,
      ShutdownReturns, streamVars, vars
  <2> QED BY <2>1 DEF Running
<1> QED BY <1>1, <1>2, Zenon DEF Next

(* A session closes: it leaves those that are open, and no process moves.  *)
LEMMA CloseShutdown ==
  ASSUME ShutdownInv, NEW s, Close(s), UNCHANGED <<closed, streamVars, gone, shutdown>>,
         cleaner' \in CleanerType
  PROVE  ShutdownInv'
<1>1. \A r : Running(r)' = Running(r)
  BY DEF Running, streamVars
<1> QED BY <1>1 DEF ShutdownInv, ProcessType, Close

(* Nothing is closed and shutdown does not move.                           *)
LEMMA ShutdownKept ==
  ASSUME ShutdownInv, UNCHANGED <<closed, shutdown>>, closed => open' \subseteq open,
         stale' \subseteq SessionIds, gone' \subseteq SessionIds, cleaner' \in CleanerType,
         closed => \A s : Running(s)' \subseteq Running(s)
  PROVE  ShutdownInv'
<1>1. closed' = closed /\ shutdown' = shutdown
  OBVIOUS
<1>2. CASE ~closed
  BY <1>1, <1>2 DEF ShutdownInv, ProcessType
<1>3. CASE closed
  <2>1. open' \subseteq open /\ \A s : Running(s)' \subseteq Running(s)
    BY <1>3
  <2> QED BY <1>1, <2>1 DEF ShutdownInv, ProcessType
<1> QED BY <1>2, <1>3

(* What the cleanup loop moves on to.                                      *)
LEMMA SweptType ==
  ASSUME cleaner \in CleanerType, NEW todo, todo \subseteq SessionIds
  PROVE  Swept(todo) \in CleanerType
<1>1. 0 \in 0 .. MaxCreated
  BY ManagerAssumption DEF ManagerAssumption
<1> QED BY <1>1 DEF Swept, CleanerType

(* The steps of the cleanup loop.                                          *)
LEMMA CleanerShutdown ==
  ASSUME ShutdownInv, RegistryInv, Cleaner
  PROVE  ShutdownInv'
<1>1. sessions \subseteq SessionIds /\ cleaner \in CleanerType
      /\ stale \subseteq SessionIds /\ gone \subseteq SessionIds
  BY SessionsKnown DEF RegistryInv, ShutdownInv, ProcessType
<1>2. cleaner.todo \subseteq SessionIds
  BY <1>1 DEF CleanerType
<1>3. CASE CleanerCloses
  <2>1. cleaner' \in CleanerType
    BY <1>1, <1>2, <1>3, SweptType DEF CleanerCloses
  <2>2. Close(cleaner.victim) /\ UNCHANGED <<closed, streamVars, gone, shutdown>>
    BY <1>3 DEF CleanerCloses
  <2> QED BY <2>1, <2>2, CloseShutdown, Zenon
<1>4. CASE CleanerTicks \/ CleanerStops \/ \E s \in SessionIds : CleanerChecks(s)
  <2>1. UNCHANGED <<closed, shutdown, open, stale, gone, streamVars>>
    BY <1>4 DEF CleanerTicks, CleanerStops, CleanerChecks
  <2>2. cleaner' \in CleanerType
    <3>1. CASE CleanerTicks
      <4>1. Swept(sessions) \in CleanerType
        BY <1>1, SweptType
      <4>2. [Swept(sessions) EXCEPT !.old = stale] \in CleanerType
        BY <1>1, <4>1, Zenon DEF CleanerType
      <4> QED BY <3>1, <4>2 DEF CleanerTicks
    <3>2. CASE CleanerStops
      <4>1. [cleaner EXCEPT !.pc = "done"] \in CleanerType
        BY <1>1 DEF CleanerType
      <4> QED BY <3>2, <4>1 DEF CleanerStops
    <3>3. ASSUME NEW s \in SessionIds, CleanerChecks(s) PROVE cleaner' \in CleanerType
      <4>1. s \in 0 .. MaxCreated
        BY ManagerAssumption DEF SessionIds, ManagerAssumption
      <4>2. [cleaner EXCEPT !.pc = "close", !.victim = s] \in CleanerType
        BY <1>1, <4>1 DEF CleanerType
      <4>3. Swept(cleaner.todo \ {s}) \in CleanerType
        BY <1>1, <1>2, SweptType
      <4> QED BY <3>3, <4>2, <4>3 DEF CleanerChecks
    <3> QED BY <1>4, <3>1, <3>2, <3>3
  <2>3. \A r : Running(r)' = Running(r)
    BY <2>1 DEF Running, streamVars
  <2>4. /\ UNCHANGED <<closed, shutdown>> /\ open' \subseteq open
        /\ stale' \subseteq SessionIds /\ gone' \subseteq SessionIds
        /\ \A r : Running(r)' \subseteq Running(r)
    BY <1>1, <2>1, <2>3
  <2> QED BY <2>2, <2>4, ShutdownKept
<1> QED
  BY <1>3, <1>4, Zenon DEF Cleaner

(* The steps of Shutdown.                                                  *)
LEMMA ShutdownShutdown ==
  ASSUME ShutdownInv, RegistryInv, Shutdown
  PROVE  ShutdownInv'
<1>1. sessions \subseteq SessionIds /\ open \subseteq sessions
      /\ shutdown \in ShutdownType /\ stale \subseteq SessionIds /\ gone \subseteq SessionIds
      /\ cleaner \in CleanerType /\ closed \in BOOLEAN
  BY SessionsKnown DEF RegistryInv, ShutdownInv, ProcessType
<1>2. shutdown.todo \subseteq SessionIds /\ shutdown.snapshot \subseteq SessionIds
  BY <1>1 DEF ShutdownType
<1>3. ASSUME UNCHANGED streamVars PROVE \A r : Running(r)' = Running(r)
  BY <1>3 DEF Running, streamVars
<1>4. CASE ShutdownStarts
  <2>1. shutdown' = [pc |-> "closing", todo |-> sessions, snapshot |-> sessions]
        /\ closed' = TRUE /\ UNCHANGED <<open, stale, gone, cleaner>>
    BY <1>4 DEF ShutdownStarts
  <2>2. shutdown' \in ShutdownType
    BY <1>1, <2>1 DEF ShutdownType
  <2> QED BY <1>1, <2>1, <2>2 DEF ShutdownInv, ProcessType
<1>5. CASE ShutdownClosed
  <2>1. shutdown.pc = "closing" /\ shutdown.todo = {}
        /\ shutdown' = [shutdown EXCEPT !.pc = "waiting", !.todo = shutdown.snapshot]
        /\ UNCHANGED <<open, stale, gone, cleaner, closed, streamVars>>
    BY <1>5 DEF ShutdownClosed
  <2>2. shutdown' \in ShutdownType /\ shutdown'.pc = "waiting"
        /\ shutdown'.todo = shutdown'.snapshot
    BY <1>1, <1>2, <2>1 DEF ShutdownType
  <2> QED BY <1>1, <2>1, <2>2 DEF ShutdownInv, ProcessType
<1>6. ASSUME NEW s \in SessionIds, ShutdownCloses(s) PROVE ShutdownInv'
  <2>1. shutdown.pc = "closing" /\ shutdown' = [shutdown EXCEPT !.todo = @ \ {s}]
        /\ open' = open \ {s} /\ stale' = stale \ {s}
        /\ UNCHANGED <<gone, cleaner, closed>>
    BY <1>6 DEF ShutdownCloses, Close
  <2>2. shutdown' \in ShutdownType /\ shutdown'.pc = "closing"
        /\ shutdown'.todo = shutdown.todo \ {s}
    BY <1>1, <1>2, <2>1 DEF ShutdownType
  <2> QED BY <1>1, <2>1, <2>2 DEF ShutdownInv, ProcessType
<1>7. ASSUME NEW s \in SessionIds, ShutdownWaits(s) PROVE ShutdownInv'
  <2>1. shutdown.pc = "waiting" /\ shutdown' = [shutdown EXCEPT !.todo = @ \ {s}]
        /\ Running(s) = {}
        /\ UNCHANGED <<open, stale, gone, cleaner, closed, streamVars>>
    BY <1>7 DEF ShutdownWaits
  <2>2. shutdown' \in ShutdownType /\ shutdown'.pc = "waiting"
        /\ shutdown'.todo = shutdown.todo \ {s} /\ shutdown'.snapshot = shutdown.snapshot
    BY <1>1, <1>2, <2>1 DEF ShutdownType
  <2> QED BY <1>1, <1>3, <2>1, <2>2 DEF ShutdownInv, ProcessType
<1>8. CASE ShutdownReturns
  <2>1. shutdown.pc = "waiting" /\ shutdown.todo = {}
        /\ shutdown' = [shutdown EXCEPT !.pc = "returned"]
        /\ UNCHANGED <<open, stale, gone, cleaner, closed, streamVars>>
    BY <1>8 DEF ShutdownReturns
  <2>2. shutdown' \in ShutdownType /\ shutdown'.pc = "returned"
        /\ shutdown'.snapshot = shutdown.snapshot
    BY <1>1, <1>2, <2>1 DEF ShutdownType
  <2> QED BY <1>1, <1>3, <2>1, <2>2 DEF ShutdownInv, ProcessType
<1> QED
  BY <1>4, <1>5, <1>6, <1>7, <1>8, Zenon DEF Shutdown

(* Every step keeps what Shutdown relies on.                               *)
LEMMA ShutdownStep ==
  ASSUME ShutdownInv, RegistryInv, StreamInv, [Next]_vars
  PROVE  ShutdownInv'
<1>1. /\ cleaner \in CleanerType /\ stale \subseteq SessionIds /\ gone \subseteq SessionIds
      /\ closed => \A r : Running(r)' \subseteq Running(r)
      /\ sessions \subseteq SessionIds /\ open \subseteq sessions
  BY OnlyEnding, SessionsKnown DEF ShutdownInv, ProcessType, StreamInv, RegistryInv
<1>2. CASE BootstrapStep \/ CreateStep \/ StreamStep \/ UNCHANGED vars
  <2>1. UNCHANGED <<closed, shutdown, stale, gone, cleaner>> /\ (closed => open' = open)
    BY <1>2 DEF BootstrapStep, TimePasses, BootstrapRefused, IssueBootstrap,
      CreateStep, Create, CreateAgain, vars,
      StreamStep, OpenStream, BackendDialFinished, StreamFinished, BackendDone
  <2>2. closed => open' \subseteq open
    BY <2>1
  <2> QED BY <1>1, <2>1, <2>2, ShutdownKept
<1>3. CASE SessionStep
  <2>1. PICK s \in SessionIds : \/ SessionCloses(s) \/ SessionFinished(s)
                               \/ FallsSilent(s) \/ Touch(s) \/ ClientLeaves(s)
    BY <1>3 DEF SessionStep
  <2>2. CASE SessionCloses(s)
    <3>1. Close(s) /\ UNCHANGED <<closed, streamVars, gone, shutdown>> /\ cleaner' = cleaner
      BY <2>2 DEF SessionCloses
    <3> QED BY <1>1, <3>1, CloseShutdown
  <2>3. CASE SessionFinished(s) \/ FallsSilent(s) \/ ClientLeaves(s)
    <3>1. UNCHANGED <<closed, shutdown, open, cleaner>>
          /\ (stale' = stale \/ stale' = stale \cup {s})
          /\ (gone' = gone \/ gone' = gone \cup {s})
      BY <2>3 DEF SessionFinished, FallsSilent, ClientLeaves
    <3>2. stale' \subseteq SessionIds /\ gone' \subseteq SessionIds
      BY <1>1, <3>1
    <3> QED BY <1>1, <3>1, <3>2, ShutdownKept
  <2>4. CASE Touch(s)
    <3>1. UNCHANGED <<closed, shutdown, open, gone>> /\ stale' = stale \ {s}
          /\ cleaner' = [cleaner EXCEPT !.old = @ \ {s}]
      BY <2>4 DEF Touch
    <3>2. cleaner' \in CleanerType
      BY <1>1, <3>1 DEF CleanerType
    <3>3. stale' \subseteq SessionIds
      BY <1>1, <3>1
    <3> QED BY <1>1, <3>1, <3>2, <3>3, ShutdownKept
  <2> QED BY <2>1, <2>2, <2>3, <2>4, Zenon
<1> QED
  BY <1>2, <1>3, CleanerShutdown, ShutdownShutdown, Zenon DEF Next

-----------------------------------------------------------------------------
(* The invariant of the manager.                                           *)
ManagerInv == RegistryInv /\ BootInv /\ StreamInv /\ KeptInv /\ ShutdownInv

(* It holds at the start, ...                                              *)
LEMMA ManagerInit ==
  ASSUME Init
  PROVE  ManagerInv
<1>1. /\ NoIP \in IPs /\ NoProfile \in Profiles /\ 0 \in 0 .. MaxCreated
      /\ 1 \in BootIds /\ 0 \in 0 .. MaxIssued /\ 0 \in 0 .. 0
      /\ MaxClosedTokens \in Nat
  BY ManagerAssumption DEF ManagerAssumption, NoIP, NoProfile, BootIds
<1>2. IsFiniteSet({}) /\ Cardinality({}) = 0
  BY FS_EmptySet
<1>3. RegistryInv
  <2>1. Counts(IPs, sessionsPerIP, ByAddress) /\ Counts(Profiles, sessionsPerProfile, ByProfile)
    BY <1>2 DEF Init, Counts, ByAddress, ByProfile
  <2>2. info \in [SessionIds -> Info]
    BY <1>1 DEF Init, Info
  <2>3. closedTokens \in Seq(SessionIds) /\ Len(closedTokens) <= MaxClosedTokens
    BY <1>1 DEF Init
  <2> QED BY <1>1, <2>1, <2>2, <2>3 DEF Init, RegistryInv, RegistryType, NoLostPlace, Counts
<1>4. BootInv
  <2>1. bootstraps \in [BootIds -> Bootstrap] /\ \A b \in BootIds : bootstraps[b] = NoBootstrap
    BY Absent DEF Init
  <2>2. Unused(bootstraps) = {}
    BY <2>1, Absent DEF Unused
  <2>3. Counts(IPs, bootstrapsPerIP, Issuers(bootstraps))
    BY <1>2, <2>2 DEF Init, Counts, Issuers
  <2>4. TableSound(bootstraps, issued) /\ OneAnswer
    BY <2>1, Absent DEF Init, TableSound, OneAnswer
  <2> QED BY <1>1, <2>1, <2>3, <2>4 DEF Init, BootInv, BootstrapType, Counts
<1>5. StreamInv
  <2>1. NoBackend \in Backend /\ NoBackend.stage = "none"
    BY <1>1 DEF NoBackend, Backend
  <2>2. backends \in [Backends -> Backend] /\ Live = {} /\ Dialing = {}
        /\ \A x \in Backends : backends[x].stage = "none"
    BY <2>1 DEF Init, Live, Dialing
  <2>3. Counts(Profiles, streamsPerProfile, LiveBy) /\ Counts(Profiles, dialsPerProfile, DialingBy)
    BY <1>2, <2>2 DEF Init, Counts, LiveBy, DialingBy
  <2> QED BY <1>2, <2>2, <2>3 DEF Init, StreamInv, StreamType, Counts
<1>6. KeptInv
  BY Absent DEF Init, KeptInv, UsedBootstrapsKept
<1>7. ShutdownInv
  BY <1>1 DEF Init, ShutdownInv, ProcessType, CleanerType, ShutdownType
<1> QED
  BY <1>3, <1>4, <1>5, <1>6, <1>7 DEF ManagerInv

(* ... and every step keeps it.                                            *)
LEMMA ManagerStep ==
  ASSUME ManagerInv, [Next]_vars
  PROVE  ManagerInv'
<1>1. BootstrapType
  BY DEF ManagerInv, BootInv
<1> QED
  BY <1>1, RegistryStep, BootStep, StreamsStep, KeptStep, ShutdownStep, Zenon DEF ManagerInv

(* What the invariant says of the properties the runs check.               *)
LEMMA ManagerImplies ==
  ASSUME ManagerInv
  PROVE  /\ TypeOK /\ CountersExact /\ OneSessionPerBootstrap /\ UsedBootstrapsKept
         /\ NoLostPlace /\ ShutdownLeavesNothing
<1>1. TypeOK
  BY DEF ManagerInv, TypeOK, RegistryInv, BootInv, StreamInv, ShutdownInv
<1>2. CountersExact
  BY DEF ManagerInv, CountersExact, RegistryInv, BootInv, StreamInv, Counts, ByAddress,
    ByProfile, LiveBy, DialingBy, Issuers
<1>3. OneSessionPerBootstrap
  <2>1. ASSUME NEW b \in BootIds PROVE Cardinality(answers[b]) <= 1
    <3>1. \A s, r \in answers[b] : s = r
      BY DEF ManagerInv, BootInv, OneAnswer
    <3>2. CASE answers[b] = {}
      BY <3>2, FS_EmptySet
    <3>3. ASSUME NEW s \in answers[b] PROVE Cardinality(answers[b]) <= 1
      <4>1. answers[b] = {s}
        BY <3>1
      <4>2. Cardinality({s}) = 1
        BY FS_Singleton
      <4> QED BY <4>1, <4>2
    <3> QED BY <3>2, <3>3
  <2> QED BY <2>1 DEF OneSessionPerBootstrap
<1>4. UsedBootstrapsKept /\ NoLostPlace
  BY DEF ManagerInv, KeptInv, RegistryInv
<1>5. ShutdownLeavesNothing
  BY DEF ManagerInv, ShutdownInv, ShutdownLeavesNothing
<1> QED BY <1>1, <1>2, <1>3, <1>4, <1>5

(* The invariant holds throughout.                                         *)
LEMMA ManagerInvariant == Spec => []ManagerInv
<1>1. Init => ManagerInv
  BY ManagerInit
<1>2. ManagerInv /\ [Next]_vars => ManagerInv'
  BY ManagerStep
<1> QED BY <1>1, <1>2, PTL DEF Spec

(* Every variable of the manager keeps its type.                           *)
THEOREM TypeCorrect == Spec => []TypeOK
<1>1. ManagerInv => TypeOK
  BY ManagerImplies
<1> QED BY <1>1, ManagerInvariant, PTL

(* Every counter is the number of what it counts (manager.go:143-577), so  *)
(* that neither sessionFinished, streamFinished nor backendDialFinished    *)
(* ever takes one below zero.                                              *)
THEOREM CountersExactHolds == Spec => []CountersExact
<1>1. ManagerInv => CountersExact
  BY ManagerImplies
<1> QED BY <1>1, ManagerInvariant, PTL

(* A bootstrap makes one session, however its creation is repeated         *)
(* (manager.go:204-213).                                                   *)
THEOREM OneSessionPerBootstrapHolds == Spec => []OneSessionPerBootstrap
<1>1. ManagerInv => OneSessionPerBootstrap
  BY ManagerImplies
<1> QED BY <1>1, ManagerInvariant, PTL

(* Neither expiry, eviction nor another session's end takes the entry of a *)
(* registered session before its time (manager.go:394-398, 525-540).       *)
THEOREM UsedBootstrapsKeptHolds == Spec => []UsedBootstrapsKept
<1>1. ManagerInv => UsedBootstrapsKept
  BY ManagerImplies
<1> QED BY <1>1, ManagerInvariant, PTL

(* No place in the registry is lost (session.go:1446-1450).                *)
THEOREM NoLostPlaceHolds == Spec => []NoLostPlace
<1>1. ManagerInv => NoLostPlace
  BY ManagerImplies
<1> QED BY <1>1, ManagerInvariant, PTL

(* Shutdown leaves no open session, and no goroutine of those it found     *)
(* (manager.go:345-366).                                                   *)
THEOREM ShutdownLeavesNothingHolds == Spec => []ShutdownLeavesNothing
<1>1. ManagerInv => ShutdownLeavesNothing
  BY ManagerImplies
<1> QED BY <1>1, ManagerInvariant, PTL

=============================================================================
