------------------------------ MODULE Manager ------------------------------
(***************************************************************************)
(* The manager (internal/session/manager.go): bootstraps, the registry of  *)
(* sessions, the counters that bound them, the cleanup loop and shutdown.  *)
(*                                                                         *)
(* A session is what the manager sees of it: open or closed, the callback  *)
(* that reports its end, and the goroutines of its backends.  Bootstraps   *)
(* and sessions are numbered as they are made; the random tokens stand for *)
(* these numbers.  Since ParseHello accepts one body only, the digest      *)
(* that a repeated creation must match is not modelled.                    *)
(*                                                                         *)
(* Every operation that takes m.mu once is one action; those that go on    *)
(* after releasing it (cleanup, shutdown, a session's end) are several.    *)
(***************************************************************************)
EXTENDS Integers, Sequences, FiniteSets

CONSTANTS
  IPs, Profiles,
  Backends,               \* goroutines of backends
  MaxIssued,              \* bound: bootstraps issued
  MaxCreated,             \* bound: sessions created
  MaxBootstrapsGlobal,
  MaxBootstrapsPerIP,     \* 0 for no limit
  MaxSessionsGlobal,
  MaxSessionsPerIP,       \* 0 for no limit
  MaxSessions,            \* of a profile
  MaxStreamsGlobal,
  MaxStreams,             \* of a profile
  MaxDialsGlobal,
  MaxDials,               \* of a profile
  MaxClosedTokens,        \* 16 * MaxSessionsGlobal
  ClientsLeave            \* whether clients vanish

ASSUME ManagerAssumption ==
  /\ IPs # {} /\ Profiles # {} /\ IsFiniteSet(Backends)
  /\ MaxIssued \in Nat \ {0} /\ MaxCreated \in Nat
  /\ MaxBootstrapsGlobal \in Nat \ {0} /\ MaxBootstrapsPerIP \in Nat
  /\ MaxSessionsGlobal \in Nat \ {0} /\ MaxSessionsPerIP \in Nat
  /\ MaxSessions \in Nat \ {0}
  /\ MaxStreamsGlobal \in Nat \ {0} /\ MaxStreams \in Nat \ {0}
  /\ MaxDialsGlobal \in Nat \ {0} /\ MaxDials \in Nat \ {0}
  /\ MaxClosedTokens \in Nat \ {0} /\ ClientsLeave \in BOOLEAN

VARIABLES
  closed,                \* Shutdown has begun
  issued,                \* bootstraps made so far
  expired,               \* the bootstraps that time has overtaken: 1 .. expired
  bootstraps,
  bootstrapsPerIP,
  created,               \* sessions made so far
  sessions,              \* m.sessions
  info,                  \* clientIP, profile and bootstrap of a session
  open,                  \* sessions that have not run closeLocked
  finishing,             \* goroutines of onFinished that have not run
  closedTokens,
  sessionsPerIP,
  sessionsPerProfile,
  backends,
  streamsLive,
  streamsPerProfile,
  backendDialsInFlight,
  dialsPerProfile,
  stale,                 \* sessions silent for longer than ReconnectGrace
  gone,                  \* sessions whose client sends nothing any more
  cleaner,
  shutdown,
  answers                \* history: the sessions answered to a bootstrap

bootVars == <<issued, expired, bootstraps, bootstrapsPerIP>>
registry == <<created, sessions, info, closedTokens, sessionsPerIP, sessionsPerProfile>>
streamVars == <<backends, streamsLive, streamsPerProfile, backendDialsInFlight,
                dialsPerProfile>>

vars == <<closed, bootVars, registry, open, finishing, streamVars, stale, gone,
          cleaner, shutdown, answers>>

BootIds == 1 .. MaxIssued
SessionIds == 1 .. MaxCreated

Bootstrap == [st : {"absent", "unused", "used"}, ip : IPs, profile : Profiles,
              session : 0 .. MaxCreated]

Info == [ip : IPs, profile : Profiles, bootstrap : BootIds]

Backend == [stage : {"none", "dialing", "running", "finished"},
            session : 0 .. MaxCreated]

NoBackend == [stage |-> "none", session |-> 0]

NoIP == CHOOSE ip \in IPs : TRUE
NoProfile == CHOOSE p \in Profiles : TRUE

NoBootstrap == [st |-> "absent", ip |-> NoIP, profile |-> NoProfile, session |-> 0]

CleanerType == [pc : {"idle", "sweep", "close", "done"}, todo : SUBSET SessionIds,
                old : SUBSET SessionIds, victim : 0 .. MaxCreated]

ShutdownType == [pc : {"no", "closing", "waiting", "returned"},
                 todo : SUBSET SessionIds, snapshot : SUBSET SessionIds]

BootstrapType ==
  /\ issued \in 0 .. MaxIssued /\ expired \in 0 .. issued
  /\ bootstraps \in [BootIds -> Bootstrap]
  /\ bootstrapsPerIP \in [IPs -> Nat]
  /\ answers \in [BootIds -> SUBSET SessionIds]

RegistryType ==
  /\ created \in 0 .. MaxCreated
  /\ sessions \subseteq 1 .. created
  /\ info \in [SessionIds -> Info]
  /\ open \subseteq sessions /\ finishing \subseteq sessions
  /\ closedTokens \in Seq(SessionIds) /\ Len(closedTokens) <= MaxClosedTokens
  /\ sessionsPerIP \in [IPs -> Nat] /\ sessionsPerProfile \in [Profiles -> Nat]

StreamType ==
  /\ backends \in [Backends -> Backend]
  /\ streamsLive \in Nat /\ backendDialsInFlight \in Nat
  /\ streamsPerProfile \in [Profiles -> Nat] /\ dialsPerProfile \in [Profiles -> Nat]

ProcessType ==
  /\ stale \subseteq SessionIds /\ gone \subseteq SessionIds
  /\ cleaner \in CleanerType
  /\ closed \in BOOLEAN
  /\ shutdown \in ShutdownType

TypeOK == BootstrapType /\ RegistryType /\ StreamType /\ ProcessType

Init ==
  /\ closed = FALSE
  /\ issued = 0 /\ expired = 0
  /\ bootstraps = [b \in BootIds |-> NoBootstrap]
  /\ bootstrapsPerIP = [ip \in IPs |-> 0]
  /\ created = 0 /\ sessions = {} /\ open = {} /\ finishing = {} /\ closedTokens = <<>>
  /\ info = [s \in SessionIds |-> [ip |-> NoIP, profile |-> NoProfile, bootstrap |-> 1]]
  /\ sessionsPerIP = [ip \in IPs |-> 0]
  /\ sessionsPerProfile = [p \in Profiles |-> 0]
  /\ backends = [x \in Backends |-> NoBackend]
  /\ streamsLive = 0 /\ backendDialsInFlight = 0
  /\ streamsPerProfile = [p \in Profiles |-> 0]
  /\ dialsPerProfile = [p \in Profiles |-> 0]
  /\ stale = {} /\ gone = {}
  /\ cleaner = [pc |-> "idle", todo |-> {}, old |-> {}, victim |-> 0]
  /\ shutdown = [pc |-> "no", todo |-> {}, snapshot |-> {}]
  /\ answers = [b \in BootIds |-> {}]

-----------------------------------------------------------------------------
(* Bootstraps.                                                             *)

Present(bs) == {b \in BootIds : bs[b].st # "absent"}

Unused(bs) == {b \in BootIds : bs[b].st = "unused"}

(* removeBootstrapLocked for a set of them, and what it leaves of the      *)
(* count per address (releaseUnusedBootstrapLocked).                       *)
Without(bs, gs) == [b \in BootIds |-> IF b \in gs THEN NoBootstrap ELSE bs[b]]

CountWithout(bs, count, gs) ==
  [ip \in IPs |-> count[ip] - Cardinality({b \in gs \cap Unused(bs) : bs[b].ip = ip})]

OldestUnused_any(bs) == {b \in Present(bs) : \A c \in Present(bs) : b <= c}

(* evictOldestUnusedBootstrapLocked: the one that expires first.           *)
OldestUnused(bs) == {b \in Unused(bs) : \A c \in Unused(bs) : b <= c}

Overtaken(bs) == {b \in Present(bs) : b <= expired}

(* removeExpiredBootstrapsLocked also forgets the oldest closed tokens.    *)
ForgetTokens ==
  \E k \in 1 .. Len(closedTokens) + 1 :
    closedTokens' = SubSeq(closedTokens, k, Len(closedTokens))

TimePasses ==
  /\ expired < issued
  /\ expired' = expired + 1
  /\ UNCHANGED <<closed, issued, bootstraps, bootstrapsPerIP, registry, open, finishing,
                 streamVars, stale, gone, cleaner, shutdown, answers>>

(* The rate may refuse at any time; the expired entries are gone then too. *)
BootstrapRefused ==
  /\ ~closed
  /\ Overtaken(bootstraps) # {}
  /\ bootstraps' = Without(bootstraps, Overtaken(bootstraps))
  /\ bootstrapsPerIP' = CountWithout(bootstraps, bootstrapsPerIP, Overtaken(bootstraps))
  /\ ForgetTokens
  /\ UNCHANGED <<closed, issued, expired, created, sessions, info, sessionsPerIP,
                 sessionsPerProfile, open, finishing, streamVars, stale, gone,
                 cleaner, shutdown, answers>>

IssueBootstrap(ip, p) ==
  LET kept == Without(bootstraps, Overtaken(bootstraps))
      count == CountWithout(bootstraps, bootstrapsPerIP, Overtaken(bootstraps))
      full == Cardinality(Present(kept)) >= MaxBootstrapsGlobal
      evicted == IF full THEN OldestUnused(kept) ELSE {}
      entry == [st |-> "unused", ip |-> ip, profile |-> p, session |-> 0]
  IN  /\ ~closed
      /\ issued < MaxIssued
      /\ MaxBootstrapsPerIP # 0 => count[ip] < MaxBootstrapsPerIP
      /\ full => evicted # {}
      /\ issued' = issued + 1
      /\ bootstraps' = [Without(kept, evicted) EXCEPT ![issued + 1] = entry]
      /\ bootstrapsPerIP' = [CountWithout(kept, count, evicted) EXCEPT ![ip] = @ + 1]
      /\ ForgetTokens
      /\ UNCHANGED <<closed, expired, created, sessions, info, sessionsPerIP,
                     sessionsPerProfile, open, finishing, streamVars, stale, gone,
                     cleaner, shutdown, answers>>

-----------------------------------------------------------------------------
(* Creation of sessions.                                                   *)

Valid(b) == bootstraps[b].st # "absent" /\ b > expired

Answered(b, s) == answers' = [answers EXCEPT ![b] = @ \cup {s}]

(* A repeated request is answered with the session of the first.           *)
CreateAgain(b) ==
  /\ Valid(b)
  /\ bootstraps[b].st = "used"
  /\ Answered(b, bootstraps[b].session)
  /\ UNCHANGED <<closed, bootVars, registry, open, finishing, streamVars, stale, gone,
                 cleaner, shutdown>>

RoomForSession(ip, p) ==
  /\ Cardinality(sessions) < MaxSessionsGlobal
  /\ sessionsPerProfile[p] < MaxSessions
  /\ MaxSessionsPerIP # 0 => sessionsPerIP[ip] < MaxSessionsPerIP

Create_afresh(b, ip) ==
  LET s == created + 1
      p == bootstraps[b].profile
  IN  /\ ~closed
      /\ created < MaxCreated
      /\ Valid(b)
      /\ RoomForSession(ip, p)
      /\ created' = s
      /\ sessions' = sessions \cup {s}
      /\ open' = open \cup {s}
      /\ info' = [info EXCEPT ![s] = [ip |-> ip, profile |-> p, bootstrap |-> b]]
      /\ sessionsPerIP' = [sessionsPerIP EXCEPT ![ip] = @ + 1]
      /\ sessionsPerProfile' = [sessionsPerProfile EXCEPT ![p] = @ + 1]
      /\ bootstrapsPerIP' = [bootstrapsPerIP EXCEPT ![bootstraps[b].ip] = @ - 1]
      /\ bootstraps' = [bootstraps EXCEPT ![b].st = "used", ![b].session = s]
      /\ Answered(b, s)
      /\ UNCHANGED <<closed, issued, expired, closedTokens, finishing, streamVars, stale,
                     gone, cleaner, shutdown>>

Create_late(b, ip) ==
  LET s == created + 1
      p == bootstraps[b].profile
  IN  /\ created < MaxCreated
      /\ Valid(b)
      /\ bootstraps[b].st = "unused"
      /\ RoomForSession(ip, p)
      /\ created' = s
      /\ sessions' = sessions \cup {s}
      /\ open' = open \cup {s}
      /\ info' = [info EXCEPT ![s] = [ip |-> ip, profile |-> p, bootstrap |-> b]]
      /\ sessionsPerIP' = [sessionsPerIP EXCEPT ![ip] = @ + 1]
      /\ sessionsPerProfile' = [sessionsPerProfile EXCEPT ![p] = @ + 1]
      /\ bootstrapsPerIP' = [bootstrapsPerIP EXCEPT ![bootstraps[b].ip] = @ - 1]
      /\ bootstraps' = [bootstraps EXCEPT ![b].st = "used", ![b].session = s]
      /\ Answered(b, s)
      /\ UNCHANGED <<closed, issued, expired, closedTokens, finishing, streamVars, stale,
                     gone, cleaner, shutdown>>

Create(b, ip) ==
  LET s == created + 1
      p == bootstraps[b].profile
  IN  /\ ~closed
      /\ created < MaxCreated
      /\ Valid(b)
      /\ bootstraps[b].st = "unused"
      /\ RoomForSession(ip, p)
      /\ created' = s
      /\ sessions' = sessions \cup {s}
      /\ open' = open \cup {s}
      /\ info' = [info EXCEPT ![s] = [ip |-> ip, profile |-> p, bootstrap |-> b]]
      /\ sessionsPerIP' = [sessionsPerIP EXCEPT ![ip] = @ + 1]
      /\ sessionsPerProfile' = [sessionsPerProfile EXCEPT ![p] = @ + 1]
      /\ bootstrapsPerIP' = [bootstrapsPerIP EXCEPT ![bootstraps[b].ip] = @ - 1]
      /\ bootstraps' = [bootstraps EXCEPT ![b].st = "used", ![b].session = s]
      /\ Answered(b, s)
      /\ UNCHANGED <<closed, issued, expired, closedTokens, finishing, streamVars, stale,
                     gone, cleaner, shutdown>>

-----------------------------------------------------------------------------
(* The life of a session.                                                  *)

Close_unreported(s) ==
  /\ open' = open \ {s}
  /\ finishing' = finishing
  /\ stale' = stale \ {s}

(* closeLocked; onFinished runs in a goroutine of its own.  What is known  *)
(* of the silence of a closed session is of no use.                        *)
Close(s) ==
  /\ open' = open \ {s}
  /\ finishing' = finishing \cup (open \cap {s})
  /\ stale' = stale \ {s}

(* A protocol failure, a full control partition, or CloseToken, which      *)
(* looks the session up under m.mu and closes it after.                    *)
SessionCloses(s) ==
  /\ s \in open
  /\ Close(s)
  /\ UNCHANGED <<closed, bootVars, registry, streamVars, gone, cleaner, shutdown, answers>>

Remembered(s) ==
  Append(IF Len(closedTokens) >= MaxClosedTokens THEN Tail(closedTokens) ELSE closedTokens,
         s)

BootstrapsOf(s) == {b \in BootIds : bootstraps[b].session = s}

SessionFinished_ofIssuer(s) ==
  /\ s \in finishing
  /\ finishing' = finishing \ {s}
  /\ sessions' = sessions \ {s}
  /\ closedTokens' = Remembered(s)
  /\ sessionsPerIP' = [sessionsPerIP EXCEPT ![bootstraps[info[s].bootstrap].ip] = @ - 1]
  /\ sessionsPerProfile' = [sessionsPerProfile EXCEPT ![info[s].profile] = @ - 1]
  /\ bootstraps' = Without(bootstraps, BootstrapsOf(s))
  /\ UNCHANGED <<closed, issued, expired, bootstrapsPerIP, created, info, open, streamVars,
                 stale, gone, cleaner, shutdown, answers>>

SessionFinished(s) ==
  /\ s \in finishing
  /\ finishing' = finishing \ {s}
  /\ sessions' = sessions \ {s}
  /\ closedTokens' = Remembered(s)
  /\ sessionsPerIP' = [sessionsPerIP EXCEPT ![info[s].ip] = @ - 1]
  /\ sessionsPerProfile' = [sessionsPerProfile EXCEPT ![info[s].profile] = @ - 1]
  /\ bootstraps' = Without(bootstraps, BootstrapsOf(s))
  /\ UNCHANGED <<closed, issued, expired, bootstrapsPerIP, created, info, open, streamVars,
                 stale, gone, cleaner, shutdown, answers>>

(* Time passes without a request for the session.                          *)
FallsSilent(s) ==
  /\ s \in open \ stale
  /\ stale' = stale \cup {s}
  /\ UNCHANGED <<closed, bootVars, registry, open, finishing, streamVars, gone, cleaner,
                 shutdown, answers>>

(* Any request for an open session sets lastActivity.                      *)
Touch(s) ==
  /\ s \in open \ gone
  /\ stale' = stale \ {s}
  /\ cleaner' = [cleaner EXCEPT !.old = @ \ {s}]
  /\ UNCHANGED <<closed, bootVars, registry, open, finishing, streamVars, gone, shutdown,
                 answers>>

ClientLeaves(s) ==
  /\ ClientsLeave
  /\ s \in open \ gone
  /\ gone' = gone \cup {s}
  /\ UNCHANGED <<closed, bootVars, registry, open, finishing, streamVars, stale, cleaner,
                 shutdown, answers>>

-----------------------------------------------------------------------------
(* Streams: the callbacks of a session's batches and backends.             *)

RoomForStream(p) ==
  /\ streamsLive < MaxStreamsGlobal /\ streamsPerProfile[p] < MaxStreams
  /\ backendDialsInFlight < MaxDialsGlobal /\ dialsPerProfile[p] < MaxDials

(* acquireStream for an OPEN of a batch, whose critical section also adds  *)
(* the backend to the session's wait group.                                *)
OpenStream(x, s) ==
  LET p == info[s].profile
  IN  /\ s \in open
      /\ ~closed
      /\ backends[x].stage = "none"
      /\ RoomForStream(p)
      /\ backends' = [backends EXCEPT ![x] = [stage |-> "dialing", session |-> s]]
      /\ streamsLive' = streamsLive + 1
      /\ streamsPerProfile' = [streamsPerProfile EXCEPT ![p] = @ + 1]
      /\ backendDialsInFlight' = backendDialsInFlight + 1
      /\ dialsPerProfile' = [dialsPerProfile EXCEPT ![p] = @ + 1]
      /\ UNCHANGED <<closed, bootVars, registry, open, finishing, stale, gone, cleaner,
                     shutdown, answers>>

ProfileOf(x) == info[backends[x].session].profile

BackendDialFinished_twice(x) ==
  /\ backends[x].stage = "dialing"
  /\ backends' = [backends EXCEPT ![x].stage = "dialing"]
  /\ backendDialsInFlight' = backendDialsInFlight - 1
  /\ dialsPerProfile' = [dialsPerProfile EXCEPT ![ProfileOf(x)] = @ - 1]
  /\ UNCHANGED <<closed, bootVars, registry, open, finishing, streamsLive,
                 streamsPerProfile, stale, gone, cleaner, shutdown, answers>>

BackendDialFinished(x) ==
  /\ backends[x].stage = "dialing"
  /\ backends' = [backends EXCEPT ![x].stage = "running"]
  /\ backendDialsInFlight' = backendDialsInFlight - 1
  /\ dialsPerProfile' = [dialsPerProfile EXCEPT ![ProfileOf(x)] = @ - 1]
  /\ UNCHANGED <<closed, bootVars, registry, open, finishing, streamsLive,
                 streamsPerProfile, stale, gone, cleaner, shutdown, answers>>

(* Whether the dial failed, the loops ended or the session was closed:     *)
(* runBackend reports the stream's end first ...                           *)
StreamFinished(x) ==
  /\ backends[x].stage = "running"
  /\ backends' = [backends EXCEPT ![x].stage = "finished"]
  /\ streamsLive' = streamsLive - 1
  /\ streamsPerProfile' = [streamsPerProfile EXCEPT ![ProfileOf(x)] = @ - 1]
  /\ UNCHANGED <<closed, bootVars, registry, open, finishing, backendDialsInFlight,
                 dialsPerProfile, stale, gone, cleaner, shutdown, answers>>

(* ... and leaves the wait group last.                                     *)
BackendDone(x) ==
  /\ backends[x].stage = "finished"
  /\ backends' = [backends EXCEPT ![x] = NoBackend]
  /\ UNCHANGED <<closed, bootVars, registry, open, finishing, streamsLive,
                 streamsPerProfile, backendDialsInFlight, dialsPerProfile, stale, gone,
                 cleaner, shutdown, answers>>

-----------------------------------------------------------------------------
(* cleanupLoop.                                                            *)

Swept(todo) ==
  [pc |-> IF todo = {} THEN "idle" ELSE "sweep", todo |-> todo,
   old |-> IF todo = {} THEN {} ELSE cleaner.old, victim |-> 0]

CleanerTicks ==
  /\ cleaner.pc = "idle"
  /\ cleaner' = [Swept(sessions) EXCEPT !.old = stale]
  /\ bootstraps' = Without(bootstraps, Overtaken(bootstraps))
  /\ bootstrapsPerIP' = CountWithout(bootstraps, bootstrapsPerIP, Overtaken(bootstraps))
  /\ ForgetTokens
  /\ UNCHANGED <<closed, issued, expired, created, sessions, info, sessionsPerIP,
                 sessionsPerProfile, open, finishing, streamVars, stale, gone, shutdown,
                 answers>>

CleanerChecks_inverted(s) ==
  /\ cleaner.pc = "sweep"
  /\ s \in cleaner.todo
  /\ cleaner' = IF s \notin cleaner.old
                THEN [cleaner EXCEPT !.pc = "close", !.victim = s]
                ELSE Swept(cleaner.todo \ {s})
  /\ UNCHANGED <<closed, bootVars, registry, open, finishing, streamVars, stale, gone,
                 shutdown, answers>>

(* LastActivity() takes the session's own mutex, and lets go of it.        *)
CleanerChecks(s) ==
  /\ cleaner.pc = "sweep"
  /\ s \in cleaner.todo
  /\ cleaner' = IF s \in cleaner.old
                THEN [cleaner EXCEPT !.pc = "close", !.victim = s]
                ELSE Swept(cleaner.todo \ {s})
  /\ UNCHANGED <<closed, bootVars, registry, open, finishing, streamVars, stale, gone,
                 shutdown, answers>>

CleanerCloses ==
  /\ cleaner.pc = "close"
  /\ Close(cleaner.victim)
  /\ cleaner' = Swept(cleaner.todo \ {cleaner.victim})
  /\ UNCHANGED <<closed, bootVars, registry, streamVars, gone, shutdown, answers>>

CleanerStops ==
  /\ cleaner.pc = "idle"
  /\ closed
  /\ cleaner' = [cleaner EXCEPT !.pc = "done"]
  /\ UNCHANGED <<closed, bootVars, registry, open, finishing, streamVars, stale, gone,
                 shutdown, answers>>

-----------------------------------------------------------------------------
(* Shutdown.  A second call finds m.closed, changes nothing and waits only *)
(* for the cleanup loop (manager.go:347-351): it may return before the     *)
(* first, and its return is not modelled.                                  *)

ShutdownStarts ==
  /\ ~closed
  /\ closed' = TRUE
  /\ shutdown' = [pc |-> "closing", todo |-> sessions, snapshot |-> sessions]
  /\ UNCHANGED <<bootVars, registry, open, finishing, streamVars, stale, gone, cleaner,
                 answers>>

ShutdownCloses_notifies(s) ==
  /\ shutdown.pc = "closing"
  /\ s \in shutdown.todo
  /\ shutdown' = [shutdown EXCEPT !.todo = @ \ {s}]
  /\ UNCHANGED <<closed, bootVars, registry, open, finishing, streamVars, stale, gone, cleaner, answers>>

ShutdownCloses(s) ==
  /\ shutdown.pc = "closing"
  /\ s \in shutdown.todo
  /\ Close(s)
  /\ shutdown' = [shutdown EXCEPT !.todo = @ \ {s}]
  /\ UNCHANGED <<closed, bootVars, registry, streamVars, gone, cleaner, answers>>

ShutdownClosed_noWait ==
  /\ shutdown.pc = "closing"
  /\ shutdown.todo = {}
  /\ shutdown' = [shutdown EXCEPT !.pc = "waiting", !.todo = {}]
  /\ UNCHANGED <<closed, bootVars, registry, open, finishing, streamVars, stale, gone,
                 cleaner, answers>>

ShutdownClosed ==
  /\ shutdown.pc = "closing"
  /\ shutdown.todo = {}
  /\ shutdown' = [shutdown EXCEPT !.pc = "waiting", !.todo = shutdown.snapshot]
  /\ UNCHANGED <<closed, bootVars, registry, open, finishing, streamVars, stale, gone,
                 cleaner, answers>>

Running(s) == {x \in Backends : backends[x].stage # "none" /\ backends[x].session = s}

(* wait() of one session after the other.                                  *)
ShutdownWaits(s) ==
  /\ shutdown.pc = "waiting"
  /\ s \in shutdown.todo
  /\ Running(s) = {}
  /\ shutdown' = [shutdown EXCEPT !.todo = @ \ {s}]
  /\ UNCHANGED <<closed, bootVars, registry, open, finishing, streamVars, stale, gone,
                 cleaner, answers>>

ShutdownReturns ==
  /\ shutdown.pc = "waiting"
  /\ shutdown.todo = {}
  /\ cleaner.pc = "done"
  /\ shutdown' = [shutdown EXCEPT !.pc = "returned"]
  /\ UNCHANGED <<closed, bootVars, registry, open, finishing, streamVars, stale, gone,
                 cleaner, answers>>

-----------------------------------------------------------------------------
BootstrapStep ==
  \/ TimePasses \/ BootstrapRefused
  \/ \E ip \in IPs, p \in Profiles : IssueBootstrap(ip, p)

CreateStep ==
  \E b \in BootIds : CreateAgain(b) \/ \E ip \in IPs : Create(b, ip)

SessionStep ==
  \E s \in SessionIds : \/ SessionCloses(s) \/ SessionFinished(s)
                        \/ FallsSilent(s) \/ Touch(s) \/ ClientLeaves(s)

StreamStep ==
  \E x \in Backends : \/ \E s \in SessionIds : OpenStream(x, s)
                      \/ BackendDialFinished(x) \/ StreamFinished(x) \/ BackendDone(x)

Cleaner ==
  CleanerTicks \/ CleanerCloses \/ CleanerStops \/ \E s \in SessionIds : CleanerChecks(s)

Shutdown ==
  \/ ShutdownStarts \/ ShutdownClosed \/ ShutdownReturns
  \/ \E s \in SessionIds : ShutdownCloses(s) \/ ShutdownWaits(s)

Next == BootstrapStep \/ CreateStep \/ SessionStep \/ StreamStep \/ Cleaner \/ Shutdown

Spec == Init /\ [][Next]_vars

(***************************************************************************)
(* Goroutines run, the cleanup ticker fires and a silence lasts.  A dial   *)
(* ends by its timeout, and a backend whose session is closed winds down   *)
(* (BackendsWindDown of MuxLiveness); one of an open session need not.     *)
(* cleanupLoop's select chooses at random between a tick and the stop, so  *)
(* that the stop is not passed over for ever: strong fairness.             *)
(***************************************************************************)
EndOfClosed(x) == backends[x].session \notin open /\ StreamFinished(x)

SilenceOfGone(s) == s \in gone /\ FallsSilent(s)

Fairness ==
  /\ \A s \in SessionIds : WF_vars(SessionFinished(s)) /\ WF_vars(SilenceOfGone(s))
  /\ \A x \in Backends : /\ WF_vars(BackendDialFinished(x)) /\ WF_vars(EndOfClosed(x))
                         /\ WF_vars(BackendDone(x))
  /\ WF_vars(Cleaner) /\ SF_vars(CleanerStops)
  /\ WF_vars(ShutdownClosed \/ ShutdownReturns
             \/ \E s \in SessionIds : ShutdownCloses(s) \/ ShutdownWaits(s))

FairSpec == Spec /\ Fairness

-----------------------------------------------------------------------------
Dialing == {x \in Backends : backends[x].stage = "dialing"}

Live == {x \in Backends : backends[x].stage \in {"dialing", "running"}}

(* Every counter the manager compares with a limit is the number of what   *)
(* it counts: nothing is counted twice, leaked, or taken off the wrong     *)
(* address or profile (manager.go:143-577).  In particular the counters of *)
(* streams and dials are positive whenever a goroutine takes one off, so   *)
(* that backendDialFinished and streamFinished never panic.                *)
CountersExact ==
  /\ \A ip \in IPs :
       /\ bootstrapsPerIP[ip] =
            Cardinality({b \in Unused(bootstraps) : bootstraps[b].ip = ip})
       /\ sessionsPerIP[ip] = Cardinality({s \in sessions : info[s].ip = ip})
  /\ \A p \in Profiles :
       /\ sessionsPerProfile[p] = Cardinality({s \in sessions : info[s].profile = p})
       /\ streamsPerProfile[p] = Cardinality({x \in Live : ProfileOf(x) = p})
       /\ dialsPerProfile[p] = Cardinality({x \in Dialing : ProfileOf(x) = p})
  /\ streamsLive = Cardinality(Live)
  /\ backendDialsInFlight = Cardinality(Dialing)

(* However many creations a page repeats, and whenever they arrive, its    *)
(* bootstrap makes one session (manager.go:204-213).                       *)
OneSessionPerBootstrap ==
  \A b \in BootIds : Cardinality(answers[b]) <= 1

(* A bootstrap that made a session is kept exactly as long as its session  *)
(* is registered and it has not expired: a repeated creation is answered   *)
(* as before, never with a session that the relay has forgotten, and       *)
(* neither eviction nor cleanup gets in between (manager.go:394-398,       *)
(* 525-540).                                                               *)
UsedBootstrapsKept ==
  /\ \A b \in BootIds : bootstraps[b].st = "used" => bootstraps[b].session \in sessions
  /\ \A s \in sessions : LET b == info[s].bootstrap
                         IN  b > expired => bootstraps[b].st = "used"
                                            /\ bootstraps[b].session = s

(* A registered session is open or its end is about to be reported: no     *)
(* place in the registry is lost (session.go:1446-1450).                   *)
NoLostPlace == sessions = open \cup finishing

(* When Shutdown returns, the sessions it found are closed and none of     *)
(* their goroutines runs (manager.go:345-366).                             *)
ShutdownLeavesNothing ==
  shutdown.pc = "returned" => /\ open = {}
                              /\ \A s \in shutdown.snapshot : Running(s) = {}

(* No goroutine of a backend is left when Shutdown has returned            *)
(* (PLAN.md:937).                                                          *)
NoLingeringGoroutine ==
  shutdown.pc = "returned" => \A x \in Backends : backends[x].stage = "none"

(* Shutdown returns, whatever the cleanup loop and the backends are doing. *)
ShutdownEnds == closed ~> shutdown.pc = "returned"

(* What Shutdown does not wait for ends all the same, for good: a batch    *)
(* whose OPENs were admitted before, a dial that answers late, callbacks   *)
(* of sessions it found closed.  After it the relay holds no session,      *)
(* stream, dial or goroutine, and its counters say so (manager.go:345-366, *)
(* 409, 440-469).                                                          *)
Drained ==
  /\ sessions = {} /\ streamsLive = 0 /\ backendDialsInFlight = 0
  /\ \A x \in Backends : backends[x].stage = "none"

ShutdownDrains == closed ~> []Drained

(* A session whose client has left gives its place back (manager.go:617).  *)
AbandonedReclaimed ==
  \A s \in SessionIds : s \in gone ~> s \notin sessions

=============================================================================
