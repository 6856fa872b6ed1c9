--------------------------- MODULE HysteriaGuard ---------------------------
(***************************************************************************)
(* The UDP session manager of one Hysteria connection of the patched Xray  *)
(* core: the guard of src/xray_patch/hysteria_memory_guard.go and the code *)
(* patch_xray.py puts into the upstream conn.go.                           *)
(*                                                                         *)
(* The model is at the level of the two locks: the manager's RWMutex and   *)
(* the mutex of each InterConn.  Its goroutines are the feeder (receives   *)
(* the datagrams of the QUIC connection and closes the manager at its      *)
(* end), the cleaner (one ticker loop) and the users (dispatcher           *)
(* goroutines which read, write and close sessions).  Two operations of    *)
(* one goroutine are one step only when a lock makes them indivisible.     *)
(***************************************************************************)
EXTENDS Integers, FiniteSets, UdpIdleTimeout

CONSTANTS
    Ids,        \* UDP session ids, chosen by the peer
    Conns,      \* *InterConn pointers, each allocated at most once
    Users,      \* dispatcher goroutines
    Seconds,    \* udpIdleTimeout of the configuration
    EnvCap,     \* XRAY_HYSTERIA_UDP_IDLE_CAP, 0 when it is not set
    ChanSize,   \* udpMessageChanSize
    MaxTime,    \* bound on the clock
    Nil, Feeder, Cleaner

ASSUME GuardAssumption ==
    /\ Seconds \in Int64
    /\ EnvCap \in Int64
    /\ ChanSize \in Nat \ {0}
    /\ MaxTime \in Nat

ASSUME NameAssumption ==
    /\ Nil \notin Ids \cup Conns \cup Users \cup {Feeder, Cleaner}
    /\ Feeder \notin Users
    /\ Cleaner \notin Users
    /\ Feeder # Cleaner

\* The cap and the timeout of every session, in the unit of the clock.
Cap == hysteriaCleanerUDPIdleCap(EnvCap)

Timeout == configuredHysteriaUDPIdleTimeoutSeconds(Seconds, Cap)

VARIABLES
    now,        \* the wall clock
    m,          \* m.m: id -> open session or Nil
    mclosed,    \* m.closed
    connId,     \* InterConn.id, Nil before allocation
    time,       \* InterConn.time, last activity
    closed,     \* InterConn.closed, and its channel
    queue,      \* number of datagrams buffered in InterConn.ch
    wlock,      \* goroutine that holds the manager lock for writing, or Nil
    rlock,      \* the cleaner holds the manager lock for reading
    mutex,      \* InterConn.mutex: a user inside Write, or Nil
    feeder,     \* pc of the feeder
    feedId,     \* id of the datagram being fed
    cleaner,    \* pc of the cleaner
    cleanNow,   \* the time the cleaner compares with
    toScan,     \* sessions the scan has not looked at
    expired,    \* timeoutConn: sessions to recheck
    current,    \* the session under recheck
    user,       \* pc of each user
    userConn    \* session each user works on

connVars    == <<connId, time, closed, queue>>
feedVars    == <<feeder, feedId>>
cleanVars   == <<cleaner, cleanNow, toScan, expired, current>>
userVars    == <<user, userConn>>
vars == <<now, m, mclosed, connVars, wlock, rlock, mutex, feedVars, cleanVars,
          userVars>>

TypeOK ==
    /\ now \in 0..MaxTime
    /\ m \in [Ids -> Conns \cup {Nil}]
    /\ mclosed \in BOOLEAN
    /\ connId \in [Conns -> Ids \cup {Nil}]
    /\ time \in [Conns -> 0..MaxTime]
    /\ closed \in [Conns -> BOOLEAN]
    /\ queue \in [Conns -> 0..ChanSize]
    /\ wlock \in Users \cup {Feeder, Cleaner, Nil}
    /\ rlock \in BOOLEAN
    /\ mutex \in [Conns -> Users \cup {Nil}]
    /\ feeder \in {"recv", "lock", "feed", "send", "end", "ending", "exit"}
    /\ feedId \in Ids \cup {Nil}
    /\ cleaner \in {"wait", "scan", "lock", "recheck", "exit"}
    /\ cleanNow \in 0..MaxTime
    /\ toScan \subseteq Conns
    /\ expired \subseteq Conns
    /\ current \in Conns \cup {Nil}
    /\ user \in [Users -> {"idle", "write", "close", "closing"}]
    /\ userConn \in [Users -> Conns \cup {Nil}]

Init ==
    /\ now = 0
    /\ m = [i \in Ids |-> Nil]
    /\ mclosed = FALSE
    /\ connId = [c \in Conns |-> Nil]
    /\ time = [c \in Conns |-> 0]
    /\ closed = [c \in Conns |-> FALSE]
    /\ queue = [c \in Conns |-> 0]
    /\ wlock = Nil
    /\ rlock = FALSE
    /\ mutex = [c \in Conns |-> Nil]
    /\ feeder = "recv"
    /\ feedId = Nil
    /\ cleaner = "wait"
    /\ cleanNow = 0
    /\ toScan = {}
    /\ expired = {}
    /\ current = Nil
    /\ user = [u \in Users |-> "idle"]
    /\ userConn = [u \in Users |-> Nil]

Allocated(c) == connId[c] # Nil

ActivityExpired(t, at) == hysteriaUDPActivityExpired(at - t, Timeout)

\* The manager lock is free for a writer.
Unlocked == wlock = Nil /\ ~rlock

Tick ==
    /\ now < MaxTime
    /\ now' = now + 1
    /\ UNCHANGED <<m, mclosed, connVars, wlock, rlock, mutex, feedVars,
                   cleanVars, userVars>>

-----------------------------------------------------------------------------
(* Closing a session.  The caller holds the manager write lock and the     *)
(* session's mutex; the entry is deleted by id.                            *)

(* An operator marked "Bug:" is a plausible mistake in the code; it replaces *)
(* the definition after it only to show that some property notices.        *)

\* Bug: the entry stays in the map.
CloseKeepsEntry(c) ==
    IF closed[c]
    THEN UNCHANGED <<m, closed, queue>>
    ELSE /\ closed' = [closed EXCEPT ![c] = TRUE]
         /\ queue' = [queue EXCEPT ![c] = 0]
         /\ UNCHANGED m

CloseSessionLocked(c) ==
    IF closed[c]
    THEN UNCHANGED <<m, closed, queue>>
    ELSE /\ closed' = [closed EXCEPT ![c] = TRUE]
         /\ queue' = [queue EXCEPT ![c] = 0]
         /\ m' = [m EXCEPT ![connId[c]] = Nil]

-----------------------------------------------------------------------------
(* The feeder: udpSessionManager.feed under the manager write lock.        *)

Receive(i) ==
    /\ feeder = "recv"
    /\ feeder' = "lock"
    /\ feedId' = i
    /\ UNCHANGED <<now, m, mclosed, connVars, wlock, rlock, mutex, cleanVars,
                   userVars>>

FeedLock ==
    /\ feeder = "lock"
    /\ Unlocked
    /\ wlock' = Feeder
    /\ feeder' = "feed"
    /\ UNCHANGED <<now, m, mclosed, connVars, rlock, mutex, feedId, cleanVars,
                   userVars>>

\* Bug: the manager is unlocked before the send.
FeedUpdateUnlocks ==
    /\ feeder = "feed"
    /\ m[feedId] # Nil
    /\ mutex[m[feedId]] = Nil
    /\ time' = [time EXCEPT ![m[feedId]] = now]
    /\ feeder' = "send"
    /\ wlock' = Nil
    /\ UNCHANGED <<now, m, mclosed, connId, closed, queue, rlock, mutex,
                   feedId, cleanVars, userVars>>

\* A known session: Update (which takes the session's mutex) counts arrival.
FeedUpdate ==
    /\ feeder = "feed"
    /\ m[feedId] # Nil
    /\ mutex[m[feedId]] = Nil
    /\ time' = [time EXCEPT ![m[feedId]] = now]
    /\ feeder' = "send"
    /\ UNCHANGED <<now, m, mclosed, connId, closed, queue, wlock, rlock,
                   mutex, feedId, cleanVars, userVars>>

\* Bug: no bound on the queue.
FeedSendUnbounded ==
    /\ feeder = "send"
    /\ queue' = [queue EXCEPT ![m[feedId]] = @ + 1]
    /\ feeder' = "recv"
    /\ feedId' = Nil
    /\ wlock' = Nil
    /\ UNCHANGED <<now, m, mclosed, connId, time, closed, rlock, mutex,
                   cleanVars, userVars>>

\* The non-blocking send: a datagram for a full queue is dropped.
FeedSend ==
    /\ feeder = "send"
    /\ LET c == m[feedId] IN
         queue' = [queue EXCEPT ![c] = IF @ < ChanSize THEN @ + 1 ELSE @]
    /\ feeder' = "recv"
    /\ feedId' = Nil
    /\ wlock' = Nil
    /\ UNCHANGED <<now, m, mclosed, connId, time, closed, rlock, mutex,
                   cleanVars, userVars>>

\* An unknown id, which an expired session may have had before.
FeedCreate(c) ==
    /\ feeder = "feed"
    /\ m[feedId] = Nil
    /\ ~Allocated(c)
    /\ m' = [m EXCEPT ![feedId] = c]
    /\ connId' = [connId EXCEPT ![c] = feedId]
    /\ time' = [time EXCEPT ![c] = now]
    /\ queue' = [queue EXCEPT ![c] = 1]
    /\ feeder' = "recv"
    /\ feedId' = Nil
    /\ wlock' = Nil
    /\ UNCHANGED <<now, mclosed, closed, rlock, mutex, cleanVars, userVars>>

\* Bound: with all pointers used up, a datagram for an unknown id is lost.
FeedLost ==
    /\ feeder = "feed"
    /\ m[feedId] = Nil
    /\ \A c \in Conns : Allocated(c)
    /\ feeder' = "recv"
    /\ feedId' = Nil
    /\ wlock' = Nil
    /\ UNCHANGED <<now, m, mclosed, connVars, rlock, mutex, cleanVars,
                   userVars>>

\* The QUIC connection ends: the manager closes itself and every session.
ConnectionEnds ==
    /\ feeder = "recv"
    /\ feeder' = "end"
    /\ UNCHANGED <<now, m, mclosed, connVars, wlock, rlock, mutex, feedId,
                   cleanVars, userVars>>

EndLock ==
    /\ feeder = "end"
    /\ Unlocked
    /\ wlock' = Feeder
    /\ mclosed' = TRUE
    /\ feeder' = "ending"
    /\ UNCHANGED <<now, m, connVars, rlock, mutex, feedId, cleanVars,
                   userVars>>

EndClose(c) ==
    /\ feeder = "ending"
    /\ \E i \in Ids : m[i] = c
    /\ mutex[c] = Nil
    /\ CloseSessionLocked(c)
    /\ UNCHANGED <<now, mclosed, connId, time, wlock, rlock, mutex, feedVars,
                   cleanVars, userVars>>

EndUnlock ==
    /\ feeder = "ending"
    /\ \A i \in Ids : m[i] = Nil
    /\ feeder' = "exit"
    /\ wlock' = Nil
    /\ UNCHANGED <<now, m, mclosed, connVars, rlock, mutex, feedId, cleanVars,
                   userVars>>

FeedStep ==
    \/ FeedLock \/ FeedUpdate \/ FeedSend \/ FeedLost \/ EndLock \/ EndUnlock
    \/ \E c \in Conns : FeedCreate(c) \/ EndClose(c)

-----------------------------------------------------------------------------
(* Users of a session: InterConn.Read, Write and Close.                    *)

Read(c) ==
    /\ queue[c] > 0
    /\ queue' = [queue EXCEPT ![c] = @ - 1]
    /\ UNCHANGED <<now, m, mclosed, connId, time, closed, wlock, rlock, mutex,
                   feedVars, cleanVars, userVars>>

\* Write takes the session's mutex, finds the session open and calls c.write,
\* which may block on the QUIC connection.
WriteBegin(u, c) ==
    /\ user[u] = "idle"
    /\ Allocated(c)
    /\ mutex[c] = Nil
    /\ ~closed[c]
    /\ mutex' = [mutex EXCEPT ![c] = u]
    /\ user' = [user EXCEPT ![u] = "write"]
    /\ userConn' = [userConn EXCEPT ![u] = c]
    /\ UNCHANGED <<now, m, mclosed, connVars, wlock, rlock, feedVars,
                   cleanVars>>

WriteReturns(u, ok) ==
    /\ user[u] = "write"
    /\ LET c == userConn[u] IN
         /\ time' = IF ok THEN [time EXCEPT ![c] = now] ELSE time
         /\ mutex' = [mutex EXCEPT ![c] = Nil]
    /\ user' = [user EXCEPT ![u] = "idle"]
    /\ userConn' = [userConn EXCEPT ![u] = Nil]
    /\ UNCHANGED <<now, m, mclosed, connId, closed, queue, wlock, rlock,
                   feedVars, cleanVars>>

\* Bug: the session's mutex is taken before the manager lock.
CloseTakesMutexFirst(u, c) ==
    /\ user[u] = "idle"
    /\ Allocated(c)
    /\ mutex[c] = Nil
    /\ mutex' = [mutex EXCEPT ![c] = u]
    /\ user' = [user EXCEPT ![u] = "close"]
    /\ userConn' = [userConn EXCEPT ![u] = c]
    /\ UNCHANGED <<now, m, mclosed, connVars, wlock, rlock, feedVars, cleanVars>>

Close(u, c) ==
    /\ user[u] = "idle"
    /\ Allocated(c)
    /\ user' = [user EXCEPT ![u] = "close"]
    /\ userConn' = [userConn EXCEPT ![u] = c]
    /\ UNCHANGED <<now, m, mclosed, connVars, wlock, rlock, mutex, feedVars,
                   cleanVars>>

CloseLock(u) ==
    /\ user[u] = "close"
    /\ Unlocked
    /\ wlock' = u
    /\ user' = [user EXCEPT ![u] = "closing"]
    /\ UNCHANGED <<now, m, mclosed, connVars, rlock, mutex, feedVars,
                   cleanVars, userConn>>

\* Bug: a session is closed without its mutex.
CloseWithoutMutex(u) ==
    /\ user[u] = "closing"
    /\ CloseSessionLocked(userConn[u])
    /\ wlock' = Nil
    /\ user' = [user EXCEPT ![u] = "idle"]
    /\ userConn' = [userConn EXCEPT ![u] = Nil]
    /\ UNCHANGED <<now, mclosed, connId, time, rlock, mutex, feedVars,
                   cleanVars>>

CloseSession(u) ==
    /\ user[u] = "closing"
    /\ mutex[userConn[u]] = Nil
    /\ CloseSessionLocked(userConn[u])
    /\ wlock' = Nil
    /\ user' = [user EXCEPT ![u] = "idle"]
    /\ userConn' = [userConn EXCEPT ![u] = Nil]
    /\ UNCHANGED <<now, mclosed, connId, time, rlock, mutex, feedVars,
                   cleanVars>>

\* What a user that has begun an operation goes on with.
UserStep(u) ==
    \/ \E ok \in BOOLEAN : WriteReturns(u, ok)
    \/ CloseLock(u)
    \/ CloseSession(u)

-----------------------------------------------------------------------------
(* The cleaner: scan under the read lock, recheck under the write lock.    *)

\* Bug: the cleaner does not look at m.closed.
CleanerTickForever ==
    /\ cleaner = "wait"
    /\ wlock = Nil
    /\ rlock' = TRUE
    /\ cleaner' = "scan"
    /\ cleanNow' = now
    /\ toScan' = {c \in Conns : \E i \in Ids : m[i] = c}
    /\ UNCHANGED <<now, m, mclosed, connVars, wlock, mutex, feedVars, expired,
                   current, userVars>>

CleanerTick ==
    /\ cleaner = "wait"
    /\ wlock = Nil
    /\ ~mclosed
    /\ rlock' = TRUE
    /\ cleaner' = "scan"
    /\ cleanNow' = now
    /\ toScan' = {c \in Conns : \E i \in Ids : m[i] = c}
    /\ UNCHANGED <<now, m, mclosed, connVars, wlock, mutex, feedVars, expired,
                   current, userVars>>

CleanerExit ==
    /\ cleaner = "wait"
    /\ wlock = Nil
    /\ mclosed
    /\ cleaner' = "exit"
    /\ UNCHANGED <<now, m, mclosed, connVars, wlock, rlock, mutex, feedVars,
                   cleanNow, toScan, expired, current, userVars>>

\* hysteriaUDPSessionExpired reads the activity through Time(), which takes
\* the session's mutex.
ScanSession(c) ==
    /\ cleaner = "scan"
    /\ c \in toScan
    /\ mutex[c] = Nil
    /\ toScan' = toScan \ {c}
    /\ expired' = IF ActivityExpired(time[c], cleanNow)
                  THEN expired \cup {c} ELSE expired
    /\ UNCHANGED <<now, m, mclosed, connVars, wlock, rlock, mutex, feedVars,
                   cleaner, cleanNow, current, userVars>>

ScanEnds ==
    /\ cleaner = "scan"
    /\ toScan = {}
    /\ rlock' = FALSE
    /\ cleaner' = IF expired = {} THEN "wait" ELSE "lock"
    /\ cleanNow' = 0
    /\ UNCHANGED <<now, m, mclosed, connVars, wlock, mutex, feedVars, toScan,
                   expired, current, userVars>>

RecheckLock(c) ==
    /\ cleaner = "lock"
    /\ c \in expired
    /\ Unlocked
    /\ wlock' = Cleaner
    /\ cleaner' = "recheck"
    /\ current' = c
    /\ expired' = expired \ {c}
    /\ cleanNow' = now
    /\ UNCHANGED <<now, m, mclosed, connVars, rlock, mutex, feedVars, toScan,
                   userVars>>

RecheckReturn ==
    /\ wlock' = Nil
    /\ cleaner' = IF expired = {} THEN "wait" ELSE "lock"
    /\ current' = Nil
    /\ cleanNow' = 0

\* The id belongs to another session by now, or to none.
RecheckStale ==
    /\ cleaner = "recheck"
    /\ m[connId[current]] # current
    /\ RecheckReturn
    /\ UNCHANGED <<now, m, mclosed, connVars, rlock, mutex, feedVars, toScan,
                   expired, userVars>>

RecheckActive ==
    /\ cleaner = "recheck"
    /\ m[connId[current]] = current
    /\ mutex[current] = Nil
    /\ ~ActivityExpired(time[current], cleanNow)
    /\ RecheckReturn
    /\ UNCHANGED <<now, m, mclosed, connVars, rlock, mutex, feedVars, toScan,
                   expired, userVars>>

\* Bug: the activity is not checked again.
RecheckTrustsScan ==
    /\ cleaner = "recheck"
    /\ m[connId[current]] = current
    /\ mutex[current] = Nil
    /\ CloseSessionLocked(current)
    /\ RecheckReturn
    /\ UNCHANGED <<now, mclosed, connId, time, rlock, mutex, feedVars, toScan,
                   expired, userVars>>

\* Bug: the recheck returns without closing.
RecheckLeaves ==
    /\ cleaner = "recheck"
    /\ mutex[current] = Nil
    /\ RecheckReturn
    /\ UNCHANGED <<now, m, mclosed, connVars, rlock, mutex, feedVars, toScan,
                   expired, userVars>>

RecheckClose ==
    /\ cleaner = "recheck"
    /\ m[connId[current]] = current
    /\ mutex[current] = Nil
    /\ ActivityExpired(time[current], cleanNow)
    /\ CloseSessionLocked(current)
    /\ RecheckReturn
    /\ UNCHANGED <<now, mclosed, connId, time, rlock, mutex, feedVars, toScan,
                   expired, userVars>>

CleanerStep ==
    \/ CleanerTick \/ CleanerExit \/ ScanEnds
    \/ RecheckStale \/ RecheckActive \/ RecheckClose
    \/ \E c \in Conns : ScanSession(c) \/ RecheckLock(c)

-----------------------------------------------------------------------------

Next ==
    \/ Tick
    \/ \E i \in Ids : Receive(i)
    \/ ConnectionEnds
    \/ FeedStep
    \/ CleanerStep
    \/ \E c \in Conns : Read(c)
    \/ \E u \in Users :
          (\E c \in Conns : WriteBegin(u, c) \/ Close(u, c)) \/ UserStep(u)

Spec == Init /\ [][Next]_vars

(***************************************************************************)
(* Go's mutexes starve nobody (a waiter of sync.Mutex gets it after 1 ms,  *)
(* a waiting writer of sync.RWMutex keeps later readers out), so taking a  *)
(* lock is strongly fair.  A write to the QUIC connection returns sooner   *)
(* or later (the connection has its own idle timeout).                     *)
(***************************************************************************)
Fairness ==
    /\ WF_vars(Tick)
    /\ SF_vars(FeedStep)
    /\ SF_vars(CleanerStep)
    /\ \A u \in Users : SF_vars(UserStep(u))

FairSpec == Spec /\ Fairness

-----------------------------------------------------------------------------
(* Safety.                                                                 *)

\* The map and the open sessions are the same thing: every open session is
\* registered under its own id and every registered session is open.  Deleting
\* by id therefore never removes a newer session, and no session leaks.
OpenIffRegistered ==
    \A c \in Conns :
        (Allocated(c) /\ ~closed[c]) <=> (\E i \in Ids : m[i] = c /\ connId[c] = i)

\* The feeder never sends on a closed channel (a panic in Go), though it looks the
\* session up, counts its activity and sends in separate steps.
NoSendOnClosed ==
    feeder = "send" => m[feedId] # Nil /\ ~closed[m[feedId]]

\* A datagram or a completed write near the boundary wins over cleanup: when
\* the cleaner closes a session, it has really been inactive for longer than
\* the timeout and the grace, although scan and recheck use older clocks.
ActivityWins ==
    [][\A c \in Conns : closed'[c] /\ ~closed[c] /\ cleaner = "recheck"
          /\ cleaner' # "recheck" => now - time[c] > Timeout + Grace]_vars

\* A session expires when the configuration says, whatever value the panel has
\* sent: no overflow makes a long timeout a short one or one that never ends.
ExpiryIsExact ==
    \A seconds \in Int64, cap \in {0, Cap}, last \in (now - Largest)..now :
        ExactAt(seconds, cap, now - last)

\* Nobody closes a session in the middle of a write to it.
NoCloseDuringWrite ==
    [][\A c \in Conns : closed'[c] /\ ~closed[c] => mutex[c] = Nil]_vars

\* Released memory: a closed session holds no buffered payload.
ClosedIsDrained == \A c \in Conns : closed[c] => queue[c] = 0

Goroutines == Users \cup {Feeder, Cleaner}

WantsManager(g) ==
    \/ g = Feeder /\ feeder \in {"lock", "end"}
    \/ g = Cleaner /\ cleaner \in {"wait", "lock"}
    \/ g \in Users /\ user[g] = "close"

WantsMutex(g, c) ==
    \/ g = Feeder /\ feeder = "feed" /\ m[feedId] = c
    \/ g = Feeder /\ feeder = "ending" /\ \E i \in Ids : m[i] = c
    \/ g = Cleaner /\ cleaner = "scan" /\ c \in toScan
    \/ g = Cleaner /\ cleaner = "recheck" /\ current = c
    \/ g \in Users /\ user[g] = "closing" /\ userConn[g] = c

WaitsFor(g, h) ==
    \/ WantsManager(g) /\ (wlock = h \/ (rlock /\ h = Cleaner))
    \/ \E c \in Conns : WantsMutex(g, c) /\ mutex[c] = h

\* No deadlock: who waits for the manager lock waits for somebody who waits, at
\* most, for a Write to return, and a Write waits for the network only.  Chains of
\* waiting have no third link, so there is no cycle; nor does anybody return with
\* the lock, which he would wait for himself when he needs it again.
NoLockCycle ==
    \A f, g, h, k \in Goroutines :
        WaitsFor(f, g) /\ WaitsFor(g, h) => ~WaitsFor(h, k)

\* Once the manager has closed itself no session is open, and the cleaner
\* will not find one.
ManagerCloseReleasesAll ==
    feeder = "exit" => \A c \in Conns : Allocated(c) => closed[c]

(* Liveness.                                                               *)

\* An inactive session is released.
InactiveIsReleased ==
    \A c \in Conns :
        (Allocated(c) /\ now - time[c] > Timeout + Grace)
            ~> (closed[c] \/ now - time[c] <= Timeout + Grace)

\* After the end of the connection the cleaner goroutine ends as well.
CleanerTerminates == (feeder = "exit") ~> (cleaner = "exit")

-----------------------------------------------------------------------------
(* What a comment says, and the code does not keep.                        *)

\* The cleaner holds the manager lock and waits for the mutex of session c.
CleanerWaitsFor(c) ==
    /\ mutex[c] # Nil
    /\ \/ cleaner = "scan" /\ toScan = {c}
       \/ cleaner = "recheck" /\ current = c

\* The comment in the patched Write: holding the session's mutex during the
\* write never blocks unrelated sessions.  Then no datagram of another session
\* would wait for the manager lock while its holder waits for this mutex.
WriteBlocksOnlyItsSession ==
    \A c \in Conns :
        feeder = "lock" /\ CleanerWaitsFor(c) => feedId = connId[c]
=============================================================================
