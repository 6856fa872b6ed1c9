------------------------ MODULE HysteriaGuardProofs ------------------------
(***************************************************************************)
(* Theorems about HysteriaGuard, for any sets of ids, sessions and users,  *)
(* any configuration of the timeout and any queue length.                  *)
(***************************************************************************)
EXTENDS HysteriaGuard, UdpIdleTimeoutProofs, TLAPS

USE DEF vars, connVars, feedVars, cleanVars, userVars

-----------------------------------------------------------------------------
(* The inductive invariant.                                                *)

\* Each lock is held by the goroutine whose control state says so.
LockInv ==
    /\ wlock = Feeder <=> feeder \in {"feed", "send", "ending"}
    /\ wlock = Cleaner <=> cleaner = "recheck"
    /\ \A u \in Users : wlock = u <=> user[u] = "closing"
    /\ rlock <=> cleaner = "scan"
    /\ rlock => wlock = Nil

\* A registered session is registered under its own id.
MapInv == \A i \in Ids : m[i] # Nil => connId[m[i]] = i

\* Whoever works on a session works on an allocated one.
AllocInv ==
    /\ feeder \in {"lock", "feed", "send"} => feedId \in Ids
    /\ \A u \in Users :
          user[u] # "idle" => userConn[u] \in Conns /\ Allocated(userConn[u])
    /\ \A c \in toScan \cup expired : Allocated(c)
    /\ cleaner = "recheck" => current \in Conns /\ Allocated(current)
    /\ \A c \in Conns : closed[c] => Allocated(c)

CleanNowInv == cleanNow <= now

IInv ==
    /\ TypeOK
    /\ LockInv
    /\ MapInv
    /\ AllocInv
    /\ OpenIffRegistered
    /\ NoSendOnClosed
    /\ ClosedIsDrained
    /\ ManagerCloseReleasesAll
    /\ CleanNowInv

-----------------------------------------------------------------------------
(* The map and the sessions.                                               *)

\* The operations that close a session, and the lock each of them holds.
Closing(c) ==
    \/ feeder = "ending" /\ EndClose(c)
    \/ \E u \in Users : user[u] = "closing" /\ c = userConn[u] /\ CloseSession(u)
    \/ c = current /\ RecheckClose

\* Only a new session and a closing one change the map.
LEMMA SessionChanges ==
    ASSUME IInv, [Next]_vars
    PROVE  \/ UNCHANGED <<m, connId, closed>>
           \/ \E c \in Conns : FeedCreate(c)
           \/ \E c \in Conns : Closing(c)
  <1>1. ASSUME NEW u \in Users, CloseSession(u)
        PROVE  \E c \in Conns : Closing(c)
    <2>1. userConn[u] \in Conns /\ user[u] = "closing"
      BY <1>1 DEF IInv, AllocInv, CloseSession
    <2> QED
      BY <1>1, <2>1 DEF Closing
  <1>2. CASE RecheckClose
    <2>1. current \in Conns
      BY <1>2 DEF IInv, AllocInv, RecheckClose
    <2> QED
      BY <1>2, <2>1 DEF Closing
  <1>3. ASSUME NEW c \in Conns, EndClose(c)
        PROVE  Closing(c)
    BY <1>3 DEF Closing, EndClose
  <1> QED
    BY <1>1, <1>2, <1>3
    DEF Next, Tick, Receive, ConnectionEnds, FeedStep, FeedLock, FeedUpdate,
        FeedSend, FeedLost, EndLock, EndUnlock, CleanerStep, CleanerTick,
        CleanerExit, ScanEnds, ScanSession, RecheckLock, RecheckStale,
        RecheckActive, Read, WriteBegin, Close, UserStep, WriteReturns,
        CloseLock

\* What closing does to the map and to the sessions.
LEMMA ClosingEffect ==
    ASSUME IInv, NEW c \in Conns, Closing(c)
    PROVE  /\ connId' = connId
           /\ Allocated(c)
           /\ CloseSessionLocked(c)
           /\ feeder # "send"
           /\ feeder' = feeder
  <1>1. CASE feeder = "ending" /\ EndClose(c)
    BY <1>1, NameAssumption
    DEF EndClose, IInv, MapInv, TypeOK, Allocated
  <1>2. ASSUME NEW u \in Users, user[u] = "closing", c = userConn[u],
               CloseSession(u)
        PROVE  /\ connId' = connId
               /\ Allocated(c)
               /\ CloseSessionLocked(c)
               /\ feeder # "send"
               /\ feeder' = feeder
    BY <1>2, NameAssumption DEF CloseSession, IInv, AllocInv, LockInv
  <1>3. CASE c = current /\ RecheckClose
    BY <1>3, NameAssumption
    DEF RecheckClose, RecheckReturn, IInv, AllocInv, LockInv
  <1> QED
    BY <1>1, <1>2, <1>3 DEF Closing

\* Closing takes one session, and no other, out of the map.
LEMMA ClosingRemovesOne ==
    ASSUME IInv, NEW c \in Conns, Closing(c)
    PROVE  \/ UNCHANGED <<m, closed, queue>>
           \/ /\ \A d \in Conns : closed'[d] = (d = c \/ closed[d])
              /\ \A d \in Conns : queue'[d] = IF d = c THEN 0 ELSE queue[d]
              /\ \A i \in Ids : m'[i] = IF m[i] = c THEN Nil ELSE m[i]
  <1> TypeOK /\ MapInv /\ OpenIffRegistered
    BY DEF IInv
  <1>1. Allocated(c) /\ CloseSessionLocked(c)
    BY ClosingEffect
  <1>2. CASE closed[c]
    BY <1>1, <1>2 DEF CloseSessionLocked
  <1>3. CASE ~closed[c]
    <2>1. PICK i \in Ids : m[i] = c /\ connId[c] = i
      BY <1>1, <1>3 DEF OpenIffRegistered
    <2>2. \A j \in Ids : m[j] = c <=> j = connId[c]
      BY <2>1, NameAssumption DEF MapInv
    <2>3. /\ closed' = [closed EXCEPT ![c] = TRUE]
          /\ queue' = [queue EXCEPT ![c] = 0]
          /\ m' = [m EXCEPT ![connId[c]] = Nil]
      BY <1>1, <1>3 DEF CloseSessionLocked
    <2>4. \A d \in Conns : closed'[d] = (d = c \/ closed[d])
      BY <2>3 DEF TypeOK
    <2>5. \A d \in Conns : queue'[d] = IF d = c THEN 0 ELSE queue[d]
      BY <2>3 DEF TypeOK
    <2>6. \A j \in Ids : m'[j] = IF m[j] = c THEN Nil ELSE m[j]
      BY <2>2, <2>3 DEF TypeOK
    <2> QED
      BY <2>4, <2>5, <2>6
  <1> QED
    BY <1>2, <1>3

\* A new session is open, and registered under an id nobody had.
LEMMA FeedCreateAddsOne ==
    ASSUME IInv, NEW c \in Conns, FeedCreate(c)
    PROVE  /\ feeder = "feed" /\ feedId \in Ids /\ m[feedId] = Nil
           /\ ~Allocated(c) /\ ~closed[c] /\ closed' = closed
           /\ \A d \in Conns : connId'[d] = IF d = c THEN feedId ELSE connId[d]
           /\ \A d \in Conns : queue'[d] = IF d = c THEN 1 ELSE queue[d]
           /\ \A i \in Ids : m'[i] = IF i = feedId THEN c ELSE m[i]
           /\ \A i \in Ids : m[i] # c
  <1> TypeOK /\ MapInv /\ AllocInv
    BY DEF IInv
  <1>1. feeder = "feed" /\ feedId \in Ids /\ m[feedId] = Nil
    BY DEF FeedCreate, AllocInv
  <1>2. ~Allocated(c) /\ ~closed[c] /\ closed' = closed
    BY DEF FeedCreate, AllocInv
  <1>3. \A d \in Conns : connId'[d] = IF d = c THEN feedId ELSE connId[d]
    BY DEF FeedCreate, TypeOK
  <1>4. \A d \in Conns : queue'[d] = IF d = c THEN 1 ELSE queue[d]
    BY DEF FeedCreate, TypeOK
  <1>5. \A i \in Ids : m'[i] = IF i = feedId THEN c ELSE m[i]
    BY DEF FeedCreate, TypeOK
  <1>6. \A i \in Ids : m[i] # c
    BY <1>2, NameAssumption DEF MapInv, Allocated
  <1> QED
    BY <1>1, <1>2, <1>3, <1>4, <1>5, <1>6

LEMMA ClosingType ==
    ASSUME TypeOK, NEW c \in Conns, Allocated(c), CloseSessionLocked(c)
    PROVE  /\ m' \in [Ids -> Conns \cup {Nil}]
           /\ closed' \in [Conns -> BOOLEAN]
           /\ queue' \in [Conns -> 0..ChanSize]
  <1> USE GuardAssumption DEF TypeOK
  <1>1. CASE closed[c]
    BY <1>1 DEF CloseSessionLocked
  <1>2. CASE ~closed[c]
    <2>1. 0 \in 0..ChanSize /\ connId[c] \in Ids
      BY DEF Allocated
    <2> QED
      BY <1>2, <2>1 DEF CloseSessionLocked
  <1> QED
    BY <1>1, <1>2

-----------------------------------------------------------------------------
(* One lemma per part of the invariant: every step preserves it.           *)

LEMMA TypeStep ==
    ASSUME IInv, [Next]_vars
    PROVE  TypeOK'
  <1> USE GuardAssumption, NameAssumption DEF TypeOK
  <1> TypeOK /\ AllocInv
    BY DEF IInv
  <1>1. CASE UNCHANGED vars
    BY <1>1
  <1>2. CASE Tick
    BY <1>2 DEF Tick
  <1>3. ASSUME NEW i \in Ids, Receive(i)
        PROVE  TypeOK'
    BY <1>3 DEF Receive
  <1>4. CASE ConnectionEnds \/ FeedLock \/ FeedLost \/ EndLock \/ EndUnlock
    BY <1>4 DEF ConnectionEnds, FeedLock, FeedLost, EndLock, EndUnlock
  <1>5. CASE FeedUpdate
    BY <1>5 DEF FeedUpdate
  <1>6. CASE FeedSend
    <2>1. m[feedId] \in Conns
      BY <1>6 DEF FeedSend, IInv, AllocInv, NoSendOnClosed
    <2>2. queue' \in [Conns -> 0..ChanSize]
      BY <1>6, <2>1 DEF FeedSend
    <2> QED
      BY <1>6, <2>2 DEF FeedSend
  <1>7. ASSUME NEW c \in Conns, FeedCreate(c)
        PROVE  TypeOK'
    <2>1. /\ m' \in [Ids -> Conns \cup {Nil}]
          /\ connId' \in [Conns -> Ids \cup {Nil}]
          /\ time' \in [Conns -> 0..MaxTime]
      BY <1>7 DEF FeedCreate
    <2>2. queue' \in [Conns -> 0..ChanSize]
      <3>1. 1 \in 0..ChanSize
        OBVIOUS
      <3> QED
        BY <1>7, <3>1 DEF FeedCreate
    <2> QED
      BY <1>7, <2>1, <2>2 DEF FeedCreate
  <1>8. ASSUME NEW c \in Conns, EndClose(c)
        PROVE  TypeOK'
    <2>1. Allocated(c)
      BY <1>8 DEF EndClose, IInv, MapInv, Allocated
    <2> QED
      BY <1>8, <2>1, ClosingType DEF EndClose
  <1>9. ASSUME NEW c \in Conns, Read(c)
        PROVE  TypeOK'
    BY <1>9 DEF Read
  <1>10. ASSUME NEW u \in Users, NEW c \in Conns, WriteBegin(u, c) \/ Close(u, c)
         PROVE  TypeOK'
    BY <1>10 DEF WriteBegin, Close
  <1>11. ASSUME NEW u \in Users, NEW ok \in BOOLEAN, WriteReturns(u, ok)
         PROVE  TypeOK'
    <2>1. userConn[u] \in Conns
      BY <1>11 DEF WriteReturns, AllocInv
    <2>2. time' \in [Conns -> 0..MaxTime] /\ mutex' \in [Conns -> Users \cup {Nil}]
      BY <1>11, <2>1 DEF WriteReturns
    <2> QED
      BY <1>11, <2>2 DEF WriteReturns
  <1>12. ASSUME NEW u \in Users, CloseLock(u)
         PROVE  TypeOK'
    BY <1>12 DEF CloseLock
  <1>13. ASSUME NEW u \in Users, CloseSession(u)
         PROVE  TypeOK'
    <2>1. userConn[u] \in Conns /\ Allocated(userConn[u])
      BY <1>13 DEF CloseSession, AllocInv
    <2>2. /\ m' \in [Ids -> Conns \cup {Nil}]
          /\ closed' \in [Conns -> BOOLEAN]
          /\ queue' \in [Conns -> 0..ChanSize]
      BY <1>13, <2>1, ClosingType DEF CloseSession
    <2> QED
      BY <1>13, <2>2 DEF CloseSession
  <1>14. CASE CleanerTick \/ CleanerExit \/ ScanEnds
    <2>1. 0 \in 0..MaxTime
      OBVIOUS
    <2> QED
      BY <1>14, <2>1 DEF CleanerTick, CleanerExit, ScanEnds
  <1>15. ASSUME NEW c \in Conns, ScanSession(c) \/ RecheckLock(c)
         PROVE  TypeOK'
    BY <1>15 DEF ScanSession, RecheckLock
  <1>16. CASE RecheckStale \/ RecheckActive
    BY <1>16 DEF RecheckStale, RecheckActive, RecheckReturn
  <1>17. CASE RecheckClose
    <2>1. current \in Conns /\ Allocated(current)
      BY <1>17 DEF RecheckClose, AllocInv
    <2>2. /\ m' \in [Ids -> Conns \cup {Nil}]
          /\ closed' \in [Conns -> BOOLEAN]
          /\ queue' \in [Conns -> 0..ChanSize]
      BY <1>17, <2>1, ClosingType DEF RecheckClose
    <2>3. 0 \in 0..MaxTime
      OBVIOUS
    <2> QED
      BY <1>17, <2>2, <2>3 DEF RecheckClose, RecheckReturn
  <1> QED
    BY <1>1, <1>2, <1>3, <1>4, <1>5, <1>6, <1>7, <1>8, <1>9, <1>10, <1>11,
       <1>12, <1>13, <1>14, <1>15, <1>16, <1>17
    DEF Next, FeedStep, CleanerStep, UserStep

\* The cleaner never compares with a time in the future.
LEMMA CleanNowStep ==
    ASSUME IInv, [Next]_vars
    PROVE  CleanNowInv'
  <1> USE DEF CleanNowInv, TypeOK
  <1> TypeOK /\ CleanNowInv
    BY DEF IInv
  <1>1. CASE Tick
    BY <1>1, GuardAssumption DEF Tick
  <1>2. CASE CleanerTick \/ ScanEnds \/ RecheckStale \/ RecheckActive \/ RecheckClose
    BY <1>2, GuardAssumption
    DEF CleanerTick, ScanEnds, RecheckStale, RecheckActive, RecheckClose,
        RecheckReturn
  <1>3. ASSUME NEW c \in Conns, RecheckLock(c)
        PROVE  CleanNowInv'
    BY <1>3, GuardAssumption DEF RecheckLock
  <1> QED
    BY <1>1, <1>2, <1>3
    DEF Next, Receive, ConnectionEnds, FeedStep, FeedLock, FeedUpdate,
        FeedSend, FeedLost, EndLock, EndUnlock, FeedCreate, EndClose,
        CleanerStep, CleanerExit, ScanSession, Read, WriteBegin, Close,
        UserStep, WriteReturns, CloseLock, CloseSession

LEMMA LockStep ==
    ASSUME IInv, [Next]_vars
    PROVE  LockInv'
  <1> USE NameAssumption DEF LockInv, TypeOK
  <1> TypeOK /\ LockInv
    BY DEF IInv
  <1>1. CASE UNCHANGED vars
    BY <1>1
  <1>2. CASE Tick
    BY <1>2 DEF Tick
  <1>3. ASSUME NEW i \in Ids, Receive(i)
        PROVE  LockInv'
    BY <1>3 DEF Receive
  <1>4. CASE FeedLock \/ EndLock
    BY <1>4 DEF FeedLock, EndLock, Unlocked
  <1>5. CASE ConnectionEnds \/ FeedUpdate
    BY <1>5 DEF ConnectionEnds, FeedUpdate
  <1>6. CASE FeedSend \/ FeedLost \/ EndUnlock
    BY <1>6 DEF FeedSend, FeedLost, EndUnlock
  <1>7. ASSUME NEW c \in Conns, FeedCreate(c) \/ EndClose(c) \/ Read(c)
        PROVE  LockInv'
    BY <1>7 DEF FeedCreate, EndClose, Read
  <1>8. ASSUME NEW u \in Users, NEW c \in Conns, WriteBegin(u, c) \/ Close(u, c)
        PROVE  LockInv'
    BY <1>8 DEF WriteBegin, Close
  <1>9. ASSUME NEW u \in Users, NEW ok \in BOOLEAN, WriteReturns(u, ok)
        PROVE  LockInv'
    BY <1>9 DEF WriteReturns
  <1>10. ASSUME NEW u \in Users, CloseLock(u)
         PROVE  LockInv'
    BY <1>10 DEF CloseLock, Unlocked
  <1>11. ASSUME NEW u \in Users, CloseSession(u)
         PROVE  LockInv'
    BY <1>11 DEF CloseSession
  <1>12. CASE CleanerTick \/ CleanerExit \/ ScanEnds
    BY <1>12 DEF CleanerTick, CleanerExit, ScanEnds
  <1>13. ASSUME NEW c \in Conns, ScanSession(c) \/ RecheckLock(c)
         PROVE  LockInv'
    BY <1>13 DEF ScanSession, RecheckLock, Unlocked
  <1>14. CASE RecheckStale \/ RecheckActive \/ RecheckClose
    BY <1>14 DEF RecheckStale, RecheckActive, RecheckClose, RecheckReturn
  <1> QED
    BY <1>1, <1>2, <1>3, <1>4, <1>5, <1>6, <1>7, <1>8, <1>9, <1>10, <1>11,
       <1>12, <1>13, <1>14
    DEF Next, FeedStep, CleanerStep, UserStep

LEMMA MapStep ==
    ASSUME IInv, [Next]_vars
    PROVE  MapInv'
  <1> TypeOK /\ MapInv
    BY DEF IInv
  <1>1. CASE UNCHANGED <<m, connId, closed>>
    BY <1>1 DEF MapInv
  <1>2. ASSUME NEW c \in Conns, FeedCreate(c)
        PROVE  MapInv'
    <2>1. ASSUME NEW i \in Ids, m'[i] # Nil
          PROVE  connId'[m'[i]] = i
      BY <1>2, <2>1, FeedCreateAddsOne DEF MapInv, TypeOK
    <2> QED
      BY <2>1 DEF MapInv
  <1>3. ASSUME NEW c \in Conns, Closing(c)
        PROVE  MapInv'
    BY <1>3, ClosingEffect, ClosingRemovesOne DEF MapInv
  <1> QED
    BY <1>1, <1>2, <1>3, SessionChanges

LEMMA OpenStep ==
    ASSUME IInv, [Next]_vars
    PROVE  OpenIffRegistered'
  <1> TypeOK /\ MapInv /\ OpenIffRegistered
    BY DEF IInv
  <1>1. CASE UNCHANGED <<m, connId, closed>>
    BY <1>1 DEF OpenIffRegistered, Allocated
  <1>2. ASSUME NEW c \in Conns, FeedCreate(c)
        PROVE  OpenIffRegistered'
    <2> USE <1>2, FeedCreateAddsOne, NameAssumption
    <2>1. ASSUME NEW d \in Conns \ {c}
          PROVE  (\E i \in Ids : m'[i] = d /\ connId'[d] = i)
                    <=> (\E i \in Ids : m[i] = d /\ connId[d] = i)
      OBVIOUS
    <2>2. (Allocated(c) /\ ~closed[c])' /\ m'[feedId] = c /\ connId'[c] = feedId
      BY DEF Allocated
    <2> QED
      BY <2>1, <2>2 DEF OpenIffRegistered, Allocated
  <1>3. ASSUME NEW c \in Conns, Closing(c)
        PROVE  OpenIffRegistered'
    <2>1. connId' = connId
      BY <1>3, ClosingEffect
    <2>2. CASE UNCHANGED <<m, closed, queue>>
      BY <2>1, <2>2 DEF OpenIffRegistered, Allocated
    <2>3. CASE /\ \A d \in Conns : closed'[d] = (d = c \/ closed[d])
               /\ \A i \in Ids : m'[i] = IF m[i] = c THEN Nil ELSE m[i]
      <3>1. closed'[c] /\ \A i \in Ids : m'[i] # c
        BY <2>3, NameAssumption
      <3>2. ASSUME NEW d \in Conns \ {c}
            PROVE  /\ closed'[d] = closed[d]
                   /\ \A i \in Ids : m'[i] = d <=> m[i] = d
        BY <2>3, NameAssumption DEF TypeOK
      <3> QED
        BY <2>1, <3>1, <3>2 DEF OpenIffRegistered, Allocated
    <2> QED
      BY <1>3, <2>2, <2>3, ClosingRemovesOne
  <1> QED
    BY <1>1, <1>2, <1>3, SessionChanges

\* An allocated session stays allocated, a closed one stays closed.
LEMMA ForGood ==
    ASSUME IInv, [Next]_vars, NEW c \in Conns
    PROVE  (Allocated(c) => Allocated(c)') /\ (closed[c] => closed'[c])
  <1>1. CASE UNCHANGED <<m, connId, closed>>
    BY <1>1 DEF Allocated
  <1>2. ASSUME NEW d \in Conns, FeedCreate(d)
        PROVE  (Allocated(c) => Allocated(c)') /\ (closed[c] => closed'[c])
    BY <1>2, FeedCreateAddsOne DEF Allocated
  <1>3. ASSUME NEW d \in Conns, Closing(d)
        PROVE  (Allocated(c) => Allocated(c)') /\ (closed[c] => closed'[c])
    BY <1>3, ClosingEffect, ClosingRemovesOne DEF Allocated
  <1> QED
    BY <1>1, <1>2, <1>3, SessionChanges

LEMMA SendStep ==
    ASSUME IInv, [Next]_vars
    PROVE  NoSendOnClosed'
  <1> TypeOK /\ MapInv /\ AllocInv /\ OpenIffRegistered /\ NoSendOnClosed
    BY DEF IInv
  <1>1. CASE FeedUpdate
    <2>1. /\ feedId \in Ids /\ m[feedId] \in Conns /\ m[feedId] # Nil
          /\ connId[m[feedId]] = feedId
      BY <1>1 DEF FeedUpdate, AllocInv, TypeOK, MapInv
    <2>2. ~closed[m[feedId]]
      BY <2>1 DEF OpenIffRegistered
    <2> QED
      BY <1>1, <2>1, <2>2 DEF FeedUpdate, NoSendOnClosed
  <1>2. ASSUME feeder # "send", feeder' = "send"
        PROVE  FeedUpdate
    BY <1>2
    DEF Next, Tick, Receive, ConnectionEnds, FeedStep, FeedLock, FeedSend,
        FeedLost, EndLock, EndUnlock, FeedCreate, EndClose, CleanerStep,
        CleanerTick, CleanerExit, ScanEnds, ScanSession, RecheckLock,
        RecheckStale, RecheckActive, RecheckClose, Read, WriteBegin, Close,
        UserStep, WriteReturns, CloseLock, CloseSession
  <1>3. CASE feeder = "send" /\ feeder' = "send"
    <2>1. UNCHANGED <<m, connId, closed>>
      BY <1>3, SessionChanges, ClosingEffect, FeedCreateAddsOne
    <2>2. feedId' = feedId
      BY <1>3
      DEF Next, Tick, Receive, ConnectionEnds, FeedStep, FeedLock, FeedUpdate,
          FeedSend, FeedLost, EndLock, EndUnlock, FeedCreate, EndClose,
          CleanerStep, CleanerTick, CleanerExit, ScanEnds, ScanSession,
          RecheckLock, RecheckStale, RecheckActive, RecheckClose, Read,
          WriteBegin, Close, UserStep, WriteReturns, CloseLock, CloseSession
    <2> QED
      BY <1>3, <2>1, <2>2 DEF NoSendOnClosed
  <1> QED
    BY <1>1, <1>2, <1>3 DEF NoSendOnClosed

LEMMA AllocStep ==
    ASSUME IInv, [Next]_vars
    PROVE  AllocInv'
  <1> TypeOK /\ AllocInv
    BY DEF IInv
  <1>1. (feeder \in {"lock", "feed", "send"} => feedId \in Ids)'
    BY DEF AllocInv, vars, Next, Tick, Receive, ConnectionEnds, FeedStep,
           FeedLock, FeedUpdate, FeedSend, FeedLost, EndLock, EndUnlock,
           FeedCreate, EndClose, CleanerStep, CleanerTick, CleanerExit,
           ScanEnds, ScanSession, RecheckLock, RecheckStale, RecheckActive,
           RecheckClose, Read, WriteBegin, Close, UserStep, WriteReturns,
           CloseLock, CloseSession
  <1>2. ASSUME NEW u \in Users, user'[u] # "idle"
        PROVE  userConn'[u] \in Conns /\ connId'[userConn'[u]] # Nil
    <2>1. \/ userConn'[u] \in Conns /\ Allocated(userConn'[u])
          \/ user[u] # "idle" /\ userConn'[u] = userConn[u]
      <3>1. ASSUME NEW v \in Users, NEW c \in Conns,
                   WriteBegin(v, c) \/ Close(v, c)
            PROVE  \/ userConn'[u] \in Conns /\ Allocated(userConn'[u])
                   \/ user[u] # "idle" /\ userConn'[u] = userConn[u]
        BY <1>2, <3>1 DEF WriteBegin, Close, TypeOK
      <3>2. ASSUME NEW v \in Users,
                   \/ \E ok \in BOOLEAN : WriteReturns(v, ok)
                   \/ CloseLock(v) \/ CloseSession(v)
            PROVE  user[u] # "idle" /\ userConn'[u] = userConn[u]
        BY <1>2, <3>2 DEF WriteReturns, CloseLock, CloseSession, TypeOK
      <3>3. CASE UNCHANGED <<user, userConn>>
        BY <1>2, <3>3
      <3> QED
        BY <3>1, <3>2, <3>3
        DEF Next, Tick, Receive, ConnectionEnds, FeedStep, FeedLock,
            FeedUpdate, FeedSend, FeedLost, EndLock, EndUnlock, FeedCreate,
            EndClose, CleanerStep, CleanerTick, CleanerExit, ScanEnds,
            ScanSession, RecheckLock, RecheckStale, RecheckActive,
            RecheckClose, Read, UserStep
    <2>2. userConn'[u] \in Conns /\ Allocated(userConn'[u])
      BY <2>1 DEF AllocInv
    <2> QED
      BY <2>2, ForGood DEF Allocated
  <1>3. (\A c \in toScan \cup expired : Allocated(c))'
    <2>1. \A c \in toScan' \cup expired' : c \in Conns /\ Allocated(c)
      <3>1. CASE CleanerTick
        <4>1. \A c \in toScan' : c \in Conns /\ Allocated(c)
          BY <3>1, NameAssumption DEF CleanerTick, IInv, MapInv, Allocated
        <4> QED
          BY <3>1, <4>1 DEF CleanerTick, AllocInv, TypeOK
      <3>2. ASSUME NEW c \in Conns, ScanSession(c) \/ RecheckLock(c)
            PROVE  \A d \in toScan' \cup expired' : d \in Conns /\ Allocated(d)
        BY <3>2 DEF ScanSession, RecheckLock, AllocInv, TypeOK
      <3>3. CASE UNCHANGED <<toScan, expired>>
        BY <3>3 DEF AllocInv, TypeOK
      <3> QED
        BY <3>1, <3>2, <3>3
        DEF Next, Tick, Receive, ConnectionEnds, FeedStep, FeedLock,
            FeedUpdate, FeedSend, FeedLost, EndLock, EndUnlock, FeedCreate,
            EndClose, CleanerStep, CleanerExit, ScanEnds, RecheckStale,
            RecheckActive, RecheckClose, Read, WriteBegin, Close, UserStep,
            WriteReturns, CloseLock, CloseSession
    <2> QED
      BY <2>1, ForGood DEF Allocated
  <1>4. (cleaner = "recheck" => current \in Conns /\ Allocated(current))'
    <2>1. ASSUME cleaner' = "recheck"
          PROVE  current' \in Conns /\ Allocated(current')
      <3>1. ASSUME NEW c \in Conns, RecheckLock(c)
            PROVE  current' \in Conns /\ Allocated(current')
        BY <3>1 DEF RecheckLock, AllocInv
      <3>2. CASE cleaner = "recheck" /\ current' = current
        BY <3>2 DEF AllocInv
      <3> QED
        BY <2>1, <3>1, <3>2
        DEF Next, Tick, Receive, ConnectionEnds, FeedStep, FeedLock,
            FeedUpdate, FeedSend, FeedLost, EndLock, EndUnlock, FeedCreate,
            EndClose, CleanerStep, CleanerTick, CleanerExit, ScanEnds,
            ScanSession, RecheckStale, RecheckActive, RecheckClose,
            RecheckReturn, Read, WriteBegin, Close, UserStep, WriteReturns,
            CloseLock, CloseSession
    <2> QED
      BY <2>1, ForGood DEF Allocated
  <1>5. ASSUME NEW c \in Conns, closed'[c]
        PROVE  Allocated(c)'
    <2>1. ASSUME NEW d \in Conns, Closing(d)
          PROVE  Allocated(c)
      BY <1>5, <2>1, ClosingEffect, ClosingRemovesOne DEF AllocInv
    <2>2. CASE closed' = closed
      BY <1>5, <2>2, ForGood DEF AllocInv
    <2> QED
      BY <2>1, <2>2, ForGood, SessionChanges, FeedCreateAddsOne
  <1> QED
    BY <1>1, <1>2, <1>3, <1>4, <1>5 DEF AllocInv, Allocated

LEMMA DrainStep ==
    ASSUME IInv, [Next]_vars
    PROVE  ClosedIsDrained'
  <1> TypeOK /\ AllocInv /\ ClosedIsDrained
    BY DEF IInv
  <1>1. ASSUME NEW c \in Conns, Closing(c)
        PROVE  ClosedIsDrained'
    BY <1>1, ClosingRemovesOne DEF ClosedIsDrained
  <1>2. ASSUME NEW c \in Conns, FeedCreate(c)
        PROVE  ClosedIsDrained'
    BY <1>2, FeedCreateAddsOne DEF ClosedIsDrained
  <1>3. CASE FeedSend
    <2>1. m[feedId] \in Conns /\ ~closed[m[feedId]]
      BY <1>3 DEF FeedSend, IInv, NoSendOnClosed, AllocInv, TypeOK
    <2> QED
      BY <1>3, <2>1 DEF FeedSend, ClosedIsDrained, TypeOK
  <1>4. ASSUME NEW c \in Conns, Read(c)
        PROVE  ClosedIsDrained'
    BY <1>4 DEF Read, ClosedIsDrained, TypeOK
  <1>5. CASE UNCHANGED <<closed, queue>>
    BY <1>5 DEF ClosedIsDrained
  <1>6. \/ UNCHANGED <<closed, queue>> \/ FeedSend
        \/ \E c \in Conns : Read(c) \/ FeedCreate(c) \/ EndClose(c)
        \/ \E u \in Users : CloseSession(u)
        \/ RecheckClose
    BY DEF Next, Tick, Receive, ConnectionEnds, FeedStep, FeedLock, FeedUpdate,
           FeedLost, EndLock, EndUnlock, CleanerStep, CleanerTick, CleanerExit,
           ScanEnds, ScanSession, RecheckLock, RecheckStale, RecheckActive,
           WriteBegin, Close, UserStep, WriteReturns, CloseLock
  <1>7. ASSUME NEW u \in Users, CloseSession(u)
        PROVE  \E c \in Conns : Closing(c)
    BY <1>7 DEF CloseSession, Closing, AllocInv
  <1>8. RecheckClose => \E c \in Conns : Closing(c)
    BY DEF RecheckClose, Closing, AllocInv
  <1>9. \A c \in Conns : EndClose(c) => Closing(c)
    BY DEF EndClose, Closing
  <1> QED
    BY <1>1, <1>2, <1>3, <1>4, <1>5, <1>6, <1>7, <1>8, <1>9

LEMMA ManagerStep ==
    ASSUME IInv, [Next]_vars
    PROVE  ManagerCloseReleasesAll'
  <1> TypeOK /\ OpenIffRegistered /\ ManagerCloseReleasesAll
    BY DEF IInv
  <1>1. CASE EndUnlock
    <2>1. \A c \in Conns : Allocated(c) => closed[c]
      BY <1>1, NameAssumption DEF EndUnlock, OpenIffRegistered
    <2> QED
      BY <1>1, <2>1 DEF EndUnlock, ManagerCloseReleasesAll, Allocated
  <1>2. CASE feeder = "exit"
    <2>1. \A c \in Conns : ~FeedCreate(c)
      BY <1>2 DEF FeedCreate
    <2>2. connId' = connId
      BY <2>1, SessionChanges, ClosingEffect
    <2> QED
      BY <1>2, <2>2, ForGood DEF ManagerCloseReleasesAll, Allocated
  <1>3. feeder' = "exit" => feeder = "exit" \/ EndUnlock
    BY DEF Next, Tick, Receive, ConnectionEnds, FeedStep, FeedLock, FeedUpdate,
           FeedSend, FeedLost, EndLock, FeedCreate, EndClose, CleanerStep,
           CleanerTick, CleanerExit, ScanEnds, ScanSession, RecheckLock,
           RecheckStale, RecheckActive, RecheckClose, Read, WriteBegin, Close,
           UserStep, WriteReturns, CloseLock, CloseSession
  <1> QED
    BY <1>1, <1>2, <1>3 DEF ManagerCloseReleasesAll

-----------------------------------------------------------------------------

\* The inductive invariant holds in every reachable state.
THEOREM Invariance == Spec => []IInv
  <1>1. Init => IInv
    <2> SUFFICES ASSUME Init PROVE IInv
      OBVIOUS
    <2> USE GuardAssumption, NameAssumption DEF Init
    <2>1. TypeOK
      <3>1. 0 \in 0..MaxTime /\ 0 \in 0..ChanSize
        OBVIOUS
      <3> QED
        BY <3>1 DEF TypeOK
    <2>2. LockInv /\ MapInv /\ AllocInv
      BY DEF LockInv, MapInv, AllocInv
    <2>3. OpenIffRegistered /\ NoSendOnClosed /\ ClosedIsDrained
      BY DEF OpenIffRegistered, NoSendOnClosed, ClosedIsDrained, Allocated
    <2>4. ManagerCloseReleasesAll /\ CleanNowInv
      BY DEF ManagerCloseReleasesAll, CleanNowInv
    <2> QED
      BY <2>1, <2>2, <2>3, <2>4 DEF IInv
  <1>2. IInv /\ [Next]_vars => IInv'
    BY TypeStep, LockStep, MapStep, AllocStep, OpenStep, SendStep, DrainStep,
       ManagerStep, CleanNowStep
    DEF IInv
  <1> QED
    BY <1>1, <1>2, PTL DEF Spec

\* Type correctness of the manager, its sessions and its locks.
THEOREM TypeCorrect == Spec => []TypeOK
  <1>1. IInv => TypeOK
    BY DEF IInv
  <1> QED
    BY <1>1, Invariance, PTL

\* The map and the open sessions are the same thing: deletion by id never hits
\* a newer session, and no open session is out of the map.
THEOREM MapIsOpenSessions == Spec => []OpenIffRegistered
  <1>1. IInv => OpenIffRegistered
    BY DEF IInv
  <1> QED
    BY <1>1, Invariance, PTL

\* The feeder never sends on a closed channel, which would panic.
THEOREM SendsAreSafe == Spec => []NoSendOnClosed
  <1>1. IInv => NoSendOnClosed
    BY DEF IInv
  <1> QED
    BY <1>1, Invariance, PTL

\* A closed session holds no payload: nobody fills its channel afterwards.
THEOREM ClosedHoldsNothing == Spec => []ClosedIsDrained
  <1>1. IInv => ClosedIsDrained
    BY DEF IInv
  <1> QED
    BY <1>1, Invariance, PTL

\* When the manager has closed itself, all its sessions are closed.
THEOREM ManagerEndsClean == Spec => []ManagerCloseReleasesAll
  <1>1. IInv => ManagerCloseReleasesAll
    BY DEF IInv
  <1> QED
    BY <1>1, Invariance, PTL

\* A session's mutex is held by a user in the Write of that session.
MutexInv ==
    \A c \in Conns : mutex[c] # Nil => user[mutex[c]] = "write" /\ userConn[mutex[c]] = c

LEMMA MutexStep ==
    ASSUME IInv, MutexInv, [Next]_vars
    PROVE  MutexInv'
  <1> TypeOK /\ LockInv
    BY DEF IInv
  <1> USE DEF MutexInv, TypeOK
  <1>1. ASSUME NEW u \in Users, NEW c \in Conns, WriteBegin(u, c)
        PROVE  MutexInv'
    BY <1>1, NameAssumption DEF WriteBegin
  <1>2. ASSUME NEW u \in Users, NEW ok \in BOOLEAN, WriteReturns(u, ok)
        PROVE  MutexInv'
    BY <1>2, NameAssumption DEF WriteReturns
  <1>3. ASSUME NEW u \in Users, NEW c \in Conns, Close(u, c)
        PROVE  MutexInv'
    BY <1>3, NameAssumption DEF Close
  <1>4. ASSUME NEW u \in Users, CloseLock(u) \/ CloseSession(u)
        PROVE  MutexInv'
    BY <1>4, NameAssumption DEF CloseLock, CloseSession
  <1>5. CASE UNCHANGED <<mutex, user, userConn>>
    BY <1>5
  <1>6. \/ UNCHANGED <<mutex, user, userConn>>
        \/ \E u \in Users :
              \/ \E c \in Conns : WriteBegin(u, c) \/ Close(u, c)
              \/ UserStep(u)
    BY DEF Next, Tick, Receive, ConnectionEnds, FeedStep, FeedLock, FeedUpdate,
           FeedSend, FeedLost, EndLock, EndUnlock, FeedCreate, EndClose,
           CleanerStep, CleanerTick, CleanerExit, ScanEnds, ScanSession,
           RecheckLock, RecheckStale, RecheckActive, RecheckClose, Read
  <1> QED
    BY <1>1, <1>2, <1>3, <1>4, <1>5, <1>6 DEF UserStep

\* Nobody waits for others in a cycle, whatever the number of users and sessions.
THEOREM LocksAreOrdered == Spec => []NoLockCycle
  <1>1. Init => MutexInv
    BY DEF Init, MutexInv
  <1>2. IInv /\ MutexInv /\ [Next]_vars => MutexInv'
    BY MutexStep
  <1>3. ASSUME IInv, MutexInv, NEW f \in Goroutines, NEW g \in Goroutines,
               NEW h \in Goroutines, NEW k \in Goroutines,
               WaitsFor(f, g), WaitsFor(g, h), WaitsFor(h, k)
        PROVE  FALSE
    <2> TypeOK /\ LockInv
      BY <1>3 DEF IInv
    <2> USE NameAssumption DEF Goroutines
    \* Who is waited for has a lock, and does not want the manager's.
    <2>1. ASSUME NEW a \in Goroutines, NEW b \in Goroutines, WaitsFor(a, b)
          PROVE  ~WantsManager(b)
      BY <2>1, <1>3 DEF WaitsFor, WantsManager, LockInv, MutexInv, TypeOK
    <2>2. PICK c \in Conns : WantsMutex(g, c) /\ mutex[c] = h
      BY <1>3, <2>1 DEF WaitsFor
    <2>3. h \in Users /\ user[h] = "write"
      BY <1>3, <2>2 DEF MutexInv, TypeOK
    <2> QED
      BY <1>3, <2>3 DEF WaitsFor, WantsManager, WantsMutex
  <1>4. IInv /\ MutexInv => NoLockCycle
    BY <1>3 DEF NoLockCycle
  <1> QED
    BY <1>1, <1>2, <1>4, Invariance, PTL DEF Spec

LEMMA CapType == Cap \in 0..MaxCap
  BY DurationAssumption DEF Cap, hysteriaCleanerUDPIdleCap

\* A session expires neither late nor early, for every timeout the panel may
\* send, every cap and every last activity.
THEOREM ExpiryExact == Spec => []ExpiryIsExact
  <1>1. TypeOK => ExpiryIsExact
    <2> SUFFICES ASSUME TypeOK,
                        NEW seconds \in Int64, NEW cap \in {0, Cap},
                        NEW last \in (now - Largest)..now
                 PROVE  ExactAt(seconds, cap, now - last)
      BY DEF ExpiryIsExact
    <2>1. seconds \in Int /\ cap \in 0..MaxCap
      BY CapType, DurationAssumption DEF Int64
    <2>2. now - last \in Int
      BY GuardAssumption, DurationAssumption DEF TypeOK
    <2> QED
      BY <2>1, <2>2, ExactForAll
  <1> QED
    BY <1>1, TypeCorrect, PTL

\* A session is old when it is older than timeout and grace.
LEMMA ExpiredIsOld ==
    ASSUME NEW t \in Int, NEW at \in Int, ActivityExpired(t, at)
    PROVE  Timeout \in Int /\ at - t > Timeout + Grace
  <1>1. Timeout \in Int /\ 0 < Timeout /\ Timeout <= Largest - Grace
    <2>1. Seconds \in Int
      BY GuardAssumption, DurationAssumption DEF Int64
    <2> QED
      BY <2>1, CapType, TimeoutFits DEF Timeout
  <1>2. Wrap(Timeout + Grace) = Timeout + Grace
    BY <1>1, WrapKeeps, DurationAssumption
  <1> QED
    BY <1>1, <1>2 DEF ActivityExpired, hysteriaUDPActivityExpired

\* The cleaner closes only sessions that have been inactive for longer than
\* timeout and grace at the moment of the close, whatever it saw in its scan.
THEOREM CleanerSparesTheActive == Spec => ActivityWins
  <1>1. ASSUME IInv, [Next]_vars, NEW c \in Conns, closed'[c], ~closed[c],
               cleaner = "recheck", cleaner' # "recheck"
        PROVE  now - time[c] > Timeout + Grace
    <2> TypeOK /\ CleanNowInv
      BY <1>1 DEF IInv
    <2>1. PICK d \in Conns : Closing(d)
      BY <1>1, SessionChanges, FeedCreateAddsOne
    <2>2. d = c
      BY <1>1, <2>1, ClosingRemovesOne
    <2>3. c = current /\ RecheckClose
      BY <1>1, <2>1, <2>2 DEF Closing, EndClose, CloseSession
    <2>4. time[c] \in Int /\ cleanNow \in Int /\ now \in Int /\ cleanNow <= now
      BY GuardAssumption DEF TypeOK, CleanNowInv
    <2>5. Timeout \in Int /\ cleanNow - time[c] > Timeout + Grace
      BY <2>3, <2>4, ExpiredIsOld DEF RecheckClose
    <2> QED
      BY <2>4, <2>5, DurationAssumption
  <1>2. IInv /\ [Next]_vars =>
           [\A c \in Conns : closed'[c] /\ ~closed[c] /\ cleaner = "recheck"
              /\ cleaner' # "recheck" => now - time[c] > Timeout + Grace]_vars
    BY <1>1
  <1> QED
    BY <1>2, Invariance, PTL DEF Spec, ActivityWins

\* No session is closed in the middle of a write to it.
THEOREM WritesAreNotCut == Spec => NoCloseDuringWrite
  <1>1. ASSUME IInv, [Next]_vars, NEW c \in Conns, closed'[c], ~closed[c]
        PROVE  mutex[c] = Nil
    <2>1. PICK d \in Conns : Closing(d)
      BY <1>1, SessionChanges, FeedCreateAddsOne
    <2>2. d = c
      BY <1>1, <2>1, ClosingRemovesOne
    <2> QED
      BY <2>1, <2>2 DEF Closing, EndClose, CloseSession, RecheckClose
  <1>2. IInv /\ [Next]_vars =>
           [\A c \in Conns : closed'[c] /\ ~closed[c] => mutex[c] = Nil]_vars
    BY <1>1
  <1> QED
    BY <1>2, Invariance, PTL DEF Spec, NoCloseDuringWrite
=============================================================================
