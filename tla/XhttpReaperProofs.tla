------------------------- MODULE XhttpReaperProofs -------------------------
(***************************************************************************)
(* Theorems about XhttpReaper, for any sets of IDs, session pointers and   *)
(* requests and any durations.                                             *)
(***************************************************************************)
EXTENDS XhttpReaper, TLAPS

USE DEF vars, sessVars, reqVars, reaperVars, stopVars

-----------------------------------------------------------------------------
(* The inductive invariant.                                                *)

\* A session is registered under the ID it was created for.
KeyInv == \A id \in Ids : sessions[id] # Nil => key[sessions[id]] = id

\* Whoever works on a session works on an allocated one.
AllocInv ==
    /\ \A r \in Requests :
          reqPc[r] # "idle" => reqSess[r] \in Ptrs /\ key[reqSess[r]] # Nil
    /\ \A s \in Ptrs : expiry[s] # "none" => key[s] # Nil
    /\ reaper \in {"delete", "close"} =>
          reapSess \in Ptrs /\ key[reapSess] # Nil
    /\ closer \in {"delete", "close"} =>
          stopSess \in Ptrs /\ key[stopSess] # Nil
    /\ \A s \in Ptrs : key[s] = Nil => ~closed[s]

\* Whoever is about to close a queue has unregistered its session before.
ClosingInv ==
    /\ \A s \in Ptrs : expiry[s] = "close" => ~Registered(s)
    /\ reaper = "close" => ~Registered(reapSess)
    /\ closer = "close" => ~Registered(stopSess)

\* No time lies in the future, no session is touched before its creation.
TimeInv ==
    /\ tick <= now
    /\ ticker <= now
    /\ \A s \in Ptrs : born[s] <= last[s] /\ last[s] <= now

\* What the reaper and an expiry goroutine have found remains true, but for
\* payload that moves after the reaper's check.
FoundInv ==
    /\ reaper = "delete" => Idle(reapSess, tick) \/ last[reapSess] >= tick
    /\ reaper \in {"delete", "close"} =>
          now - born[reapSess] >= CleanerIdleTimeout
    /\ \A s \in Ptrs : expiry[s] = "delete" => now - born[s] >= PreconnectTTL

\* While the listener closes, the sessions from before are those the Range of
\* stopXHTTPReaper has still to visit, or is visiting.
StopInv ==
    /\ reaperStop <=> closer # "open"
    /\ reaperStop =>
          \A s \in Ptrs : Registered(s) /\ s \notin late =>
             \/ closer \in {"scan", "delete", "close"} /\ key[s] \in toStop
             \/ closer = "delete" /\ stopSess = s

IInv ==
    /\ TypeOK
    /\ KeyInv
    /\ AllocInv
    /\ ClosingInv
    /\ RegisteredIsOpen
    /\ TimeInv
    /\ FoundInv
    /\ StopInv

-----------------------------------------------------------------------------
(* The map.                                                                *)

LEMMA RegisteredByKey ==
    ASSUME TypeOK, KeyInv, NEW s \in Ptrs
    PROVE  Registered(s) <=> key[s] \in Ids /\ sessions[key[s]] = s
  BY NilAssumption DEF TypeOK, KeyInv, Registered

\* CompareAndDelete unregisters its session and no other.
LEMMA CompareAndDeleteRemovesOne ==
    ASSUME TypeOK, KeyInv, NEW s \in Ptrs, key[s] # Nil, CompareAndDelete(s)
    PROVE  /\ sessions' \in [Ids -> Ptrs \cup {Nil}]
           /\ \A id \in Ids : sessions'[id] = IF sessions[id] = s THEN Nil
                                              ELSE sessions[id]
           /\ ~Registered(s)'
           /\ \A t \in Ptrs : Registered(t)' => Registered(t)
           /\ \A t \in Ptrs \ {s} : Registered(t)' <=> Registered(t)
  <1>1. key[s] \in Ids
    BY DEF TypeOK
  <1>2. \A id \in Ids : sessions[id] = s => id = key[s]
    BY NilAssumption DEF KeyInv, TypeOK
  <1>3. sessions' \in [Ids -> Ptrs \cup {Nil}]
    BY <1>1 DEF CompareAndDelete, TypeOK
  <1>4. \A id \in Ids : sessions'[id] = IF sessions[id] = s THEN Nil
                                        ELSE sessions[id]
    BY <1>1, <1>2 DEF CompareAndDelete, TypeOK
  <1> QED
    BY <1>3, <1>4, NilAssumption DEF Registered

\* A new session is registered, and the others as before.
LEMMA UpsertMissAddsOne ==
    ASSUME TypeOK, KeyInv, NEW r \in Requests, NEW id \in Ids, NEW s \in Ptrs,
           UpsertMiss(r, id, s)
    PROVE  /\ sessions' \in [Ids -> Ptrs \cup {Nil}]
           /\ \A i \in Ids : sessions'[i] = IF i = id THEN s ELSE sessions[i]
           /\ \A t \in Ptrs : key'[t] = IF t = s THEN id ELSE key[t]
           /\ ~Registered(s)
           /\ \A t \in Ptrs \ {s} : Registered(t)' <=> Registered(t)
  <1>1. /\ sessions' = [sessions EXCEPT ![id] = s]
        /\ key' = [key EXCEPT ![s] = id]
        /\ sessions[id] = Nil
        /\ key[s] = Nil
    BY DEF UpsertMiss
  <1>2. \A i \in Ids : sessions[i] # s
    BY <1>1, NilAssumption DEF KeyInv, TypeOK
  <1>3. \A i \in Ids : sessions'[i] = IF i = id THEN s ELSE sessions[i]
    BY <1>1 DEF TypeOK
  <1> QED
    BY <1>1, <1>2, <1>3, NilAssumption DEF Registered, TypeOK

\* Only these two operations change the map.
LEMMA MapChanges ==
    ASSUME IInv, [Next]_vars
    PROVE  \/ UNCHANGED <<sessions, key>>
           \/ \E r \in Requests, id \in Ids, s \in Ptrs : UpsertMiss(r, id, s)
           \/ \E s \in Ptrs : /\ key[s] # Nil
                              /\ CompareAndDelete(s)
                              /\ UNCHANGED key
  <1>1. CASE UNCHANGED vars
    BY <1>1
  <1>2. CASE Advance \/ TickAtMaxTime \/ StopBegin
    BY <1>2 DEF Advance, TickAtMaxTime, StopBegin
  <1>3. ASSUME NEW r \in Requests, StreamDefer(r)
        PROVE  \E s \in Ptrs : key[s] # Nil /\ CompareAndDelete(s) /\ UNCHANGED key
    BY <1>3 DEF StreamDefer, IInv, AllocInv
  <1>4. ASSUME NEW r \in Requests, Request(r)
        PROVE  \/ UNCHANGED <<sessions, key>>
               \/ StreamDefer(r)
               \/ \E id \in Ids, s \in Ptrs : UpsertMiss(r, id, s)
    BY <1>4 DEF Request, UpsertHit, Push, Connect, Transfer, StreamEnd
  <1>5. ASSUME NEW s \in Ptrs, Expiry(s)
        PROVE  \/ UNCHANGED <<sessions, key>>
               \/ key[s] # Nil /\ CompareAndDelete(s) /\ UNCHANGED key
    BY <1>5 DEF Expiry, ExpiryCheck, ExpiryExit, ExpiryDelete, ExpiryClose,
                IInv, AllocInv
  <1>6. CASE Reaper
    BY <1>6 DEF Reaper, ReaperTick, ReaperExit, ReaperSkip, ReaperCheck,
                ReaperDelete, ReaperClose, ReaperRangeEnds, IInv, AllocInv
  <1>7. CASE Stopper
    BY <1>7 DEF Stopper, StopSkip, StopVisit, StopDelete, StopClose,
                StopRangeEnds, ServersClose, IInv, AllocInv
  <1> QED
    BY <1>1, <1>2, <1>3, <1>4, <1>5, <1>6, <1>7 DEF Next

-----------------------------------------------------------------------------
(* One lemma per part of the invariant: every step preserves it.           *)

LEMMA TypeStep ==
    ASSUME IInv, [Next]_vars
    PROVE  TypeOK'
  <1> USE IntervalAssumption, NilAssumption DEF TypeOK
  <1> TypeOK /\ KeyInv /\ AllocInv
    BY DEF IInv
  <1>1. CASE UNCHANGED vars
    BY <1>1
  <1>2. CASE Advance
    BY <1>2 DEF Advance, Buffered
  <1>3. CASE TickAtMaxTime
    BY <1>3 DEF TickAtMaxTime, Buffered
  <1>4. ASSUME NEW r \in Requests, NEW id \in Ids, UpsertHit(r, id)
        PROVE  TypeOK'
    BY <1>4 DEF UpsertHit
  <1>5. ASSUME NEW r \in Requests, NEW id \in Ids, NEW s \in Ptrs,
               UpsertMiss(r, id, s)
        PROVE  TypeOK'
    BY <1>5 DEF UpsertMiss
  <1>6. ASSUME NEW r \in Requests, Push(r) \/ Transfer(r)
        PROVE  TypeOK'
    BY <1>6 DEF Push, Transfer, Touch
  <1>7. ASSUME NEW r \in Requests, Connect(r) \/ StreamEnd(r)
        PROVE  TypeOK'
    BY <1>7 DEF Connect, StreamEnd
  <1>8. ASSUME NEW r \in Requests, StreamDefer(r)
        PROVE  TypeOK'
    <2>1. sessions' \in [Ids -> Ptrs \cup {Nil}]
      BY <1>8, CompareAndDeleteRemovesOne DEF StreamDefer, AllocInv
    <2> QED
      BY <1>8, <2>1 DEF StreamDefer
  <1>9. ASSUME NEW s \in Ptrs, ExpiryCheck(s) \/ ExpiryExit(s) \/ ExpiryClose(s)
        PROVE  TypeOK'
    BY <1>9 DEF ExpiryCheck, ExpiryExit, ExpiryClose
  <1>10. ASSUME NEW s \in Ptrs, ExpiryDelete(s)
         PROVE  TypeOK'
    <2>1. sessions' \in [Ids -> Ptrs \cup {Nil}]
      BY <1>10, CompareAndDeleteRemovesOne DEF ExpiryDelete, AllocInv
    <2> QED
      BY <1>10, <2>1 DEF ExpiryDelete
  <1>11. CASE ReaperTick \/ ReaperExit \/ ReaperRangeEnds
    BY <1>11 DEF ReaperTick, ReaperExit, ReaperRangeEnds
  <1>12. ASSUME NEW id \in Ids, ReaperSkip(id) \/ ReaperCheck(id)
         PROVE  TypeOK'
    BY <1>12 DEF ReaperSkip, ReaperCheck
  <1>13. CASE ReaperDelete
    <2>1. sessions' \in [Ids -> Ptrs \cup {Nil}]
      BY <1>13, CompareAndDeleteRemovesOne DEF ReaperDelete, AllocInv
    <2> QED
      BY <1>13, <2>1 DEF ReaperDelete
  <1>14. CASE ReaperClose
    BY <1>14 DEF ReaperClose
  <1>15. CASE StopBegin \/ StopRangeEnds \/ ServersClose
    BY <1>15 DEF StopBegin, StopRangeEnds, ServersClose
  <1>16. ASSUME NEW id \in Ids, StopSkip(id) \/ StopVisit(id)
         PROVE  TypeOK'
    BY <1>16 DEF StopSkip, StopVisit
  <1>17. CASE StopDelete
    <2>1. sessions' \in [Ids -> Ptrs \cup {Nil}]
      BY <1>17, CompareAndDeleteRemovesOne DEF StopDelete, AllocInv
    <2> QED
      BY <1>17, <2>1 DEF StopDelete
  <1>18. CASE StopClose
    BY <1>18 DEF StopClose
  <1> QED
    BY <1>1, <1>2, <1>3, <1>4, <1>5, <1>6, <1>7, <1>8, <1>9, <1>10, <1>11,
       <1>12, <1>13, <1>14, <1>15, <1>16, <1>17, <1>18
    DEF Next, Request, Expiry, Reaper, Stopper

LEMMA KeyStep ==
    ASSUME IInv, [Next]_vars
    PROVE  KeyInv'
  <1> TypeOK /\ KeyInv
    BY DEF IInv
  <1>1. CASE UNCHANGED <<sessions, key>>
    BY <1>1 DEF KeyInv
  <1>2. ASSUME NEW r \in Requests, NEW id \in Ids, NEW s \in Ptrs,
               UpsertMiss(r, id, s)
        PROVE  KeyInv'
    <2>1. \A i \in Ids : sessions[i] \in Ptrs \cup {Nil} /\ sessions[i] # s
      BY <1>2, UpsertMissAddsOne DEF Registered, TypeOK
    <2> QED
      BY <1>2, <2>1, UpsertMissAddsOne DEF KeyInv
  <1>3. ASSUME NEW s \in Ptrs, key[s] # Nil, CompareAndDelete(s), UNCHANGED key
        PROVE  KeyInv'
    BY <1>3, CompareAndDeleteRemovesOne DEF KeyInv
  <1> QED
    BY <1>1, <1>2, <1>3, MapChanges

LEMMA AllocStep ==
    ASSUME IInv, [Next]_vars
    PROVE  AllocInv'
  <1> USE NilAssumption DEF TypeOK, AllocInv
  <1> TypeOK /\ AllocInv
    BY DEF IInv
  <1>1. CASE UNCHANGED vars
    BY <1>1
  <1>2. CASE Advance \/ TickAtMaxTime
    BY <1>2 DEF Advance, TickAtMaxTime
  <1>3. ASSUME NEW r \in Requests, NEW id \in Ids, UpsertHit(r, id)
        PROVE  AllocInv'
    BY <1>3 DEF UpsertHit, IInv, KeyInv
  <1>4. ASSUME NEW r \in Requests, NEW id \in Ids, NEW s \in Ptrs,
               UpsertMiss(r, id, s)
        PROVE  AllocInv'
    <2>1. \A t \in Ptrs : key[t] # Nil => key'[t] # Nil
      BY <1>4 DEF UpsertMiss
    <2>2. key'[s] # Nil
      BY <1>4 DEF UpsertMiss
    <2> QED
      BY <1>4, <2>1, <2>2 DEF UpsertMiss
  <1>5. ASSUME NEW r \in Requests, Push(r) \/ Transfer(r) \/ Connect(r) \/ StreamEnd(r)
        PROVE  AllocInv'
    BY <1>5 DEF Push, Transfer, Connect, StreamEnd
  <1>6. ASSUME NEW r \in Requests, StreamDefer(r)
        PROVE  AllocInv'
    BY <1>6 DEF StreamDefer
  <1>7. ASSUME NEW s \in Ptrs, Expiry(s)
        PROVE  AllocInv'
    BY <1>7 DEF Expiry, ExpiryCheck, ExpiryExit, ExpiryClose, ExpiryDelete
  <1>8. CASE ReaperTick \/ ReaperExit \/ ReaperRangeEnds \/ ReaperDelete
             \/ ReaperClose
    BY <1>8 DEF ReaperTick, ReaperExit, ReaperRangeEnds, ReaperDelete, ReaperClose
  <1>9. ASSUME NEW id \in Ids, ReaperSkip(id) \/ ReaperCheck(id)
        PROVE  AllocInv'
    BY <1>9 DEF ReaperSkip, ReaperCheck, IInv, KeyInv
  <1>10. CASE StopBegin \/ StopRangeEnds \/ ServersClose \/ StopDelete
              \/ StopClose
    BY <1>10 DEF StopBegin, StopRangeEnds, ServersClose, StopDelete, StopClose
  <1>11. ASSUME NEW id \in Ids, StopSkip(id) \/ StopVisit(id)
         PROVE  AllocInv'
    BY <1>11 DEF StopSkip, StopVisit, IInv, KeyInv
  <1> QED
    BY <1>1, <1>2, <1>3, <1>4, <1>5, <1>6, <1>7, <1>8, <1>9, <1>10, <1>11
    DEF Next, Request, Reaper, Stopper

\* A session that is allocated and unregistered stays so.
LEMMA UnregisteredForGood ==
    ASSUME IInv, [Next]_vars, NEW s \in Ptrs, key[s] # Nil, ~Registered(s)
    PROVE  ~Registered(s)'
  <1> TypeOK /\ KeyInv
    BY DEF IInv
  <1>1. CASE UNCHANGED <<sessions, key>>
    BY <1>1 DEF Registered
  <1>2. ASSUME NEW r \in Requests, NEW id \in Ids, NEW t \in Ptrs,
               UpsertMiss(r, id, t)
        PROVE  ~Registered(s)'
    <2>1. t # s
      BY <1>2 DEF UpsertMiss
    <2> QED
      BY <1>2, <2>1, UpsertMissAddsOne
  <1>3. ASSUME NEW t \in Ptrs, key[t] # Nil, CompareAndDelete(t)
        PROVE  ~Registered(s)'
    BY <1>3, CompareAndDeleteRemovesOne
  <1> QED
    BY <1>1, <1>2, <1>3, MapChanges

LEMMA ClosingStep ==
    ASSUME IInv, [Next]_vars
    PROVE  ClosingInv'
  <1> TypeOK /\ KeyInv /\ AllocInv /\ ClosingInv
    BY DEF IInv
  <1>1. ASSUME NEW s \in Ptrs, expiry'[s] = "close"
        PROVE  ~Registered(s)'
    <2>1. CASE expiry[s] = "close"
      BY <2>1, UnregisteredForGood DEF ClosingInv, AllocInv
    <2>2. CASE expiry[s] # "close"
      <3>1. ExpiryDelete(s)
        BY <1>1, <2>2
        DEF Next, Request, Expiry, Reaper, Stopper, Advance, TickAtMaxTime,
            UpsertHit, UpsertMiss, Push, Connect, Transfer, StreamEnd,
            StreamDefer, ExpiryCheck, ExpiryExit, ExpiryDelete, ExpiryClose,
            ReaperTick, ReaperExit, ReaperSkip, ReaperCheck, ReaperDelete,
            ReaperClose, ReaperRangeEnds, StopBegin, StopSkip, StopVisit,
            StopDelete, StopClose, StopRangeEnds, ServersClose, TypeOK
      <3> QED
        BY <3>1, CompareAndDeleteRemovesOne DEF ExpiryDelete, AllocInv
    <2> QED
      BY <2>1, <2>2
  <1>2. ASSUME reaper' = "close"
        PROVE  ~Registered(reapSess)'
    <2>1. CASE reaper = "close"
      <3>1. UNCHANGED reapSess /\ reapSess \in Ptrs
        BY <1>2, <2>1
        DEF Next, Request, Expiry, Reaper, Stopper, Advance, TickAtMaxTime,
            UpsertHit, UpsertMiss, Push, Connect, Transfer, StreamEnd,
            StreamDefer, ExpiryCheck, ExpiryExit, ExpiryDelete, ExpiryClose,
            ReaperTick, ReaperExit, ReaperSkip, ReaperCheck, ReaperDelete,
            ReaperClose, ReaperRangeEnds, StopBegin, StopSkip, StopVisit,
            StopDelete, StopClose, StopRangeEnds, ServersClose, AllocInv
      <3>2. ~Registered(reapSess) /\ key[reapSess] # Nil
        BY <2>1 DEF ClosingInv, AllocInv
      <3> QED
        BY <3>1, <3>2, UnregisteredForGood DEF Registered
    <2>2. CASE reaper # "close"
      <3>1. ReaperDelete
        BY <1>2, <2>2
        DEF Next, Request, Expiry, Reaper, Stopper, Advance, TickAtMaxTime,
            UpsertHit, UpsertMiss, Push, Connect, Transfer, StreamEnd,
            StreamDefer, ExpiryCheck, ExpiryExit, ExpiryDelete, ExpiryClose,
            ReaperTick, ReaperExit, ReaperSkip, ReaperCheck, ReaperDelete,
            ReaperClose, ReaperRangeEnds, StopBegin, StopSkip, StopVisit,
            StopDelete, StopClose, StopRangeEnds, ServersClose
      <3>2. reapSess \in Ptrs /\ key[reapSess] # Nil
            /\ CompareAndDelete(reapSess) /\ UNCHANGED reapSess
        BY <1>2, <3>1 DEF ReaperDelete, AllocInv
      <3>3. ~\E id \in Ids : sessions'[id] = reapSess
        BY <3>2, CompareAndDeleteRemovesOne DEF Registered
      <3> QED
        BY <3>2, <3>3 DEF Registered
    <2> QED
      BY <2>1, <2>2
  <1>3. ASSUME closer' = "close"
        PROVE  ~Registered(stopSess)'
    <2>1. CASE closer = "close"
      <3>1. UNCHANGED stopSess /\ stopSess \in Ptrs
        BY <1>3, <2>1
        DEF Next, Request, Expiry, Reaper, Stopper, Advance, TickAtMaxTime,
            UpsertHit, UpsertMiss, Push, Connect, Transfer, StreamEnd,
            StreamDefer, ExpiryCheck, ExpiryExit, ExpiryDelete, ExpiryClose,
            ReaperTick, ReaperExit, ReaperSkip, ReaperCheck, ReaperDelete,
            ReaperClose, ReaperRangeEnds, StopBegin, StopSkip, StopVisit,
            StopDelete, StopClose, StopRangeEnds, ServersClose, AllocInv
      <3>2. ~Registered(stopSess) /\ key[stopSess] # Nil
        BY <2>1 DEF ClosingInv, AllocInv
      <3> QED
        BY <3>1, <3>2, UnregisteredForGood DEF Registered
    <2>2. CASE closer # "close"
      <3>1. StopDelete
        BY <1>3, <2>2
        DEF Next, Request, Expiry, Reaper, Stopper, Advance, TickAtMaxTime,
            UpsertHit, UpsertMiss, Push, Connect, Transfer, StreamEnd,
            StreamDefer, ExpiryCheck, ExpiryExit, ExpiryDelete, ExpiryClose,
            ReaperTick, ReaperExit, ReaperSkip, ReaperCheck, ReaperDelete,
            ReaperClose, ReaperRangeEnds, StopBegin, StopSkip, StopVisit,
            StopDelete, StopClose, StopRangeEnds, ServersClose
      <3>2. stopSess \in Ptrs /\ key[stopSess] # Nil
            /\ CompareAndDelete(stopSess) /\ UNCHANGED stopSess
        BY <1>3, <3>1 DEF StopDelete, AllocInv
      <3>3. ~\E id \in Ids : sessions'[id] = stopSess
        BY <3>2, CompareAndDeleteRemovesOne DEF Registered
      <3> QED
        BY <3>2, <3>3 DEF Registered
    <2> QED
      BY <2>1, <2>2
  <1> QED
    BY <1>1, <1>2, <1>3 DEF ClosingInv

\* A queue is closed only by a goroutine that has unregistered the session, or
\* at the end of its GET.
LEMMA OpenStep ==
    ASSUME IInv, [Next]_vars
    PROVE  RegisteredIsOpen'
  <1> TypeOK /\ KeyInv /\ AllocInv /\ ClosingInv /\ RegisteredIsOpen
    BY DEF IInv
  <1> SUFFICES ASSUME NEW s \in Ptrs, Registered(s)', closed'[s]
               PROVE  Completed(s)'
    BY DEF RegisteredIsOpen
  <1>1. CASE closed[s]
    <2>1. key[s] # Nil
      BY <1>1 DEF AllocInv
    <2>2. Registered(s)
      BY <2>1, UnregisteredForGood
    <2>3. PICK r \in Requests : reqPc[r] = "defer" /\ reqSess[r] = s
      BY <1>1, <2>2 DEF RegisteredIsOpen, Completed
    <2>4. ~StreamDefer(r)
      BY <2>1, <2>3, CompareAndDeleteRemovesOne DEF StreamDefer
    <2>5. reqPc'[r] = "defer" /\ reqSess'[r] = s
      BY <2>3, <2>4
      DEF Next, Request, Expiry, Reaper, Stopper, Advance, TickAtMaxTime,
          UpsertHit, UpsertMiss, Push, Connect, Transfer, StreamEnd,
          StreamDefer, ExpiryCheck, ExpiryExit, ExpiryDelete, ExpiryClose,
          ReaperTick, ReaperExit, ReaperSkip, ReaperCheck, ReaperDelete,
          ReaperClose, ReaperRangeEnds, StopBegin, StopSkip, StopVisit,
          StopDelete, StopClose, StopRangeEnds, ServersClose, TypeOK
    <2> QED
      BY <2>5 DEF Completed
  <1>2. CASE ~closed[s]
    <2>1. CASE \E r \in Requests : StreamEnd(r)
      BY <1>2, <2>1 DEF StreamEnd, Completed, TypeOK
    <2>2. CASE \E t \in Ptrs : ExpiryClose(t)
      <3>1. expiry[s] = "close"
        BY <1>2, <2>2 DEF ExpiryClose, TypeOK
      <3> QED
        BY <3>1, UnregisteredForGood DEF ClosingInv, AllocInv
    <2>3. CASE ReaperClose
      <3>1. reaper = "close" /\ reapSess = s
        BY <1>2, <2>3 DEF ReaperClose, TypeOK
      <3> QED
        BY <3>1, UnregisteredForGood DEF ClosingInv, AllocInv
    <2>4. CASE StopClose
      <3>1. closer = "close" /\ stopSess = s
        BY <1>2, <2>4 DEF StopClose, TypeOK
      <3> QED
        BY <3>1, UnregisteredForGood DEF ClosingInv, AllocInv
    <2>5. \/ UNCHANGED closed
          \/ \E r \in Requests : StreamEnd(r)
          \/ \E t \in Ptrs : ExpiryClose(t)
          \/ ReaperClose
          \/ StopClose
      BY DEF Next, Request, Expiry, Reaper, Stopper, Advance, TickAtMaxTime,
             UpsertHit, UpsertMiss, Push, Connect, Transfer,
             StreamDefer, ExpiryCheck, ExpiryExit, ExpiryDelete,
             ReaperTick, ReaperExit, ReaperSkip, ReaperCheck, ReaperDelete,
             ReaperRangeEnds, StopBegin, StopSkip, StopVisit,
             StopDelete, StopRangeEnds, ServersClose
    <2> QED
      BY <1>2, <2>1, <2>2, <2>3, <2>4, <2>5
  <1> QED
    BY <1>1, <1>2

\* The clock goes forward, a touch sets the clock's value, and only a new
\* session gets a creation time.
LEMMA ClockChanges ==
    ASSUME IInv, [Next]_vars, NEW s \in Ptrs
    PROVE  /\ now' >= now
           /\ last'[s] = last[s] \/ last'[s] = now
           /\ key[s] # Nil => born'[s] = born[s]
           /\ born'[s] = born[s] \/ (born'[s] = now /\ last'[s] = now)
  <1> TypeOK /\ AllocInv
    BY DEF IInv
  <1>1. CASE UNCHANGED <<now, last, born>>
    BY <1>1 DEF TypeOK
  <1>2. CASE Advance
    BY <1>2 DEF Advance, TypeOK
  <1>3. ASSUME NEW r \in Requests, NEW id \in Ids, NEW t \in Ptrs,
               UpsertMiss(r, id, t)
        PROVE  /\ now' = now
               /\ last'[s] = last[s] \/ last'[s] = now
               /\ key[s] # Nil => born'[s] = born[s]
               /\ born'[s] = born[s] \/ (born'[s] = now /\ last'[s] = now)
    BY <1>3 DEF UpsertMiss, TypeOK
  <1>4. ASSUME NEW r \in Requests, Push(r) \/ Transfer(r)
        PROVE  /\ now' = now
               /\ last'[s] = last[s] \/ last'[s] = now
               /\ born'[s] = born[s]
    BY <1>4 DEF Push, Transfer, Touch, TypeOK
  <1>5. \/ UNCHANGED <<now, last, born>>
        \/ Advance
        \/ \E r \in Requests : Push(r) \/ Transfer(r)
        \/ \E r \in Requests, id \in Ids, t \in Ptrs : UpsertMiss(r, id, t)
    BY DEF Next, Request, Expiry, Reaper, Stopper, TickAtMaxTime,
           UpsertHit, Connect, StreamEnd,
           StreamDefer, ExpiryCheck, ExpiryExit, ExpiryDelete, ExpiryClose,
           ReaperTick, ReaperExit, ReaperSkip, ReaperCheck, ReaperDelete,
           ReaperClose, ReaperRangeEnds, StopBegin, StopSkip, StopVisit,
           StopDelete, StopClose, StopRangeEnds, ServersClose
  <1> QED
    BY <1>1, <1>2, <1>3, <1>4, <1>5 DEF TypeOK

LEMMA TimeStep ==
    ASSUME IInv, [Next]_vars
    PROVE  TimeInv'
  <1> TypeOK /\ TimeInv /\ TypeOK'
    BY TypeStep DEF IInv
  <1>1. \A s \in Ptrs : born'[s] <= last'[s] /\ last'[s] <= now'
    <2> TAKE s \in Ptrs
    <2>1. /\ now \in Nat /\ now' \in Nat
          /\ last[s] \in Nat /\ last'[s] \in Nat
          /\ born[s] \in Nat /\ born'[s] \in Nat
      BY DEF TypeOK
    <2>2. born[s] <= last[s] /\ last[s] <= now
      BY DEF TimeInv
    <2> QED
      BY <2>1, <2>2, ClockChanges
  <1>2. tick' <= now' /\ ticker' <= now'
    <2>1. CASE Advance
      BY <2>1 DEF Advance, Buffered, TimeInv, TypeOK
    <2>2. CASE TickAtMaxTime
      BY <2>2 DEF TickAtMaxTime, Buffered, TimeInv, TypeOK
    <2>3. CASE ReaperTick \/ ReaperRangeEnds
      BY <2>3 DEF ReaperTick, ReaperRangeEnds, TimeInv, TypeOK
    <2>4. \/ UNCHANGED <<tick, ticker, now>>
          \/ Advance \/ TickAtMaxTime \/ ReaperTick \/ ReaperRangeEnds
      BY DEF Next, Request, Expiry, Reaper, Stopper,
             UpsertHit, UpsertMiss, Push, Connect, Transfer, StreamEnd,
             StreamDefer, ExpiryCheck, ExpiryExit, ExpiryDelete, ExpiryClose,
             ReaperExit, ReaperSkip, ReaperCheck, ReaperDelete,
             ReaperClose, StopBegin, StopSkip, StopVisit,
             StopDelete, StopClose, StopRangeEnds, ServersClose
    <2> QED
      BY <2>1, <2>2, <2>3, <2>4 DEF TimeInv
  <1> QED
    BY <1>1, <1>2 DEF TimeInv

LEMMA FoundStep ==
    ASSUME IInv, [Next]_vars
    PROVE  FoundInv'
  <1> TypeOK /\ AllocInv /\ KeyInv /\ TimeInv /\ FoundInv /\ TypeOK'
    BY TypeStep DEF IInv
  <1> USE IntervalAssumption
  <1>1. \A s \in Ptrs : /\ now \in Nat /\ now' \in Nat /\ tick \in Nat
                        /\ last[s] \in Nat /\ last'[s] \in Nat
                        /\ born[s] \in Nat /\ born'[s] \in Nat
    BY DEF TypeOK
  <1>2. ASSUME reaper' \in {"delete", "close"}
        PROVE  /\ reaper' = "delete" =>
                     Idle(reapSess, tick)' \/ (last[reapSess] >= tick)'
               /\ (now - born[reapSess] >= CleanerIdleTimeout)'
    <2>1. CASE reaper \in {"delete", "close"} /\ UNCHANGED <<reapSess, tick>>
               /\ (reaper' = "delete" => reaper = "delete")
      <3>1. reapSess \in Ptrs /\ key[reapSess] # Nil
        BY <2>1 DEF AllocInv
      <3>2. /\ now' >= now
            /\ last'[reapSess] = last[reapSess] \/ last'[reapSess] = now
            /\ born'[reapSess] = born[reapSess]
        BY <3>1, ClockChanges
      <3>3. tick <= now
        BY DEF TimeInv
      <3> QED
        BY <1>1, <2>1, <3>1, <3>2, <3>3
        DEF FoundInv, Idle, CleanerIdleTimeout
    <2>2. ASSUME NEW id \in Ids, ReaperCheck(id)
          PROVE  /\ Idle(reapSess, tick)'
                 /\ (now - born[reapSess] >= CleanerIdleTimeout)'
      <3>1. /\ sessions[id] \in Ptrs /\ Idle(sessions[id], tick)
            /\ reapSess' = sessions[id]
            /\ UNCHANGED <<now, tick, last, born>>
        BY <2>2 DEF ReaperCheck, TypeOK
      <3>2. born[sessions[id]] <= last[sessions[id]] /\ tick <= now
        BY <3>1 DEF TimeInv
      <3>3. now - born[sessions[id]] >= CleanerIdleTimeout
        BY <1>1, <3>1, <3>2 DEF Idle, CleanerIdleTimeout
      <3> QED
        BY <3>1, <3>3 DEF Idle, CleanerIdleTimeout
    <2>3. \/ /\ reaper \in {"delete", "close"} /\ UNCHANGED <<reapSess, tick>>
             /\ (reaper' = "delete" => reaper = "delete")
          \/ \E id \in Ids : ReaperCheck(id)
      <3>1. CASE Reaper
        BY <1>2, <3>1
        DEF Reaper, ReaperTick, ReaperExit, ReaperSkip, ReaperDelete,
            ReaperClose, ReaperRangeEnds
      <3>2. Reaper \/ UNCHANGED reaperVars
        BY DEF Next, Request, Expiry, Stopper, Advance, TickAtMaxTime,
               UpsertHit, UpsertMiss, Push, Connect, Transfer, StreamEnd,
               StreamDefer, ExpiryCheck, ExpiryExit, ExpiryDelete, ExpiryClose,
               StopBegin, StopSkip, StopVisit,
               StopDelete, StopClose, StopRangeEnds, ServersClose
      <3>3. CASE UNCHANGED reaperVars
        BY <1>2, <3>3
      <3> QED
        BY <3>1, <3>2, <3>3
    <2> QED
      BY <2>1, <2>2, <2>3
  <1>3. ASSUME NEW s \in Ptrs, expiry'[s] = "delete"
        PROVE  now' - born'[s] >= PreconnectTTL
    <2>1. CASE expiry[s] = "delete"
      <3>1. now' >= now /\ born'[s] = born[s]
        BY <2>1, ClockChanges DEF AllocInv
      <3> QED
        BY <1>1, <2>1, <3>1 DEF FoundInv
    <2>2. CASE ExpiryCheck(s)
      BY <2>2 DEF ExpiryCheck
    <2>3. expiry[s] = "delete" \/ ExpiryCheck(s)
      <3>1. ASSUME NEW t \in Ptrs, Expiry(t)
            PROVE  expiry[s] = "delete" \/ ExpiryCheck(s)
        <4>1. t # s => expiry'[s] = expiry[s]
          BY <3>1 DEF Expiry, ExpiryCheck, ExpiryExit, ExpiryDelete,
                      ExpiryClose, TypeOK
        <4>2. t = s => ExpiryCheck(s)
          <5>1. ExpiryExit(s) \/ ExpiryDelete(s) \/ ExpiryClose(s)
                   => expiry'[s] # "delete"
            BY DEF ExpiryExit, ExpiryDelete, ExpiryClose, TypeOK
          <5> QED
            BY <1>3, <3>1, <5>1 DEF Expiry
        <4> QED
          BY <1>3, <4>1, <4>2
      <3>2. ASSUME NEW r \in Requests, Request(r)
            PROVE  expiry[s] = "delete"
        <4>1. ASSUME NEW id \in Ids, NEW t \in Ptrs, UpsertMiss(r, id, t)
              PROVE  expiry[s] = "delete"
          BY <1>3, <4>1 DEF UpsertMiss, TypeOK
        <4>2. \/ UNCHANGED expiry
              \/ \E id \in Ids, t \in Ptrs : UpsertMiss(r, id, t)
          BY <3>2 DEF Request, UpsertHit, Push, Connect, Transfer, StreamEnd,
                      StreamDefer
        <4> QED
          BY <1>3, <4>1, <4>2
      <3>3. \/ UNCHANGED expiry
            \/ \E t \in Ptrs : Expiry(t)
            \/ \E r \in Requests : Request(r)
        BY DEF Next, Reaper, Stopper, Advance, TickAtMaxTime, ReaperTick,
               ReaperExit, ReaperSkip, ReaperCheck, ReaperDelete, ReaperClose,
               ReaperRangeEnds, StopBegin, StopSkip, StopVisit, StopDelete,
               StopClose, StopRangeEnds, ServersClose
      <3> QED
        BY <1>3, <3>1, <3>2, <3>3
    <2> QED
      BY <2>1, <2>2, <2>3
  <1> QED
    BY <1>2, <1>3 DEF FoundInv

LEMMA StopStep ==
    ASSUME IInv, [Next]_vars
    PROVE  StopInv'
  <1> TypeOK /\ KeyInv /\ AllocInv /\ StopInv
    BY DEF IInv
  <1>1. (reaperStop <=> closer # "open")'
    BY DEF StopInv, Next, Request, Expiry, Reaper, Stopper, Advance,
           TickAtMaxTime, UpsertHit, UpsertMiss, Push, Connect, Transfer,
           StreamEnd, StreamDefer, ExpiryCheck, ExpiryExit, ExpiryDelete,
           ExpiryClose, ReaperTick, ReaperExit, ReaperSkip, ReaperCheck,
           ReaperDelete, ReaperClose, ReaperRangeEnds, StopBegin, StopSkip,
           StopVisit, StopDelete, StopClose, StopRangeEnds, ServersClose
  <1> SUFFICES ASSUME reaperStop', NEW s \in Ptrs, Registered(s)', s \notin late'
               PROVE  \/ closer' \in {"scan", "delete", "close"} /\ key'[s] \in toStop'
                      \/ closer' = "delete" /\ stopSess' = s
    BY <1>1 DEF StopInv
  <1>2. CASE StopBegin
    <2>1. Registered(s)
      BY <1>2 DEF StopBegin, Registered
    <2>2. key[s] \in Ids
      BY <2>1, RegisteredByKey
    <2> QED
      BY <1>2, <2>2 DEF StopBegin
  <1>3. ASSUME NEW r \in Requests, NEW id \in Ids, NEW t \in Ptrs,
               UpsertMiss(r, id, t)
        PROVE  \/ closer' \in {"scan", "delete", "close"} /\ key'[s] \in toStop'
               \/ closer' = "delete" /\ stopSess' = s
    <2>1. s # t /\ reaperStop /\ s \notin late /\ UNCHANGED stopVars
      BY <1>3 DEF UpsertMiss
    <2>2. Registered(s) /\ key'[s] = key[s]
      BY <1>3, <2>1, UpsertMissAddsOne
    <2> QED
      BY <2>1, <2>2 DEF StopInv
  <1>4. CASE Stopper
    <2>1. reaperStop /\ s \notin late /\ UNCHANGED key
      BY <1>4 DEF Stopper, StopSkip, StopVisit, StopDelete, StopClose,
                  StopRangeEnds, ServersClose
    <2>2. Registered(s)
      <3>1. CASE StopDelete
        BY <3>1, CompareAndDeleteRemovesOne DEF StopDelete, AllocInv
      <3>2. StopDelete \/ UNCHANGED sessions
        BY <1>4 DEF Stopper, StopSkip, StopVisit, StopClose, StopRangeEnds,
                    ServersClose
      <3> QED
        BY <3>1, <3>2 DEF Registered
    <2>3. \/ closer \in {"scan", "delete", "close"} /\ key[s] \in toStop
          \/ closer = "delete" /\ stopSess = s
      BY <2>1, <2>2 DEF StopInv
    <2>4. key[s] \in Ids /\ sessions[key[s]] = s /\ s # Nil
      BY <2>2, RegisteredByKey, NilAssumption
    <2>5. ASSUME NEW id \in Ids, StopSkip(id) \/ StopVisit(id)
          PROVE  \/ closer' \in {"scan", "delete", "close"} /\ key'[s] \in toStop'
                 \/ closer' = "delete" /\ stopSess' = s
      BY <2>1, <2>3, <2>4, <2>5 DEF StopSkip, StopVisit
    <2>6. CASE StopDelete
      <3>1. stopSess # s
        BY <2>6, CompareAndDeleteRemovesOne DEF StopDelete, AllocInv
      <3> QED
        BY <2>1, <2>3, <2>6, <3>1 DEF StopDelete
    <2>7. CASE StopClose \/ StopRangeEnds \/ ServersClose
      BY <2>1, <2>3, <2>7 DEF StopClose, StopRangeEnds, ServersClose
    <2> QED
      BY <1>4, <2>5, <2>6, <2>7 DEF Stopper
  <1>5. CASE UNCHANGED <<stopVars, late, key>>
    <2>1. reaperStop /\ s \notin late /\ key'[s] = key[s]
      BY <1>5
    <2>2. Registered(s)
      <3>1. ASSUME NEW t \in Ptrs, key[t] # Nil, CompareAndDelete(t)
            PROVE  Registered(s)
        BY <3>1, CompareAndDeleteRemovesOne
      <3>2. ASSUME NEW r \in Requests, NEW id \in Ids, NEW t \in Ptrs
            PROVE  ~UpsertMiss(r, id, t)
        <4> SUFFICES ASSUME UpsertMiss(r, id, t) PROVE FALSE
          OBVIOUS
        <4>1. key[t] = Nil /\ key'[t] = id
          BY DEF UpsertMiss, TypeOK
        <4>2. key' = key
          BY <1>5
        <4> QED
          BY <4>1, <4>2, NilAssumption
      <3> QED
        BY <3>1, <3>2, MapChanges DEF Registered
    <2> QED
      BY <1>5, <2>1, <2>2 DEF StopInv
  <1>6. \/ UNCHANGED <<stopVars, late, key>>
        \/ StopBegin \/ Stopper
        \/ \E r \in Requests, id \in Ids, t \in Ptrs : UpsertMiss(r, id, t)
    BY DEF Next, Request, Expiry, Reaper, Advance, TickAtMaxTime,
           UpsertHit, Push, Connect, Transfer, StreamEnd,
           StreamDefer, ExpiryCheck, ExpiryExit, ExpiryDelete, ExpiryClose,
           ReaperTick, ReaperExit, ReaperSkip, ReaperCheck, ReaperDelete,
           ReaperClose, ReaperRangeEnds
  <1> QED
    BY <1>2, <1>3, <1>4, <1>5, <1>6

-----------------------------------------------------------------------------

\* The inductive invariant holds in every reachable state.
THEOREM Invariance == Spec => []IInv
  <1>1. Init => IInv
    <2> SUFFICES ASSUME Init PROVE IInv
      OBVIOUS
    <2> USE IntervalAssumption, NilAssumption DEF Init
    <2>1. TypeOK
      <3>1. 0 \in 0..MaxTime /\ -1 \in -1..MaxTime
        OBVIOUS
      <3>2. /\ born \in [Ptrs -> 0..MaxTime] /\ last \in [Ptrs -> 0..MaxTime]
            /\ now \in 0..MaxTime /\ tick \in 0..MaxTime
            /\ ticker \in -1..MaxTime
        BY <3>1
      <3>3. /\ sessions \in [Ids -> Ptrs \cup {Nil}]
            /\ key \in [Ptrs -> Ids \cup {Nil}]
            /\ connected \in [Ptrs -> BOOLEAN]
            /\ closed \in [Ptrs -> BOOLEAN]
            /\ reqSess \in [Requests -> Ptrs \cup {Nil}]
        OBVIOUS
      <3> QED
        BY <3>2, <3>3 DEF TypeOK
    <2>2. \A s \in Ptrs : ~Registered(s)
      BY DEF Registered
    <2>3. KeyInv /\ AllocInv
      BY DEF KeyInv, AllocInv
    <2>4. ClosingInv /\ RegisteredIsOpen
      BY <2>2 DEF ClosingInv, RegisteredIsOpen
    <2>5. TimeInv /\ FoundInv /\ StopInv
      BY DEF TimeInv, FoundInv, StopInv
    <2> QED
      BY <2>1, <2>3, <2>4, <2>5 DEF IInv
  <1>2. IInv /\ [Next]_vars => IInv'
    BY TypeStep, KeyStep, AllocStep, ClosingStep, OpenStep, TimeStep,
       FoundStep, StopStep
    DEF IInv
  <1> QED
    BY <1>1, <1>2, PTL DEF Spec

\* Type correctness of the reaper, the requests and the map.
THEOREM TypeCorrect == Spec => []TypeOK
  <1>1. IInv => TypeOK
    BY DEF IInv
  <1> QED
    BY <1>1, Invariance, PTL

\* The queue of a registered session is open until its own GET has ended: every
\* cleaner path unregisters first and closes second.
THEOREM NoDeadSessionRegistered == Spec => []RegisteredIsOpen
  <1>1. IInv => RegisteredIsOpen
    BY DEF IInv
  <1> QED
    BY <1>1, Invariance, PTL

\* The reaper never holds a session younger than the idle window.
THEOREM ReaperSparesTheYoung == Spec => []ReaperHoldsOnlyOld
  <1>1. IInv => ReaperHoldsOnlyOld
    BY DEF IInv, FoundInv, ReaperHoldsOnlyOld
  <1> QED
    BY <1>1, Invariance, PTL

\* stopXHTTPReaper leaves no session behind that existed when it began.
THEOREM ShutdownIsThorough == Spec => []ShutdownLeavesOnlyLate
  <1>1. IInv => ShutdownLeavesOnlyLate
    BY DEF IInv, StopInv, ShutdownLeavesOnlyLate
  <1> QED
    BY <1>1, Invariance, PTL

\* A session leaves the map only because of itself.
THEOREM RemovalsAreJustified == Spec => RemovalJustified
  <1>1. ASSUME IInv, [Next]_vars, NEW s \in Ptrs, Registered(s), ~Registered(s)'
        PROVE  \/ ReapedAsIdle(s) \/ ExpiredUnconnected(s)
               \/ Completed(s) \/ Shutdown(s)
    <2> TypeOK /\ KeyInv /\ AllocInv /\ FoundInv
      BY <1>1 DEF IInv
    <2>1. ASSUME NEW r \in Requests, StreamDefer(r)
          PROVE  Completed(s)
      <3>1. reqSess[r] = s
        BY <1>1, <2>1, CompareAndDeleteRemovesOne DEF StreamDefer, AllocInv
      <3> QED
        BY <2>1, <3>1 DEF StreamDefer, Completed
    <2>2. ASSUME NEW t \in Ptrs, ExpiryDelete(t)
          PROVE  ExpiredUnconnected(s)
      <3>1. t = s
        BY <1>1, <2>2, CompareAndDeleteRemovesOne DEF ExpiryDelete, AllocInv
      <3> QED
        BY <2>2, <3>1 DEF ExpiryDelete, ExpiredUnconnected, FoundInv
    <2>3. CASE ReaperDelete
      <3>1. reapSess = s
        BY <1>1, <2>3, CompareAndDeleteRemovesOne DEF ReaperDelete, AllocInv
      <3> QED
        BY <2>3, <3>1 DEF ReaperDelete, ReapedAsIdle, FoundInv
    <2>4. CASE StopDelete
      <3>1. stopSess = s
        BY <1>1, <2>4, CompareAndDeleteRemovesOne DEF StopDelete, AllocInv
      <3> QED
        BY <2>4, <3>1 DEF StopDelete, Shutdown
    <2>5. ASSUME NEW r \in Requests, NEW id \in Ids, NEW t \in Ptrs
          PROVE  ~UpsertMiss(r, id, t)
      <3>1. SUFFICES ASSUME UpsertMiss(r, id, t) PROVE FALSE
        OBVIOUS
      <3>2. t # s /\ (Registered(s)' <=> Registered(s))
        BY <1>1, <3>1, UpsertMissAddsOne
      <3> QED
        BY <1>1, <3>2
    <2>6. \/ UNCHANGED sessions
          \/ \E r \in Requests : StreamDefer(r)
          \/ \E t \in Ptrs : ExpiryDelete(t)
          \/ ReaperDelete \/ StopDelete
          \/ \E r \in Requests, id \in Ids, t \in Ptrs : UpsertMiss(r, id, t)
      BY <1>1
      DEF Next, Request, Expiry, Reaper, Stopper, Advance, TickAtMaxTime,
          UpsertHit, Push, Connect, Transfer, StreamEnd, ExpiryCheck,
          ExpiryExit, ExpiryClose, ReaperTick, ReaperExit, ReaperSkip,
          ReaperCheck, ReaperClose, ReaperRangeEnds, StopBegin, StopSkip,
          StopVisit, StopClose, StopRangeEnds, ServersClose
    <2>7. ~UNCHANGED sessions
      BY <1>1 DEF Registered
    <2> QED
      BY <2>1, <2>2, <2>3, <2>4, <2>5, <2>6, <2>7
  <1>2. IInv /\ [Next]_vars =>
           [\A s \in Ptrs : Registered(s) /\ ~Registered(s)' =>
              \/ ReapedAsIdle(s)
              \/ ExpiredUnconnected(s)
              \/ Completed(s)
              \/ Shutdown(s)]_vars
    BY <1>1
  <1> QED
    BY <1>2, Invariance, PTL DEF Spec, RemovalJustified
=============================================================================
