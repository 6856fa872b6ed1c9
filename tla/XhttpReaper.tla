---------------------------- MODULE XhttpReaper ----------------------------
(***************************************************************************)
(* The XHTTP session reaper of the patched Xray core                       *)
(* (src/xray_patch/xhttp_cleaner_reaper.go) together with the hooks that   *)
(* src/xray_patch/patch_xray.py puts into hub.go and upload_queue.go.      *)
(*                                                                         *)
(* One requestHandler is modelled: its sync.Map of sessions, the HTTP      *)
(* request goroutines that use it, its one reaper goroutine, one           *)
(* preconnect-expiry goroutine per session and the goroutine that runs     *)
(* Listener.Close.  A step is one atomic operation of one goroutine (a     *)
(* sync.Map operation, an atomic load or store, a channel operation), so   *)
(* that the windows between a check and the removal it justifies are all   *)
(* there.                                                                  *)
(*                                                                         *)
(* Time is a clock `now' in units of the caller's choice.  It stops at     *)
(* MaxTime, which stands for "MaxTime or later".                           *)
(***************************************************************************)
EXTENDS Integers, FiniteSets

CONSTANTS
    Ids,            \* public session IDs (the keys of the map)
    Ptrs,           \* *httpSession pointers, each allocated at most once
    Requests,       \* HTTP request goroutines
    IdleTTL,        \* xhttpCleanerIdleTTL
    CheckInterval,  \* xhttpCleanerCheckInterval
    Grace,          \* xhttpCleanerActivityGrace
    PreconnectTTL,  \* xhttpCleanerPreconnectTTL
    MaxTime,        \* bound on the clock
    Closes,         \* whether the listener may be closed at all
    Nil             \* the nil pointer / no key

ASSUME IntervalAssumption ==
    /\ IdleTTL \in Nat \ {0}
    /\ CheckInterval \in Nat \ {0}
    /\ Grace \in Nat
    /\ PreconnectTTL \in Nat \ {0}
    /\ MaxTime \in Nat
    /\ Closes \in BOOLEAN

ASSUME NilAssumption == Nil \notin Ids /\ Nil \notin Ptrs

VARIABLES
    now,        \* the wall clock
    sessions,   \* requestHandler.sessions: ID -> pointer or Nil
    key,        \* pointer -> the ID it was created for, Nil if unallocated
    born,       \* pointer -> creation time (start of its preconnect timer)
    last,       \* pointer -> activity.lastUnixNano
    connected,  \* pointer -> isFullyConnected.Done()
    closed,     \* pointer -> uploadQueue closed
    expiry,     \* pointer -> pc of its preconnect-expiry goroutine
    reqPc,      \* request -> pc
    reqSess,    \* request -> currentSession
    ticker,     \* buffered tick of the reaper's ticker, -1 when empty
    reaper,     \* pc of the reaper goroutine
    tick,       \* the `now' value the reaper received from the ticker
    toScan,     \* IDs the reaper's Range has not visited yet
    reapSess,   \* the session the reaper examines
    reaperStop, \* reaperStop.Done()
    closer,     \* pc of the goroutine that runs Listener.Close
    toStop,     \* IDs the Range of stopXHTTPReaper has not visited yet
    stopSess,   \* the session stopXHTTPReaper examines
    late        \* history: pointers stored after reaperStop was closed

sessVars   == <<key, born, last, connected, closed>>
reqVars    == <<reqPc, reqSess>>
reaperVars == <<reaper, tick, toScan, reapSess>>
stopVars   == <<reaperStop, closer, toStop, stopSess>>
vars == <<now, sessions, sessVars, expiry, reqVars, ticker, reaperVars,
          stopVars, late>>

CleanerIdleTimeout == IdleTTL + Grace

Registered(s) == \E id \in Ids : sessions[id] = s

(* An operator marked "Bug:" is a plausible mistake in the code; it replaces  *)
(* the definition after it only to show that some property notices.          *)

\* Bug: Delete instead of CompareAndDelete (upstream's code).
DeleteByKey(s) == sessions' = [sessions EXCEPT ![key[s]] = Nil]

\* Bug: closed, but left in the map.
NoDelete(s) == sessions' = sessions /\ sessions[key[s]] = s

CompareAndDelete(s) ==
    sessions' = [sessions EXCEPT ![key[s]] = IF @ = s THEN Nil ELSE @]

Owns(s) == sessions[key[s]] = s

TypeOK ==
    /\ now \in 0..MaxTime
    /\ sessions \in [Ids -> Ptrs \cup {Nil}]
    /\ key \in [Ptrs -> Ids \cup {Nil}]
    /\ born \in [Ptrs -> 0..MaxTime]
    /\ last \in [Ptrs -> 0..MaxTime]
    /\ connected \in [Ptrs -> BOOLEAN]
    /\ closed \in [Ptrs -> BOOLEAN]
    /\ expiry \in [Ptrs -> {"none", "select", "delete", "close", "exit"}]
    /\ reqPc \in [Requests -> {"idle", "got", "stream", "defer"}]
    /\ reqSess \in [Requests -> Ptrs \cup {Nil}]
    /\ ticker \in -1..MaxTime
    /\ reaper \in {"select", "scan", "delete", "close", "exit"}
    /\ tick \in 0..MaxTime
    /\ toScan \subseteq Ids
    /\ reapSess \in Ptrs \cup {Nil}
    /\ reaperStop \in BOOLEAN
    /\ closer \in {"open", "scan", "delete", "close", "stopped", "closed"}
    /\ toStop \subseteq Ids
    /\ stopSess \in Ptrs \cup {Nil}
    /\ late \subseteq Ptrs

Init ==
    /\ now = 0
    /\ sessions = [id \in Ids |-> Nil]
    /\ key = [s \in Ptrs |-> Nil]
    /\ born = [s \in Ptrs |-> 0]
    /\ last = [s \in Ptrs |-> 0]
    /\ connected = [s \in Ptrs |-> FALSE]
    /\ closed = [s \in Ptrs |-> FALSE]
    /\ expiry = [s \in Ptrs |-> "none"]
    /\ reqPc = [r \in Requests |-> "idle"]
    /\ reqSess = [r \in Requests |-> Nil]
    /\ ticker = -1
    /\ reaper = "select"
    /\ tick = 0
    /\ toScan = {}
    /\ reapSess = Nil
    /\ reaperStop = FALSE
    /\ closer = "open"
    /\ toStop = {}
    /\ stopSess = Nil
    /\ late = {}

-----------------------------------------------------------------------------
(* Time.  A time.Ticker fires every CheckInterval; it keeps one tick and    *)
(* drops the ticks its reader is too slow for.  Once the clock stands at    *)
(* MaxTime the ticker goes on firing.                                       *)

Buffered(t) == IF ticker = -1 THEN t ELSE ticker

Advance ==
    /\ now < MaxTime
    /\ now' = now + 1
    /\ ticker' = IF now' % CheckInterval = 0 THEN Buffered(now') ELSE ticker
    /\ UNCHANGED <<sessions, sessVars, expiry, reqVars, reaperVars, stopVars,
                   late>>

TickAtMaxTime ==
    /\ now = MaxTime
    /\ reaper # "exit"
    /\ ticker' = Buffered(now)
    /\ UNCHANGED <<now, sessions, sessVars, expiry, reqVars, reaperVars,
                   stopVars, late>>

-----------------------------------------------------------------------------
(* HTTP requests (hub.go, upstream code with the patched construction).    *)

\* upsertSession finds the ID: the request works on the stored pointer.
UpsertHit(r, id) ==
    /\ reqPc[r] = "idle"
    /\ closer # "closed"
    /\ sessions[id] # Nil
    /\ reqPc' = [reqPc EXCEPT ![r] = "got"]
    /\ reqSess' = [reqSess EXCEPT ![r] = sessions[id]]
    /\ UNCHANGED <<now, sessions, sessVars, expiry, ticker, reaperVars,
                   stopVars, late>>

\* upsertSession creates a session (sessionMu excludes other creations),
\* stores it and starts its preconnect-expiry goroutine.  (Bound: the clock
\* has room left for the preconnect timer.)
UpsertMiss(r, id, s) ==
    /\ reqPc[r] = "idle"
    /\ closer # "closed"
    /\ sessions[id] = Nil
    /\ key[s] = Nil
    /\ now + PreconnectTTL <= MaxTime
    /\ sessions' = [sessions EXCEPT ![id] = s]
    /\ key' = [key EXCEPT ![s] = id]
    /\ born' = [born EXCEPT ![s] = now]
    /\ last' = [last EXCEPT ![s] = now]
    /\ expiry' = [expiry EXCEPT ![s] = "select"]
    /\ reqPc' = [reqPc EXCEPT ![r] = "got"]
    /\ reqSess' = [reqSess EXCEPT ![r] = s]
    /\ late' = IF reaperStop THEN late \cup {s} ELSE late
    /\ UNCHANGED <<now, connected, closed, ticker, reaperVars, stopVars>>

Touch(s) == last' = [last EXCEPT ![s] = now]

\* A POST pushes a payload: Push touches before it looks at `closed'.
Push(r) ==
    /\ reqPc[r] = "got"
    /\ Touch(reqSess[r])
    /\ reqPc' = [reqPc EXCEPT ![r] = "idle"]
    /\ reqSess' = [reqSess EXCEPT ![r] = Nil]
    /\ UNCHANGED <<now, sessions, key, born, connected, closed, expiry,
                   ticker, reaperVars, stopVars, late>>

\* A GET opens the downstream: isFullyConnected.Close().
Connect(r) ==
    /\ reqPc[r] = "got"
    /\ connected' = [connected EXCEPT ![reqSess[r]] = TRUE]
    /\ reqPc' = [reqPc EXCEPT ![r] = "stream"]
    /\ UNCHANGED <<now, sessions, key, born, last, closed, expiry, reqSess,
                   ticker, reaperVars, stopVars, late>>

\* Payload moves: a downstream Write or a Read of the upload queue with n > 0.
Transfer(r) ==
    /\ reqPc[r] = "stream"
    /\ Touch(reqSess[r])
    /\ UNCHANGED <<now, sessions, key, born, connected, closed, expiry,
                   reqVars, ticker, reaperVars, stopVars, late>>

\* The GET ends; the connection's Close closes the upload queue ...
StreamEnd(r) ==
    /\ reqPc[r] = "stream"
    /\ closed' = [closed EXCEPT ![reqSess[r]] = TRUE]
    /\ reqPc' = [reqPc EXCEPT ![r] = "defer"]
    /\ UNCHANGED <<now, sessions, key, born, last, connected, expiry, reqSess,
                   ticker, reaperVars, stopVars, late>>

\* ... and the deferred CompareAndDelete forgets the session.
StreamDefer(r) ==
    /\ reqPc[r] = "defer"
    /\ CompareAndDelete(reqSess[r])
    /\ reqPc' = [reqPc EXCEPT ![r] = "idle"]
    /\ reqSess' = [reqSess EXCEPT ![r] = Nil]
    /\ UNCHANGED <<now, sessVars, expiry, ticker, reaperVars, stopVars,
                   late>>

Request(r) ==
    \/ \E id \in Ids : UpsertHit(r, id)
    \/ \E id \in Ids, s \in Ptrs : UpsertMiss(r, id, s)
    \/ Push(r)
    \/ Connect(r)
    \/ Transfer(r)
    \/ StreamEnd(r)
    \/ StreamDefer(r)

-----------------------------------------------------------------------------
(* startXHTTPPreconnectExpiry and expireUnconnectedXHTTPSession.           *)

\* The timer fires and the session is not connected yet.
ExpiryCheck(s) ==
    /\ expiry[s] = "select"
    /\ now - born[s] >= PreconnectTTL
    /\ ~connected[s]
    /\ expiry' = [expiry EXCEPT ![s] = "delete"]
    /\ UNCHANGED <<now, sessions, sessVars, reqVars, ticker, reaperVars,
                   stopVars, late>>

\* Bug: the expiry goroutine gives up before its session is connected.
ExpiryGivesUp(s) ==
    /\ expiry[s] = "select"
    /\ expiry' = [expiry EXCEPT ![s] = "exit"]
    /\ UNCHANGED <<now, sessions, sessVars, reqVars, ticker, reaperVars,
                   stopVars, late>>

\* The select ends for another reason, or the timer finds it connected.
ExpiryExit(s) ==
    /\ expiry[s] = "select"
    /\ connected[s] \/ closed[s] \/ reaperStop
    /\ expiry' = [expiry EXCEPT ![s] = "exit"]
    /\ UNCHANGED <<now, sessions, sessVars, reqVars, ticker, reaperVars,
                   stopVars, late>>

ExpiryDelete(s) ==
    /\ expiry[s] = "delete"
    /\ CompareAndDelete(s)
    /\ expiry' = [expiry EXCEPT ![s] = IF Owns(s) THEN "close" ELSE "exit"]
    /\ UNCHANGED <<now, sessVars, reqVars, ticker, reaperVars, stopVars,
                   late>>

ExpiryClose(s) ==
    /\ expiry[s] = "close"
    /\ closed' = [closed EXCEPT ![s] = TRUE]
    /\ expiry' = [expiry EXCEPT ![s] = "exit"]
    /\ UNCHANGED <<now, sessions, key, born, last, connected, reqVars,
                   ticker, reaperVars, stopVars, late>>

Expiry(s) == ExpiryCheck(s) \/ ExpiryExit(s) \/ ExpiryDelete(s) \/ ExpiryClose(s)

-----------------------------------------------------------------------------
(* startXHTTPReaper and reapXHTTPSessionIfIdle.                            *)

\* Bug: the loop does not wait for a tick.
ReaperPolls ==
    /\ reaper = "select"
    /\ tick' = ticker
    /\ ticker' = -1
    /\ toScan' = Ids
    /\ reaper' = "scan"
    /\ UNCHANGED <<now, sessions, sessVars, expiry, reqVars,
                   reapSess, stopVars, late>>

ReaperTick ==
    /\ reaper = "select"
    /\ ticker # -1
    /\ tick' = ticker
    /\ ticker' = -1
    /\ toScan' = Ids
    /\ reaper' = "scan"
    /\ UNCHANGED <<now, sessions, sessVars, expiry, reqVars,
                   reapSess, stopVars, late>>

ReaperExit ==
    /\ reaper = "select"
    /\ reaperStop
    /\ reaper' = "exit"
    /\ UNCHANGED <<now, sessions, sessVars, expiry, reqVars, ticker, tick,
                   toScan, reapSess, stopVars, late>>

\* Bug: the activity grace is left out.
IdleWithoutGrace(s, t) == t - last[s] >= IdleTTL

Idle(s, t) == t - last[s] >= CleanerIdleTimeout

\* Range visits a key: nothing stored there, or a session that is not idle.
ReaperSkip(id) ==
    /\ reaper = "scan"
    /\ id \in toScan
    /\ sessions[id] # Nil => ~Idle(sessions[id], tick)
    /\ toScan' = toScan \ {id}
    /\ UNCHANGED <<now, sessions, sessVars, expiry, reqVars, ticker, reaper,
                   tick, reapSess, stopVars, late>>

ReaperCheck(id) ==
    /\ reaper = "scan"
    /\ id \in toScan
    /\ sessions[id] # Nil
    /\ Idle(sessions[id], tick)
    /\ toScan' = toScan \ {id}
    /\ reapSess' = sessions[id]
    /\ reaper' = "delete"
    /\ UNCHANGED <<now, sessions, sessVars, expiry, reqVars, ticker, tick,
                   stopVars, late>>

\* Bug: removed from the map, but never closed.
ReaperForgets ==
    /\ reaper = "delete"
    /\ CompareAndDelete(reapSess)
    /\ reaper' = "scan"
    /\ reapSess' = Nil
    /\ UNCHANGED <<now, sessVars, expiry, reqVars, ticker, tick, toScan,
                   stopVars, late>>

ReaperDelete ==
    /\ reaper = "delete"
    /\ CompareAndDelete(reapSess)
    /\ IF Owns(reapSess)
       THEN reaper' = "close" /\ UNCHANGED reapSess
       ELSE reaper' = "scan" /\ reapSess' = Nil
    /\ UNCHANGED <<now, sessVars, expiry, reqVars, ticker, tick, toScan,
                   stopVars, late>>

ReaperClose ==
    /\ reaper = "close"
    /\ closed' = [closed EXCEPT ![reapSess] = TRUE]
    /\ reaper' = "scan"
    /\ reapSess' = Nil
    /\ UNCHANGED <<now, sessions, key, born, last, connected, expiry, reqVars,
                   ticker, tick, toScan, stopVars, late>>

\* Bug: the goroutine ends after its first tick.
ReaperReturns ==
    /\ reaper = "scan"
    /\ toScan = {}
    /\ reaper' = "exit"
    /\ tick' = 0
    /\ UNCHANGED <<now, sessions, sessVars, expiry, reqVars, ticker, toScan,
                   reapSess, stopVars, late>>

ReaperRangeEnds ==
    /\ reaper = "scan"
    /\ toScan = {}
    /\ reaper' = "select"
    /\ tick' = 0
    /\ UNCHANGED <<now, sessions, sessVars, expiry, reqVars, ticker, toScan,
                   reapSess, stopVars, late>>

Reaper ==
    \/ ReaperTick \/ ReaperExit \/ ReaperDelete \/ ReaperClose
    \/ ReaperRangeEnds
    \/ \E id \in Ids : ReaperSkip(id) \/ ReaperCheck(id)

-----------------------------------------------------------------------------
(* Listener.Close: stopXHTTPReaper first, then the servers.                *)

\* Bug: the Range begins before reaperStop is closed.
StopWithoutSignal ==
    /\ Closes
    /\ closer = "open"
    /\ toStop' = Ids
    /\ closer' = "scan"
    /\ UNCHANGED <<now, sessions, sessVars, expiry, reqVars, ticker,
                   reaperVars, reaperStop, stopSess, late>>

StopBegin ==
    /\ Closes
    /\ closer = "open"
    /\ ~reaperStop
    /\ reaperStop' = TRUE
    /\ toStop' = Ids
    /\ closer' = "scan"
    /\ UNCHANGED <<now, sessions, sessVars, expiry, reqVars, ticker,
                   reaperVars, stopSess, late>>

StopSkip(id) ==
    /\ closer = "scan"
    /\ id \in toStop
    /\ sessions[id] = Nil
    /\ toStop' = toStop \ {id}
    /\ UNCHANGED <<now, sessions, sessVars, expiry, reqVars, ticker,
                   reaperVars, reaperStop, closer, stopSess, late>>

StopVisit(id) ==
    /\ closer = "scan"
    /\ id \in toStop
    /\ sessions[id] # Nil
    /\ toStop' = toStop \ {id}
    /\ stopSess' = sessions[id]
    /\ closer' = "delete"
    /\ UNCHANGED <<now, sessions, sessVars, expiry, reqVars, ticker,
                   reaperVars, reaperStop, late>>

StopDelete ==
    /\ closer = "delete"
    /\ CompareAndDelete(stopSess)
    /\ IF Owns(stopSess)
       THEN closer' = "close" /\ UNCHANGED stopSess
       ELSE closer' = "scan" /\ stopSess' = Nil
    /\ UNCHANGED <<now, sessVars, expiry, reqVars, ticker, reaperVars,
                   reaperStop, toStop, late>>

StopClose ==
    /\ closer = "close"
    /\ closed' = [closed EXCEPT ![stopSess] = TRUE]
    /\ closer' = "scan"
    /\ stopSess' = Nil
    /\ UNCHANGED <<now, sessions, key, born, last, connected, expiry, reqVars,
                   ticker, reaperVars, reaperStop, toStop, late>>

StopRangeEnds ==
    /\ closer = "scan"
    /\ toStop = {}
    /\ closer' = "stopped"
    /\ UNCHANGED <<now, sessions, sessVars, expiry, reqVars, ticker,
                   reaperVars, reaperStop, toStop, stopSess, late>>

\* The rest of Listener.Close: no request is accepted from here on.
ServersClose ==
    /\ closer = "stopped"
    /\ closer' = "closed"
    /\ UNCHANGED <<now, sessions, sessVars, expiry, reqVars, ticker,
                   reaperVars, reaperStop, toStop, stopSess, late>>

Stopper ==
    \/ StopDelete \/ StopClose \/ StopRangeEnds \/ ServersClose
    \/ \E id \in Ids : StopSkip(id) \/ StopVisit(id)

-----------------------------------------------------------------------------

Next ==
    \/ Advance
    \/ TickAtMaxTime
    \/ \E r \in Requests : Request(r)
    \/ \E s \in Ptrs : Expiry(s)
    \/ Reaper
    \/ StopBegin
    \/ Stopper

(***************************************************************************)
(* Time passes, timers fire and the cleaner's goroutines are scheduled.    *)
(* Clients owe nothing: no request is ever sure to be continued, and the   *)
(* listener need not be closed.                                            *)
(***************************************************************************)
Fairness ==
    /\ WF_vars(Advance)
    /\ WF_vars(TickAtMaxTime)
    /\ \A s \in Ptrs : WF_vars(Expiry(s))
    /\ WF_vars(Reaper)
    /\ WF_vars(Stopper)
    /\ \A r \in Requests : WF_vars(StreamDefer(r))

Spec == Init /\ [][Next]_vars

FairSpec == Spec /\ Fairness

-----------------------------------------------------------------------------
(* Safety.                                                                 *)

\* Everything that may take a session out of the map, for a given session.
ReapedAsIdle(s) ==
    /\ reaper = "delete" /\ reapSess = s
    /\ Idle(s, tick) \/ last[s] >= tick

ExpiredUnconnected(s) == expiry[s] = "delete" /\ now - born[s] >= PreconnectTTL

Completed(s) == \E r \in Requests : reqPc[r] = "defer" /\ reqSess[r] = s

Shutdown(s) == closer = "delete" /\ stopSess = s

\* A session leaves the map only because of itself: the reaper saw this very
\* pointer idle for IdleTTL + Grace (payload since then falls into the window
\* between the check and CompareAndDelete), its own preconnect timer ran out,
\* its own GET ended, or the listener shuts down.  In particular, the end of an
\* old session never removes a newer one that reuses its ID.
RemovalJustified ==
    [][\A s \in Ptrs : Registered(s) /\ ~Registered(s)' =>
          \/ ReapedAsIdle(s)
          \/ ExpiredUnconnected(s)
          \/ Completed(s)
          \/ Shutdown(s)]_vars

\* The queue of a registered session is open, except between the end of its GET
\* and the deferred CompareAndDelete: every cleaner path unregisters first and
\* closes second, so a new request never joins a session the cleaner has killed.
RegisteredIsOpen ==
    \A s \in Ptrs : Registered(s) /\ closed[s] => Completed(s)

\* The reaper never holds a session younger than the idle window, although the
\* tick it compares with may be older than the clock.
ReaperHoldsOnlyOld ==
    reaper \in {"delete", "close"} => now - born[reapSess] >= CleanerIdleTimeout

\* When stopXHTTPReaper has returned, whatever is still registered was stored
\* after reaperStop was closed: no session that existed before escapes, however
\* requests, the reaper and the expiry goroutines interleave with the Range.
ShutdownLeavesOnlyLate ==
    closer \in {"stopped", "closed"} =>
        \A s \in Ptrs : Registered(s) => s \in late

(* Liveness.                                                               *)

\* A session without payload is released: unless traffic resumes or the
\* listener stops, an idle registered session leaves the map.
IdleIsReaped ==
    \A s \in Ptrs :
        (Registered(s) /\ now - last[s] >= CleanerIdleTimeout)
            ~> (~Registered(s) \/ now - last[s] < CleanerIdleTimeout \/ reaperStop)

\* A session no GET ever joins is released.
UnconnectedExpires ==
    \A s \in Ptrs :
        Registered(s) ~> (~Registered(s) \/ connected[s] \/ reaperStop)

\* A session out of the map has its upload queue closed sooner or later: no
\* path unregisters it and leaves its reader blocked.
RemovedIsClosed ==
    \A s \in Ptrs : (key[s] # Nil /\ ~Registered(s)) ~> closed[s]

=============================================================================
