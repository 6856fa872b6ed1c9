--------------------------- MODULE MCXhttpReaper ---------------------------
(* Instances of XhttpReaper for TLC. *)
EXTENDS XhttpReaper, TLC

\* Pointers and requests are interchangeable; used by the safety run only.
Symmetry == Permutations(Ptrs) \cup Permutations(Requests)

\* Nobody reads the times of a session that has left the map (it never comes
\* back), unless the reaper still holds it; the fields of an expiry goroutine
\* that has gone are as dead.
Readable(s) == Registered(s) \/ reapSess = s

LiveView ==
    <<now, sessions, key, connected, closed, expiry, reqPc, reqSess, ticker,
      reaper, tick, toScan, reapSess, reaperStop, closer, toStop, stopSess,
      [s \in Ptrs |-> Registered(s) /\ s \in late],
      [s \in Ptrs |-> IF Readable(s) THEN last[s] ELSE 0],
      [s \in Ptrs |-> IF Readable(s) \/ expiry[s] = "select" THEN born[s] ELSE 0]>>
=============================================================================
