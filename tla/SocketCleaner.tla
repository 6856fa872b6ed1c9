---------------------------- MODULE SocketCleaner ----------------------------
(***************************************************************************)
(* The external socket cleaner: the worker of src/remnanode-xhttp-clean.py *)
(* inside the network namespace of the container, against a kernel whose   *)
(* sockets open, carry data, close and reuse inodes and addresses at every *)
(* moment of the sweep.                                                    *)
(*                                                                         *)
(* A socket is named by its kernel cookie, which is never reused; inodes   *)
(* and address tuples are.  Every system call of the worker is one step.   *)
(*                                                                         *)
(* An IP address is [version, ip]; ip is "any" for the unspecified one, and *)
(* [6, ip] is the IPv4-mapped form of [4, ip].                              *)
(***************************************************************************)
EXTENDS Integers, FiniteSets

CONSTANTS
    Sockets,        \* kernel cookies, in the order of the sockets
    Inbounds,       \* of the rendered config: [network, port, address, unix]
    Tuples,         \* [port, address, by, loopback]: local port and address,
                    \* the inbound that accepted it or Nil, and what is_loopback
                    \* says of its addresses
    Inodes,
    Configs,        \* contents of the configuration file
    Idle,           \* idle_seconds, in ticks
    Recheck,        \* ACTIVITY_RECHECK_SECONDS, in ticks
    MaxFaults,      \* bound on timeouts and failed calls
    Nil

Ports == {t.port : t \in Tuples}

Inbound(t) == t.by # Nil

InboundPorts == {t.port : t \in {u \in Tuples : Inbound(u)}}

\* "" and "*", "0.0.0.0" and "::" as the address of an inbound.
Everywhere == [version |-> 0, ip |-> "any"]
IPv4Wildcard == [version |-> 4, ip |-> "any"]
IPv6Wildcard == [version |-> 6, ip |-> "any"]

ASSUME SocketAssumption == Sockets \subseteq Nat

\* The kernel reports the connections of a listener on one address with that
\* address.  Go opens each wildcard as a dual-stack IPv6 socket, where the kernel
\* has IPv6: those of IPv4 clients are reported mapped.
ASSUME TupleAssumption ==
    \A t \in Tuples :
        /\ t.loopback \in BOOLEAN
        /\ t.address.version \in {4, 6}
        /\ t.address.ip # "any"
        /\ Inbound(t) =>
              /\ t.by \in Inbounds /\ ~t.by.unix /\ t.port = t.by.port
              /\ t.by.address.ip # "any" => t.address = t.by.address
              /\ t.by.address = IPv6Wildcard => t.address.version = 6

\* Config.validate: idle_seconds is at least 300; the recheck takes 30.
ASSUME IdleAssumption ==
    /\ Idle \in Nat
    /\ Recheck \in Nat
    /\ Recheck < Idle

ASSUME ConfigAssumption ==
    Configs \subseteq [include_inbound : BOOLEAN,
                       exclude_loopback : BOOLEAN,
                       clean_xhttp_buffers : BOOLEAN,
                       clean_close_wait : BOOLEAN,
                       clean_established_outbound : BOOLEAN]

ASSUME MiscAssumption ==
    /\ MaxFaults \in Nat
    /\ Nil \notin Sockets /\ Nil \notin Tuples
    /\ Nil \notin Inodes /\ Nil \notin Inbounds

VARIABLES
    state,          \* "new", "established", "closewait" or "closed"
    tuple,          \* address tuple of a live socket, else Nil
    inode,          \* inode of a live socket, else Nil
    core,           \* the sockets the core has a descriptor of
    sent, received, \* ticks since the last data in each direction, up to Idle
    listening,      \* local ports the core listens on
    reopened,       \* history: those that opened since owned_before was read
    config,         \* the configuration, the same in every sweep
    pc,             \* where the worker is
    xhttp,          \* the listeners discover_xhttp_listeners returned
    owned,          \* owned_before, then owned_now: inodes of the core
    listen_ports,   \* what the worker takes for the core's listening ports
    candidates,     \* candidates the loop has not reached: set of records
    current,        \* the candidate confirmed by query_exact, or Nil
    timer,          \* ticks left of time.sleep
    touched,        \* history: current had traffic after it was confirmed
    faults

kernelVars == <<state, tuple, inode, core, sent, received>>
workerVars == <<pc, xhttp, owned, listen_ports, candidates, current, timer>>
listenerVars == <<listening, reopened>>
vars == <<kernelVars, listenerVars, config, workerVars, touched, faults>>

Live(s) == state[s] \in {"established", "closewait"}

Kinds == {"CLOSE-WAIT", "XHTTP-BUFFER", "INBOUND", "OUTBOUND"}

\* The TCP listeners of the XHTTP inbounds; a unix socket is none.
parse_xhttp_listeners(inbounds) ==
    {[port |-> i.port, address |-> i.address] :
        i \in {j \in inbounds : j.network \in {"xhttp", "splithttp"} /\ ~j.unix}}

XhttpListeners == parse_xhttp_listeners(Inbounds)

\* What the worker keeps of a dumped socket.
Record == [cookie : Sockets, inode : Inodes, tuple : Tuples, kind : Kinds]

ASSUME RecordAssumption == Nil \notin Record

TypeOK ==
    /\ state \in [Sockets -> {"new", "established", "closewait", "closed"}]
    /\ tuple \in [Sockets -> Tuples \cup {Nil}]
    /\ inode \in [Sockets -> Inodes \cup {Nil}]
    /\ \A s \in Sockets :
          Live(s) <=> tuple[s] # Nil /\ inode[s] # Nil
    /\ core \subseteq {s \in Sockets : Live(s)}
    /\ sent \in [Sockets -> 0..Idle]
    /\ received \in [Sockets -> 0..Idle]
    /\ listening \subseteq Ports
    /\ reopened \subseteq listening
    /\ config \in Configs
    /\ pc \in {"idle", "owned", "dump", "sleep", "refresh", "query", "destroy"}
    /\ xhttp \subseteq XhttpListeners
    /\ owned \subseteq Inodes
    /\ listen_ports \subseteq Ports
    /\ candidates \subseteq Record
    /\ current \in Record \cup {Nil}
    /\ (pc = "destroy") <=> (current # Nil)
    /\ timer \in 0..Recheck
    /\ touched \in BOOLEAN
    /\ faults \in 0..MaxFaults

Init ==
    /\ state = [s \in Sockets |-> "new"]
    /\ tuple = [s \in Sockets |-> Nil]
    /\ inode = [s \in Sockets |-> Nil]
    /\ core = {}
    /\ sent = [s \in Sockets |-> 0]
    /\ received = [s \in Sockets |-> 0]
    /\ listening = InboundPorts
    /\ reopened = {}
    /\ config \in Configs
    /\ pc = "idle"
    /\ xhttp = {}
    /\ owned = {}
    /\ listen_ports = {}
    /\ candidates = {}
    /\ current = Nil
    /\ timer = 0
    /\ touched = FALSE
    /\ faults = 0

-----------------------------------------------------------------------------
(* The kernel, the core and the other processes of the container.          *)

\* Traffic on the socket the worker is about to destroy.
Touch(s) == touched' = (touched \/ (current # Nil /\ current.cookie = s))

\* Sockets open in the order of their cookies, and the inodes are alike until
\* one of them is used.
InOrder(s, i) ==
    IF \A r \in Sockets : state[r] = "new"
    THEN /\ \A r \in Sockets : s <= r
         /\ i = CHOOSE j \in Inodes : TRUE
    ELSE \A r \in Sockets : r < s => state[r] # "new"

\* An accepted or a connected socket takes a free tuple and a free inode.  Of
\* the other processes only the outgoing connections are modelled.
Open(s, t, i) ==
    /\ state[s] = "new"
    /\ InOrder(s, i)
    /\ \A r \in Sockets : tuple[r] # t /\ inode[r] # i
    /\ state' = [state EXCEPT ![s] = "established"]
    /\ tuple' = [tuple EXCEPT ![s] = t]
    /\ inode' = [inode EXCEPT ![s] = i]
    /\ \/ /\ Inbound(t) => t.port \in listening
          /\ core' = core \cup {s}
       \/ /\ ~Inbound(t)
          /\ UNCHANGED core
    /\ UNCHANGED <<sent, received, listenerVars, config, workerVars, touched,
                   faults>>

Send(s) ==
    /\ Live(s)
    /\ sent' = [sent EXCEPT ![s] = 0]
    /\ Touch(s)
    /\ UNCHANGED <<state, tuple, inode, core, received, listenerVars, config,
                   workerVars, faults>>

Receive(s) ==
    /\ state[s] = "established"
    /\ received' = [received EXCEPT ![s] = 0]
    /\ Touch(s)
    /\ UNCHANGED <<state, tuple, inode, core, sent, listenerVars, config,
                   workerVars, faults>>

\* A FIN carries no data: the times stay.
PeerCloses(s) ==
    /\ state[s] = "established"
    /\ state' = [state EXCEPT ![s] = "closewait"]
    /\ UNCHANGED <<tuple, inode, core, sent, received, listenerVars, config,
                   workerVars, touched, faults>>

\* The socket goes, and its tuple and inode are free again.
Dies(s) ==
    /\ state' = [state EXCEPT ![s] = "closed"]
    /\ tuple' = [tuple EXCEPT ![s] = Nil]
    /\ inode' = [inode EXCEPT ![s] = Nil]
    /\ core' = core \ {s}
    /\ sent' = [sent EXCEPT ![s] = 0]
    /\ received' = [received EXCEPT ![s] = 0]

OwnerCloses(s) ==
    /\ Live(s)
    /\ Dies(s)
    /\ UNCHANGED <<listenerVars, config, workerVars, touched, faults>>

\* An inbound is removed; the connections it accepted live on.
ListenerCloses(p) ==
    /\ p \in listening
    /\ listening' = listening \ {p}
    /\ reopened' = reopened \ {p}
    /\ UNCHANGED <<kernelVars, config, workerVars, touched, faults>>

\* It is added again.
ListenerOpens(p) ==
    /\ p \in InboundPorts \ listening
    /\ listening' = listening \cup {p}
    /\ reopened' = IF pc \in {"idle", "owned"} THEN {} ELSE reopened \cup {p}
    /\ UNCHANGED <<kernelVars, config, workerVars, touched, faults>>

Older(age) ==
    [s \in Sockets |-> IF Live(s) /\ age[s] < Idle THEN age[s] + 1 ELSE age[s]]

Tick ==
    /\ sent' = Older(sent)
    /\ received' = Older(received)
    /\ timer' = IF timer > 0 THEN timer - 1 ELSE 0
    /\ UNCHANGED <<state, tuple, inode, core, listenerVars, config, pc, xhttp,
                   owned, listen_ports, candidates, current, touched, faults>>

-----------------------------------------------------------------------------
(* The worker.                                                             *)
(* An operator marked "Bug:" is a plausible mistake in the code; it replaces *)
(* the definition after it only to show that some property notices.        *)

OwnedInodes == {inode[s] : s \in core}

\* SocketRecord.idle_ms is the smaller of the two times, and unknown when one
\* of them is zero.
IdleLong(s) == sent[s] >= Idle /\ received[s] >= Idle

\* Bug: a listener is known by its port.
MatchesPort(t, listener) == t.port = listener.port

xhttp_listener_matches(t, listener) ==
    LET configured == listener.address
        local      == t.address
    IN /\ t.port = listener.port
       /\ \/ configured = Everywhere
          \/ configured.ip = "any" /\ configured.version = local.version
          \/ configured = local
          \/ local = [configured EXCEPT !.version = 6]

\* The kind under which a sweep with configuration c may close a socket that
\* has been idle for long enough: none or one.
KindsOf(s, c, ports) ==
    LET t == tuple[s]
        is_xhttp == /\ c.clean_xhttp_buffers
                    /\ \E listener \in xhttp : xhttp_listener_matches(t, listener)
        kind == CASE t.port \in ports /\ is_xhttp -> "XHTTP-BUFFER"
                  [] t.port \in ports /\ ~is_xhttp -> "INBOUND"
                  [] t.port \notin ports -> "OUTBOUND"
        wanted == \/ kind = "XHTTP-BUFFER"
                  \/ kind = "INBOUND" /\ c.include_inbound
                  \/ kind = "OUTBOUND" /\ c.clean_established_outbound
        exempt == c.exclude_loopback /\ kind # "XHTTP-BUFFER" /\ t.loopback
    IN IF state[s] = "closewait"
       THEN IF c.clean_close_wait THEN {"CLOSE-WAIT"} ELSE {}
       ELSE IF wanted /\ ~exempt THEN {kind} ELSE {}

candidate_kind(s, inodes, ports) ==
    IF inode[s] \in inodes /\ IdleLong(s) THEN KindsOf(s, config, ports) ELSE {}

Established(c) ==
    c.clean_xhttp_buffers \/ c.clean_established_outbound \/ c.include_inbound

diagnostic_states(c) ==
    (IF c.clean_close_wait THEN {"closewait"} ELSE {})
    \cup (IF Established(c) THEN {"established", "listen"} ELSE {})

\* A command that fails leaves nothing behind.
Ends ==
    /\ pc' = "idle"
    /\ xhttp' = {}
    /\ owned' = {}
    /\ listen_ports' = {}
    /\ candidates' = {}
    /\ current' = Nil
    /\ timer' = 0
    /\ touched' = FALSE
    /\ reopened' = {}

Fault ==
    /\ faults < MaxFaults
    /\ faults' = faults + 1

\* The timer starts the service: run_worker reads the XHTTP listeners of the
\* rendered config, or none when the container does not answer.
Start ==
    /\ pc = "idle"
    /\ pc' = "owned"
    /\ \/ /\ xhttp' = IF config.clean_xhttp_buffers THEN XhttpListeners ELSE {}
          /\ UNCHANGED faults
       \/ Fault /\ xhttp' = {}
    /\ UNCHANGED <<kernelVars, listenerVars, config, owned, listen_ports,
                   candidates, current, timer, touched>>

\* owned_before, which holds the inodes of the listeners as well.
OwnedBefore ==
    /\ pc = "owned"
    /\ pc' = "dump"
    /\ owned' = OwnedInodes
    /\ listen_ports' = listening
    /\ UNCHANGED <<kernelVars, listenerVars, config, xhttp, candidates, current,
                   timer, touched, faults>>

\* dump_all, the listening ports of the dump and the candidates.  A listener that
\* has opened since owned_before may have got an inode that is in it.
Dump ==
    /\ pc = "dump"
    /\ \E again \in SUBSET reopened :
       LET states == diagnostic_states(config)
           ports == IF "listen" \in states
                    THEN ((listen_ports \cap listening) \ reopened) \cup again
                    ELSE {}
           records == {s \in Sockets : state[s] \in states}
       IN /\ listen_ports' = ports
          /\ candidates' =
                UNION {{[cookie |-> s, inode |-> inode[s],
                         tuple |-> tuple[s], kind |-> k] :
                            k \in candidate_kind(s, owned, ports)} :
                       s \in records}
    /\ pc' = IF candidates' = {} THEN "refresh" ELSE "sleep"
    /\ timer' = IF candidates' = {} THEN 0 ELSE Recheck
    /\ UNCHANGED <<kernelVars, listenerVars, config, xhttp, owned, current,
                   touched, faults>>

Wake ==
    /\ pc = "sleep"
    /\ timer = 0
    /\ pc' = "refresh"
    /\ UNCHANGED <<kernelVars, listenerVars, config, xhttp, owned, listen_ports,
                   candidates, current, timer, touched, faults>>

\* Bug: the ownership of before the dump is trusted.
OwnedStays ==
    /\ pc = "refresh"
    /\ pc' = "query"
    /\ UNCHANGED <<kernelVars, listenerVars, config, xhttp, owned, listen_ports,
                   candidates, current, timer, touched, faults>>

\* owned_now.
OwnedNow ==
    /\ pc = "refresh"
    /\ pc' = "query"
    /\ owned' = OwnedInodes
    /\ UNCHANGED <<kernelVars, listenerVars, config, xhttp, listen_ports,
                   candidates, current, timer, touched, faults>>

\* query_exact found the socket of record r, and it is the same candidate.
Confirmed(r) ==
    /\ Live(r.cookie)
    /\ r.kind \in candidate_kind(r.cookie, owned, listen_ports)

Query(r) ==
    /\ pc = "query"
    /\ r \in candidates
    /\ Confirmed(r)
    /\ current' = r
    /\ candidates' = candidates \ {r}
    /\ pc' = "destroy"
    /\ UNCHANGED <<kernelVars, listenerVars, config, xhttp, owned, listen_ports,
                   timer, touched, faults>>

\* Bug: the first candidate that changed ends the sweep.
ChangedEndsSweep(r) ==
    /\ pc = "query"
    /\ r \in candidates
    /\ ~Confirmed(r)
    /\ candidates' = {}
    /\ UNCHANGED <<kernelVars, listenerVars, config, pc, xhttp, owned,
                   listen_ports, current, timer, touched, faults>>

\* The socket is gone, has changed, or the answer does not come in time.
SkipChanged(r) ==
    /\ pc = "query"
    /\ r \in candidates
    /\ \/ ~Confirmed(r) /\ UNCHANGED faults
       \/ Fault
    /\ candidates' = candidates \ {r}
    /\ UNCHANGED <<kernelVars, listenerVars, config, pc, xhttp, owned,
                   listen_ports, current, timer, touched>>

\* The sockets SOCK_DESTROY closes: none if the cookie has gone.
Target(r) == {s \in Sockets : Live(s) /\ s = r.cookie}

\* Bug: the record of the last candidate is kept.
NextKeepsRecord == pc' = "query" /\ touched' = FALSE /\ UNCHANGED current

NextCandidate == pc' = "query" /\ current' = Nil /\ touched' = FALSE

\* Bug: the request names the tuple and no cookie.
DestroyByTuple ==
    /\ pc = "destroy"
    /\ \/ \E s \in Sockets : tuple[s] = current.tuple /\ Dies(s)
       \/ /\ \A s \in Sockets : tuple[s] # current.tuple
          /\ UNCHANGED kernelVars
    /\ NextCandidate
    /\ UNCHANGED <<listenerVars, config, xhttp, owned, listen_ports, candidates,
                   timer, faults>>

Destroy ==
    /\ pc = "destroy"
    /\ \/ \E s \in Target(current) : Dies(s)
       \/ Target(current) = {} /\ UNCHANGED kernelVars
    /\ NextCandidate
    /\ UNCHANGED <<listenerVars, config, xhttp, owned, listen_ports, candidates,
                   timer, faults>>

\* No acknowledgement in three seconds, or an error other than "no such
\* socket": the kernel has done it or not, and the worker is over.
DestroyFails ==
    /\ pc = "destroy"
    /\ Fault
    /\ \/ \E s \in Target(current) : Dies(s)
       \/ UNCHANGED kernelVars
    /\ Ends
    /\ UNCHANGED <<listening, config>>

\* /proc/<pid>/fd cannot be read, the dump times out, or the kernel answers a query
\* with an error other than "no such socket".
ReadFails ==
    /\ \/ pc \in {"owned", "dump", "refresh"}
       \/ pc = "query" /\ candidates # {}
    /\ Fault
    /\ Ends
    /\ UNCHANGED <<kernelVars, listening, config>>

Done ==
    /\ pc = "query"
    /\ candidates = {}
    /\ Ends
    /\ UNCHANGED <<kernelVars, listening, config, faults>>

Worker ==
    \/ OwnedBefore \/ Dump \/ Wake \/ OwnedNow \/ Destroy \/ Done
    \/ \E r \in candidates : Query(r) \/ SkipChanged(r)

Environment ==
    \/ Tick
    \/ \E p \in Ports : ListenerCloses(p) \/ ListenerOpens(p)
    \/ \E s \in Sockets :
          \/ Send(s) \/ Receive(s) \/ PeerCloses(s) \/ OwnerCloses(s)
          \/ \E t \in Tuples, i \in Inodes : Open(s, t, i)

Next == Environment \/ Start \/ Worker \/ DestroyFails \/ ReadFails

Spec == Init /\ [][Next]_vars

\* Time passes, the timer starts the service and the worker goes on.
Fairness == WF_vars(Tick) /\ WF_vars(Start) /\ WF_vars(Worker)

FairSpec == Spec /\ Fairness

-----------------------------------------------------------------------------
(* Safety.                                                                 *)

\* The step is one of the worker and closes s.
Destroys(s) ==
    pc = "destroy" /\ pc' # "destroy" /\ Live(s) /\ state'[s] = "closed"

\* Only sockets of the core are destroyed, although the core is known by
\* inodes, which other processes get while the worker is at work.
OnlyCoreSockets ==
    [][\A s \in Sockets : Destroys(s) => s \in core]_vars

\* A destroyed socket has carried no data in either direction for the idle
\* time, or only since its last check; a socket that took over the addresses
\* of a candidate has not been idle and is left alone.
OnlyIdleSockets ==
    [][\A s \in Sockets : Destroys(s) => IdleLong(s) \/ touched]_vars

IsXhttp(t) == Inbound(t) /\ t.by.network \in {"xhttp", "splithttp"}

\* While its inbound is there, and has been since the worker began to read, an
\* accepted connection whose peer is still there is closed only if the
\* configuration asks for inbound sockets or for those of its XHTTP inbound;
\* another inbound may share the port on another address, and other inbounds may
\* be removed and added while the sweep works with what it has read.
AcceptedAreProtected ==
    [][\A s \in Sockets :
          /\ Destroys(s)
          /\ state[s] = "established"
          /\ Inbound(tuple[s])
          /\ tuple[s].port \in listening \ reopened
          => \/ config.include_inbound
             \/ config.clean_xhttp_buffers /\ IsXhttp(tuple[s])]_vars

(* Liveness.                                                               *)

\* An idle core socket which an XHTTP inbound that is there has accepted, and
\* which the configuration asks to close.
IdleXhttp(s) ==
    /\ s \in core
    /\ IdleLong(s)
    /\ config.clean_xhttp_buffers
    /\ state[s] = "established"
    /\ IsXhttp(tuple[s])
    /\ tuple[s].port \in listening

\* A connection of an inbound on 0.0.0.0 that the kernel reports with an IPv6
\* address, since the listener is dual-stack.
OfDualStackIPv4(t) ==
    Inbound(t) /\ t.by.address = IPv4Wildcard /\ t.address.version = 6

\* What a sweep is able to find of what the configuration asks to close.
Leaked(s) ==
    \/ /\ s \in core
       /\ IdleLong(s)
       /\ config.clean_close_wait /\ state[s] = "closewait"
    \/ IdleXhttp(s) /\ ~OfDualStackIPv4(tuple[s])

\* An idle core socket whose peer has closed does not stay, nor one that an XHTTP
\* inbound has accepted, on one address or on "::" (where the kernel reports mapped
\* addresses), whatever other sockets and listeners do to the sweeps.  An inbound
\* on 0.0.0.0 is left out: see DualStackLeaksAreClosed.
LeaksAreClosed == [](\A s \in Sockets : Leaked(s) => <>~Leaked(s))

-----------------------------------------------------------------------------
(* What the documentation says, and the code does not keep.                *)

\* Comment in xhttp_listener_matches: a dual-stack listener's IPv4 connections have
\* mapped addresses, which the function is to recognise; so with clean_xhttp_buffers
\* an idle connection goes whichever wildcard its XHTTP inbound listens on.
DualStackLeaksAreClosed == \A s \in Sockets : IdleXhttp(s) ~> ~IdleXhttp(s)
=============================================================================
