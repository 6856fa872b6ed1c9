-------------------------- MODULE SocketCleanerProofs --------------------------
(***************************************************************************)
(* Theorems about SocketCleaner, for any number of sockets, any tuples,    *)
(* inodes, configurations and times, and any number of faults.             *)
(***************************************************************************)
EXTENDS SocketCleaner, TLAPS

USE DEF vars, kernelVars, listenerVars, workerVars

-----------------------------------------------------------------------------
(* The inductive invariant.                                                *)

\* Live sockets have different inodes: an inode of the core names its socket.
InodeInv ==
    \A r, s \in Sockets : inode[r] = inode[s] /\ inode[r] # Nil => r = s

\* A candidate has been a socket and will be no other one; once the ownership has
\* been read again, one whose inode is among those read is the core's.
CandidateInv ==
    \A c \in candidates :
        /\ state[c.cookie] # "new"
        /\ pc \in {"query", "destroy"} /\ inode[c.cookie] \in owned => c.cookie \in core

\* What the confirmation has shown of the candidate to be destroyed remains true
\* until it has gone.
CurrentInv ==
    pc = "destroy" =>
        /\ state[current.cookie] # "new"
        /\ Live(current.cookie) =>
              /\ current.cookie \in core
              /\ IdleLong(current.cookie) \/ touched

\* The listening ports of a sweep are never fewer than those there have been all
\* the time, if the sweep asks for them.
PortsInv ==
    /\ pc = "dump" => listening \ reopened \subseteq listen_ports
    /\ pc \in {"sleep", "refresh", "query", "destroy"} /\ Established(config) =>
          listening \ reopened \subseteq listen_ports

IInv ==
    /\ TypeOK
    /\ InodeInv
    /\ CandidateInv
    /\ CurrentInv
    /\ PortsInv

\* While its inbound is there, and has been since the sweep began to read, an
\* accepted connection whose peer is still there is to be destroyed only if the
\* configuration asks for it.
ProtectedInv ==
    LET s == current.cookie IN
    /\ pc = "destroy"
    /\ state[s] = "established"
    /\ Inbound(tuple[s])
    /\ tuple[s].port \in listening \ reopened
    => \/ config.include_inbound
       \/ config.clean_xhttp_buffers /\ IsXhttp(tuple[s])

-----------------------------------------------------------------------------
(* Invariance.                                                             *)

LEMMA InitHolds == Init => IInv
  <1> SUFFICES ASSUME Init PROVE IInv
    OBVIOUS
  <1> USE DEF Init
  <1>1. TypeOK
    <2>1. 0 \in 0..Idle /\ 0 \in 0..Recheck /\ 0 \in 0..MaxFaults
      BY IdleAssumption, MiscAssumption
    <2>2. \A s \in Sockets : ~Live(s)
      BY DEF Live
    <2>3. listening \subseteq Ports /\ reopened \subseteq listening
      BY DEF Ports, InboundPorts
    <2> QED
      BY <2>1, <2>2, <2>3 DEF TypeOK
  <1>2. InodeInv /\ CandidateInv /\ CurrentInv /\ PortsInv
    BY DEF InodeInv, CandidateInv, CurrentInv, PortsInv
  <1> QED
    BY <1>1, <1>2 DEF IInv

\* The kernel, the core and the other processes.
LEMMA EnvironmentKeeps == IInv /\ Environment => IInv'
  <1> SUFFICES ASSUME IInv, Environment PROVE IInv'
    OBVIOUS
  <1> USE IdleAssumption, MiscAssumption DEF IInv, TypeOK, InodeInv, CandidateInv, CurrentInv,
       PortsInv, Live, IdleLong, Record, Ports, Established
  <1>1. ASSUME NEW s \in Sockets, NEW t \in Tuples, NEW i \in Inodes, Open(s, t, i)
        PROVE  IInv'
    BY <1>1 DEF Open
  <1>2. ASSUME NEW s \in Sockets, Send(s) PROVE IInv'
    <2>1. TypeOK' /\ InodeInv' /\ CandidateInv' /\ PortsInv'
      BY <1>2 DEF Send, Touch
    <2>2. CurrentInv'
      BY <1>2 DEF Send, Touch
    <2> QED
      BY <2>1, <2>2
  <1>3. ASSUME NEW s \in Sockets, Receive(s) PROVE IInv'
    <2>1. TypeOK' /\ InodeInv' /\ CandidateInv' /\ PortsInv'
      BY <1>3 DEF Receive, Touch
    <2>2. CurrentInv'
      BY <1>3 DEF Receive, Touch
    <2> QED
      BY <2>1, <2>2
  <1>4. ASSUME NEW s \in Sockets, PeerCloses(s) PROVE IInv'
    BY <1>4 DEF PeerCloses
  <1>5. ASSUME NEW s \in Sockets, OwnerCloses(s) PROVE IInv'
    BY <1>5 DEF OwnerCloses, Dies
  <1>6. ASSUME NEW p \in Ports, ListenerCloses(p) PROVE IInv'
    BY <1>6 DEF ListenerCloses
  <1>8. ASSUME NEW p \in Ports, ListenerOpens(p) PROVE IInv'
    BY <1>8 DEF ListenerOpens, InboundPorts
  <1>7. ASSUME Tick PROVE IInv'
    BY <1>7 DEF Tick, Older
  <1> QED
    BY <1>1, <1>2, <1>3, <1>4, <1>5, <1>6, <1>7, <1>8 DEF Environment

\* The worker as it looks at the sockets.
LEMMA LooksKeep ==
    IInv /\ (Start \/ OwnedBefore \/ Dump \/ Wake \/ OwnedNow) => IInv'
  <1> USE IdleAssumption, MiscAssumption DEF IInv, TypeOK, InodeInv, CandidateInv, CurrentInv,
       PortsInv, Live, Record, Ports, Established
  <1>1. ASSUME IInv, Start PROVE IInv'
    BY <1>1 DEF Start, Fault
  <1>2. ASSUME IInv, OwnedBefore PROVE IInv'
    BY <1>2 DEF OwnedBefore, OwnedInodes
  <1>3. ASSUME IInv, Dump PROVE IInv'
    <2>1. \A c \in candidates' :
             /\ c \in Record /\ Live(c.cookie)
             /\ pc' \in {"sleep", "refresh"}
      <3> SUFFICES ASSUME NEW c \in candidates' PROVE c \in Record /\ Live(c.cookie)
        BY <1>3 DEF Dump
      <3>1. PICK s \in Sockets, ports \in SUBSET Ports :
              /\ state[s] \in diagnostic_states(config)
              /\ \E k \in candidate_kind(s, owned, ports) :
                    c = [cookie |-> s, inode |-> inode[s], tuple |-> tuple[s], kind |-> k]
        BY <1>3 DEF Dump
      <3>2. PICK k \in candidate_kind(s, owned, ports) :
              c = [cookie |-> s, inode |-> inode[s], tuple |-> tuple[s], kind |-> k]
        BY <3>1
      <3>3. Live(s)
        BY <3>1, <1>3 DEF diagnostic_states
      <3>4. k \in Kinds
        BY <3>2 DEF candidate_kind, KindsOf, Kinds
      <3> QED
        BY <3>2, <3>3, <3>4, <1>3
    <2>2. /\ listen_ports' \subseteq Ports
          /\ Established(config) => listening \ reopened \subseteq listen_ports'
      BY <1>3 DEF Dump, diagnostic_states
    <2>3. UNCHANGED <<kernelVars, listenerVars, config, xhttp, owned, current, touched, faults>>
      BY <1>3 DEF Dump
    <2>4. pc = "dump" /\ pc' \in {"sleep", "refresh"} /\ timer' \in {0, Recheck}
      BY <1>3 DEF Dump
    <2>5. candidates' \subseteq Record
      BY <2>1
    <2>6. TypeOK'
      BY <1>3, <2>2, <2>3, <2>4, <2>5
    <2>7. InodeInv' /\ CandidateInv' /\ CurrentInv' /\ PortsInv'
      BY <1>3, <2>1, <2>2, <2>3, <2>4
    <2> QED
      BY <2>6, <2>7
  <1>4. ASSUME IInv, Wake PROVE IInv'
    BY <1>4 DEF Wake
  <1>5. ASSUME IInv, OwnedNow PROVE IInv'
    BY <1>5 DEF OwnedNow, OwnedInodes
  <1> QED
    BY <1>1, <1>2, <1>3, <1>4, <1>5

\* The worker is over.
LEMMA EndsKeep ==
    ASSUME IInv, Ends, UNCHANGED <<listening, config>>,
           faults' \in 0..MaxFaults,
           UNCHANGED kernelVars \/ \E s \in Sockets : Dies(s)
    PROVE  IInv'
  <1> USE IdleAssumption, MiscAssumption DEF IInv, TypeOK, Live
  <1>1. /\ state' \in [Sockets -> {"new", "established", "closewait", "closed"}]
        /\ tuple' \in [Sockets -> Tuples \cup {Nil}]
        /\ inode' \in [Sockets -> Inodes \cup {Nil}]
        /\ \A s \in Sockets : Live(s)' <=> tuple'[s] # Nil /\ inode'[s] # Nil
        /\ core' \subseteq {s \in Sockets : Live(s)'}
        /\ sent' \in [Sockets -> 0..Idle] /\ received' \in [Sockets -> 0..Idle]
        /\ InodeInv'
    BY DEF Dies, InodeInv
  <1>2. /\ pc' = "idle" /\ xhttp' = {} /\ owned' = {} /\ listen_ports' = {}
        /\ candidates' = {} /\ current' = Nil /\ timer' = 0 /\ touched' = FALSE
        /\ reopened' = {}
    BY DEF Ends
  <1>3. TypeOK'
    <2>1. timer' \in 0..Recheck
      BY <1>2
    <2>2. touched' \in BOOLEAN
      <3>1. touched' = FALSE
        BY <1>2, Zenon
      <3> QED
        BY <3>1
    <2> QED
      BY <1>1, <1>2, <2>1, <2>2
  <1>4. CandidateInv' /\ CurrentInv' /\ PortsInv'
    BY <1>2 DEF CandidateInv, CurrentInv, PortsInv
  <1> QED
    BY <1>1, <1>3, <1>4

\* The worker as it destroys.
LEMMA DestroysKeep ==
    IInv /\ (Destroy \/ DestroyFails \/ ReadFails \/ Done
             \/ \E r \in candidates : Query(r) \/ SkipChanged(r)) => IInv'
  <1>1. ASSUME IInv, NEW r \in candidates, Query(r) PROVE IInv'
    BY <1>1, IdleAssumption, MiscAssumption, RecordAssumption
       DEF Query, Confirmed, candidate_kind, IInv, TypeOK, InodeInv, CandidateInv, CurrentInv,
           PortsInv, Live, IdleLong, Record, Ports, Established
  <1>2. ASSUME IInv, NEW r \in candidates, SkipChanged(r) PROVE IInv'
    BY <1>2, MiscAssumption DEF SkipChanged, Fault, IInv, TypeOK, InodeInv, CandidateInv,
       CurrentInv, PortsInv, Live, Record, IdleLong, Established
  <1>3. ASSUME IInv, Destroy PROVE IInv'
    <2> USE IdleAssumption, MiscAssumption, <1>3
    <2>1. /\ \/ UNCHANGED kernelVars
             \/ \E s \in Sockets : Dies(s)
          /\ pc = "destroy" /\ pc' = "query" /\ current' = Nil /\ touched' = FALSE
          /\ UNCHANGED <<listenerVars, config, xhttp, owned, listen_ports, candidates, timer,
                         faults>>
      BY DEF Destroy, Target, NextCandidate
    <2>2. TypeOK'
      <3>1. /\ state' \in [Sockets -> {"new", "established", "closewait", "closed"}]
            /\ tuple' \in [Sockets -> Tuples \cup {Nil}]
            /\ inode' \in [Sockets -> Inodes \cup {Nil}]
            /\ \A s \in Sockets : Live(s)' <=> tuple'[s] # Nil /\ inode'[s] # Nil
            /\ core' \subseteq {s \in Sockets : Live(s)'}
            /\ sent' \in [Sockets -> 0..Idle] /\ received' \in [Sockets -> 0..Idle]
        BY <2>1 DEF Dies, IInv, TypeOK, Live
      <3>2. touched' \in BOOLEAN
        BY <2>1
      <3> QED
        BY <2>1, <3>1, <3>2 DEF IInv, TypeOK
    <2>3. InodeInv' /\ CandidateInv'
      BY <2>1 DEF Dies, IInv, TypeOK, InodeInv, CandidateInv, Live, Record
    <2>4. CurrentInv' /\ PortsInv'
      BY <2>1 DEF IInv, CurrentInv, PortsInv
    <2> QED
      BY <2>2, <2>3, <2>4 DEF IInv
  <1>4. ASSUME IInv, DestroyFails PROVE IInv'
    <2>1. faults' \in 0..MaxFaults
      BY <1>4, MiscAssumption DEF DestroyFails, Fault, IInv, TypeOK
    <2> QED
      BY <1>4, <2>1, EndsKeep DEF DestroyFails, Target
  <1>5. ASSUME IInv, ReadFails \/ Done PROVE IInv'
    <2>1. faults' \in 0..MaxFaults
      BY <1>5, MiscAssumption DEF ReadFails, Done, Fault, IInv, TypeOK
    <2> QED
      BY <1>5, <2>1, EndsKeep DEF ReadFails, Done
  <1> QED
    BY <1>1, <1>2, <1>3, <1>4, <1>5

LEMMA StepKeeps == IInv /\ [Next]_vars => IInv'
  <1>1. IInv /\ UNCHANGED vars => IInv'
    BY DEF IInv, TypeOK, InodeInv, CandidateInv, CurrentInv, PortsInv, Live, IdleLong
  <1> QED
    BY <1>1, EnvironmentKeeps, LooksKeep, DestroysKeep DEF Next, Worker

\* The cleaner keeps its inductive invariant, whatever the sockets do meanwhile.
THEOREM Invariance == Spec => []IInv
  BY InitHolds, StepKeeps, PTL DEF Spec

\* The types of the variables of the cleaner.
THEOREM TypeCorrect == Spec => []TypeOK
  <1>1. IInv => TypeOK
    BY DEF IInv
  <1> QED
    BY <1>1, Invariance, PTL

-----------------------------------------------------------------------------
(* What a step never destroys.                                             *)

\* Only the candidate that has been confirmed is destroyed.
LEMMA OnlyTheCurrent ==
    ASSUME IInv, Next, NEW s \in Sockets, Destroys(s)
    PROVE  current \in Record /\ s = current.cookie
  <1> USE DEF Destroys
  <1>0. TypeOK /\ pc = "destroy" /\ pc' # "destroy" /\ state'[s] # state[s]
    BY DEF IInv, Live
  <1>1. Destroy \/ DestroyFails
    BY <1>0 DEF Next, Environment, Worker, Tick, ListenerCloses, ListenerOpens, Send, Receive,
       PeerCloses, OwnerCloses, Open, Start, OwnedBefore, Dump, Wake, OwnedNow, Query,
       SkipChanged, ReadFails, Done
  <1>2. PICK r \in Target(current) : Dies(r)
    BY <1>0, <1>1 DEF Destroy, DestroyFails
  <1>3. s = r /\ r = current.cookie
    BY <1>0, <1>2 DEF Dies, Target, TypeOK
  <1> QED
    BY <1>0, <1>3 DEF TypeOK

\* Only sockets of the core are destroyed, although the core is known by inodes,
\* which other processes get while the worker is at work.
THEOREM CoreSocketsOnly == Spec => OnlyCoreSockets
  <1>1. IInv /\ [Next]_vars => [\A s \in Sockets : Destroys(s) => s \in core]_vars
    BY OnlyTheCurrent DEF IInv, CurrentInv, Destroys
  <1> QED
    BY <1>1, Invariance, PTL DEF Spec, OnlyCoreSockets

\* A destroyed socket has been idle for the idle time, but for data since its
\* last check.
THEOREM IdleSocketsOnly == Spec => OnlyIdleSockets
  <1>1. IInv /\ [Next]_vars =>
           [\A s \in Sockets : Destroys(s) => IdleLong(s) \/ touched]_vars
    BY OnlyTheCurrent DEF IInv, CurrentInv, Destroys
  <1> QED
    BY <1>1, Invariance, PTL DEF Spec, OnlyIdleSockets

-----------------------------------------------------------------------------
(* Accepted connections.                                                   *)

\* The address a connection is accepted on tells its inbound from the XHTTP ones:
\* no XHTTP listener matches a connection that another inbound has accepted.
AddressesTell ==
    \A t \in Tuples : \A listener \in XhttpListeners :
        Inbound(t) /\ xhttp_listener_matches(t, listener) => IsXhttp(t)

\* What the confirmation has shown of an established connection.
LEMMA QueryProtects ==
    ASSUME AddressesTell, IInv, NEW r \in candidates, Query(r)
    PROVE  ProtectedInv'
  <1>1. /\ current' = r /\ r \in Record /\ Live(r.cookie)
        /\ r.kind \in KindsOf(r.cookie, config, listen_ports)
        /\ UNCHANGED <<kernelVars, listenerVars, config, listen_ports>>
    BY DEF Query, Confirmed, candidate_kind, IInv, TypeOK
  <1> DEFINE s == r.cookie
  <1> SUFFICES ASSUME state[s] = "established", Inbound(tuple[s]),
                      tuple[s].port \in listening \ reopened
               PROVE  config.include_inbound
                      \/ (config.clean_xhttp_buffers /\ IsXhttp(tuple[s]))
    BY <1>1 DEF ProtectedInv
  <1>2. s \in Sockets /\ tuple[s] \in Tuples /\ pc = "query" /\ xhttp \subseteq XhttpListeners
    BY <1>1 DEF Query, IInv, TypeOK, Record, Live
  <1>3. CASE Established(config)
    <2>1. tuple[s].port \in listen_ports
      BY <1>2, <1>3 DEF IInv, PortsInv
    <2>2. CASE /\ config.clean_xhttp_buffers
               /\ \E listener \in xhttp : xhttp_listener_matches(tuple[s], listener)
      BY <1>2, <2>2 DEF AddressesTell
    <2>3. CASE ~ /\ config.clean_xhttp_buffers
                 /\ \E listener \in xhttp : xhttp_listener_matches(tuple[s], listener)
      <3>1. config.include_inbound
        BY <1>1, <2>1, <2>3 DEF KindsOf
      <3> QED
        BY <3>1
    <2> QED
      BY <2>2, <2>3
  <1>4. CASE ~Established(config)
    BY <1>1, <1>4 DEF Established, KindsOf
  <1> QED
    BY <1>3, <1>4

LEMMA StepProtects ==
    ASSUME AddressesTell
    PROVE  IInv /\ ProtectedInv /\ [Next]_vars => ProtectedInv'
  <1> SUFFICES ASSUME IInv, ProtectedInv, [Next]_vars PROVE ProtectedInv'
    OBVIOUS
  <1>1. ASSUME NEW r \in candidates, Query(r) PROVE ProtectedInv'
    BY <1>1, QueryProtects
  <1>2. CASE UNCHANGED vars
    BY <1>2 DEF ProtectedInv
  <1>3. CASE Environment
    <2>1. /\ pc' = pc /\ current' = current /\ config' = config
          /\ pc = "destroy" => listening' \ reopened' \subseteq listening \ reopened
      BY <1>3 DEF Environment, Open, Send, Receive, PeerCloses, OwnerCloses, ListenerCloses,
         ListenerOpens, Tick
    <2>2. ASSUME pc = "destroy", state'[current.cookie] = "established"
          PROVE  /\ state[current.cookie] = "established"
                 /\ tuple'[current.cookie] = tuple[current.cookie]
      <3>1. /\ current.cookie \in Sockets /\ state[current.cookie] # "new"
            /\ TypeOK
        BY <2>2 DEF IInv, TypeOK, CurrentInv, Record
      <3> QED
        BY <1>3, <2>2, <3>1 DEF Environment, Open, Send, Receive, PeerCloses, OwnerCloses,
           ListenerCloses, ListenerOpens, Tick, Dies, TypeOK
    <2> QED
      BY <2>1, <2>2 DEF ProtectedInv
  <1>4. CASE /\ Start \/ Worker \/ DestroyFails \/ ReadFails
             /\ \A r \in candidates : ~Query(r)
    <2>1. pc' # "destroy"
      BY <1>4 DEF Start, Worker, OwnedBefore, Dump, Wake, OwnedNow, SkipChanged, Destroy,
         NextCandidate, DestroyFails, ReadFails, Done, Ends
    <2> QED
      BY <2>1 DEF ProtectedInv
  <1> QED
    BY <1>1, <1>2, <1>3, <1>4 DEF Next, Worker

\* While its inbound is there, and has been since the sweep began to read, an
\* accepted connection whose peer is still there is closed only if the
\* configuration asks for inbound sockets or for those of its XHTTP inbound.
THEOREM AcceptedStay ==
    ASSUME AddressesTell
    PROVE  Spec => AcceptedAreProtected
  <1>1. Init => ProtectedInv
    BY DEF Init, ProtectedInv
  <1>2. IInv /\ ProtectedInv /\ [Next]_vars => ProtectedInv'
    BY StepProtects
  <1>3. IInv /\ ProtectedInv /\ [Next]_vars =>
           [\A s \in Sockets :
               /\ Destroys(s)
               /\ state[s] = "established"
               /\ Inbound(tuple[s])
               /\ tuple[s].port \in listening \ reopened
               => \/ config.include_inbound
                  \/ config.clean_xhttp_buffers /\ IsXhttp(tuple[s])]_vars
    BY OnlyTheCurrent DEF ProtectedInv, Destroys
  <1> QED
    BY <1>1, <1>2, <1>3, Invariance, PTL DEF Spec, AcceptedAreProtected
=============================================================================
