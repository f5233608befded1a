---------------------------- MODULE DeviceProofs ----------------------------
(***************************************************************************)
(* Proofs about a device, and about its lock (at the end).                 *)
(*                                                                         *)
(* The peers of a device and their sockets, for any keys,                  *)
(* addresses, allowed addresses and bounds.  The properties are inductive  *)
(* together with these facts: indices from next_index on are not in use,   *)
(* so a new peer takes over nothing; a handler at work serves a peer of    *)
(* the device, as commands wait for handlers; no two peers have the same   *)
(* socket, so one is not shut down for another; and a socket that is about *)
(* to be registered is its peer's unless it was shut down meanwhile.       *)
(***************************************************************************)
EXTENDS Device, DevLock, TLAPS

Fresh ==
  /\ \A i \in peers_by_idx \union removed : i < next_index
  /\ \A fd \in Fds : events[fd] < next_index

AtWork(u) ==
  /\ job[u].peer \in peers_by_idx
  /\ job[u].at = "set" => job[u].addr \in Addrs
  /\ job[u].at # "set" => peer[job[u].peer].addr # NoAddr
  /\ job[u].at = "register" => job[u].fd # Nothing

JobsServed ==
  \A u \in Listeners : IF job[u].at = "idle" THEN job[u].peer = Nothing ELSE AtWork(u)

CommandAlone == cmd.at # "none" => \A u \in Listeners : job[u] = Idle

OwnSocket ==
  \A i, j \in Idx : peer[i].conn # Nothing /\ peer[i].conn = peer[j].conn => i = j

Registering ==
  \A u \in Listeners :
    job[u].at = "register" /\ sock[job[u].fd] # NoAddr => peer[job[u].peer].conn = job[u].fd

Sockets == ConnectedToEndpoint /\ NoStraySocket /\ OwnSocket /\ Registering

\* What RemovedIsGone says of the tables and the endpoint; the rest of it follows.
RemovedApart == \A i \in removed : i \notin peers_by_idx /\ peer[i].conn = Nothing

IInv ==
  TypeOK /\ Fresh /\ JobsServed /\ CommandAlone /\ TablesAgree /\ Sockets /\ RemovedApart

(***************************************************************************)
(* Shutting sockets down                                                   *)
(***************************************************************************)

\* What shutdown_endpoint makes of the peers and of the sockets.
LEMMA ShutFacts ==
  ASSUME TypeOK, NEW S \in SUBSET (Idx \union {Nothing})
  PROVE  /\ Disconnected(S) \in [Idx -> PeerType]
         /\ Shut(S) \in [Fds -> Addrs \union {NoAddr}]
         /\ \A i \in Idx : /\ Disconnected(S)[i].key = peer[i].key
                           /\ Disconnected(S)[i].addr = peer[i].addr
                           /\ i \in S => Disconnected(S)[i].conn = Nothing
                           /\ i \notin S => Disconnected(S)[i].conn = peer[i].conn
         /\ \A fd \in Fds : Shut(S)[fd] # NoAddr => Shut(S)[fd] = sock[fd]
         /\ \A fd \in Fds : Shut(S)[fd] # NoAddr =>
              \A i \in Idx : peer[i].conn = fd => i \notin S
         /\ \A i \in Idx : (\A j \in Idx : j \in S => peer[j].conn # peer[i].conn) /\
                           peer[i].conn # Nothing =>
              Shut(S)[peer[i].conn] = sock[peer[i].conn]
<1>1. 0 \notin Idx
  BY DEF Idx
<1> QED
  BY <1>1 DEF TypeOK, PeerType, Shut, Disconnected, Nothing

\* Sockets that are shut down while nothing else changes leave Sockets true.
LEMMA ShutKeepsSockets ==
  ASSUME TypeOK, Sockets, JobsServed, NEW S \in SUBSET (Idx \union {Nothing}),
         shutdown_endpoint(S), UNCHANGED <<events, job>>
  PROVE  Sockets'
<1>1. /\ peer' = Disconnected(S) /\ sock' = Shut(S)
      /\ events' = events /\ job' = job
  BY DEF shutdown_endpoint
<1>t. /\ \A i \in Idx : peer[i].conn \in Fds \union {Nothing}
      /\ \A fd \in Fds : events[fd] \in Idx \union {Nothing}
      /\ \A u \in Listeners : /\ job[u].fd \in Fds \union {Nothing}
                               /\ job[u].peer \in Idx \union {Nothing}
      /\ Nothing \notin Idx
  BY DEF TypeOK, PeerType, JobType, Nothing, Idx
<1>2. ConnectedToEndpoint'
  BY <1>1, <1>t, ShutFacts DEF Sockets, ConnectedToEndpoint, OwnSocket
<1>3. NoStraySocket'
  BY <1>1, <1>t, ShutFacts DEF Sockets, NoStraySocket
<1>4. OwnSocket'
  BY <1>1, <1>t, ShutFacts DEF Sockets, OwnSocket
<1>5. Registering'
  <2> SUFFICES ASSUME NEW u \in Listeners, job[u].at = "register",
                      Shut(S)[job[u].fd] # NoAddr
               PROVE  Disconnected(S)[job[u].peer].conn = job[u].fd
    BY <1>1 DEF Registering
  <2>1. job[u].peer \in Idx /\ job[u].fd \in Fds
    BY <1>t DEF JobsServed, AtWork, TypeOK, JobType
  <2> QED
    BY <2>1, <1>t, ShutFacts DEF Sockets, Registering
<1> QED
  BY <1>2, <1>3, <1>4, <1>5 DEF Sockets

(***************************************************************************)
(* The invariant                                                           *)
(***************************************************************************)

\* The initial state satisfies the inductive invariant.
LEMMA InitIInv == Init => IInv
<1> SUFFICES ASSUME Init PROVE IInv
  OBVIOUS
<1> USE DEF Init, Idle, Job, Peer, Nothing
<1>1. listening \in BOOLEAN /\ panicked \in BOOLEAN
  BY Zenon
<1>2. TypeOK
  BY <1>1, DeviceAssumption DEF TypeOK, PeerType, JobType, CmdType, NoCommand, Idx
<1>3. Fresh /\ JobsServed /\ CommandAlone
  BY DEF Fresh, JobsServed, CommandAlone, NoCommand
<1>4. TablesAgree /\ RemovedApart
  BY DEF TablesAgree, RemovedApart
<1>5. Sockets
  BY DEF Sockets, ConnectedToEndpoint, NoStraySocket, OwnSocket, Registering
<1> QED
  BY <1>2, <1>3, <1>4, <1>5 DEF IInv

\* The inductive invariant has RemovedIsGone in it: a socket registered for a removed
\* peer would be its endpoint's, and a handler works for peers of the device only.
LEMMA RemovedFollows == IInv => RemovedIsGone
<1> SUFFICES ASSUME IInv, NEW i \in removed
             PROVE  /\ \A fd \in Fds : events[fd] = i => sock[fd] = NoAddr
                    /\ \A u \in Listeners : job[u].peer # i
  BY DEF RemovedIsGone, IInv, RemovedApart
<1> USE DEF IInv, RemovedApart
<1>1. i # Nothing /\ Nothing \notin Fds
  BY DEF TypeOK, Idx, Fds, Nothing
<1>2. \A fd \in Fds : events[fd] = i => sock[fd] = NoAddr
  BY <1>1 DEF Sockets, NoStraySocket
<1>3. \A u \in Listeners : job[u].peer # i
  BY <1>1 DEF JobsServed, AtWork
<1> QED
  BY <1>2, <1>3

\* The tables agree as long as they and the keys of the peers stay.
LEMMA TablesKept ==
  ASSUME TypeOK, TablesAgree, UNCHANGED tables,
         \A j \in Idx : peer'[j].key = peer[j].key
  PROVE  TablesAgree'
  BY DEF TypeOK, TablesAgree, tables

(***************************************************************************)
(* Handlers                                                                *)
(***************************************************************************)

\* Receive keeps the inductive invariant: the handler starts for a peer of the device.
LEMMA StepReceive ==
  ASSUME IInv, NEW u \in Listeners, NEW i \in Idx, NEW a \in Addrs, Receive(u, i, a)
  PROVE  IInv'
<1> USE DEF IInv, Receive, tables
<1>1. job[u].at = "idle" /\ cmd.at = "none"
  BY DEF Idle, Job, Running, NoCommand
<1>2. /\ \A v \in Listeners : v # u => job'[v] = job[v]
      /\ job'[u].at = "set" /\ job'[u].peer = i /\ job'[u].addr = a
  BY DEF TypeOK, Job
<1>3. TypeOK'
  BY DEF TypeOK, JobType, Job
<1>4. JobsServed'
  BY <1>2 DEF JobsServed, AtWork
<1>5. Fresh' /\ CommandAlone' /\ TablesAgree' /\ RemovedApart'
  BY <1>1 DEF Fresh, CommandAlone, TablesAgree, RemovedApart
<1>6. Sockets'
  BY <1>2 DEF Sockets, ConnectedToEndpoint, NoStraySocket, OwnSocket, Registering
<1> QED
  BY <1>3, <1>4, <1>5, <1>6

\* set_endpoint keeps the inductive invariant: the old socket is shut down with it.
LEMMA StepSetEndpoint ==
  ASSUME IInv, NEW u \in Listeners, set_endpoint(u)
  PROVE  IInv'
<1> DEFINE i == job[u].peer
           a == job[u].addr
<1> USE DEF IInv
<1>1. /\ job[u].at = "set" /\ i \in peers_by_idx /\ i \in Idx /\ a \in Addrs
      /\ job' = [job EXCEPT ![u] = Job("connect", i, NoAddr, Nothing)]
      /\ UNCHANGED <<tables, events, listening, cmd, removed, panicked>>
  BY DEF set_endpoint, JobsServed, AtWork, TypeOK
<1> HIDE DEF i, a
<1>2. /\ \A v \in Listeners : v # u => job'[v] = job[v]
      /\ job'[u].at = "connect" /\ job'[u].peer = i
      /\ job' \in [Listeners -> JobType]
  BY <1>1 DEF TypeOK, JobType, Job
<1>3. a # NoAddr
  BY <1>1, NoAddrAssumption
<1>4. \/ peer' = peer /\ sock' = sock /\ peer[i].addr = a
      \/ /\ sock' = Shut({i})
         /\ peer' = [peer EXCEPT ![i] = Peer(peer[i].key, a, Nothing)]
  BY DEF set_endpoint, i, a
<1>5. /\ peer' \in [Idx -> PeerType]
      /\ sock' \in [Fds -> Addrs \union {NoAddr}]
      /\ peer'[i].addr = a /\ peer'[i].key = peer[i].key
      /\ \A j \in Idx : j # i => peer'[j] = peer[j]
  BY <1>1, <1>4 DEF TypeOK, PeerType, Peer, Shut, Nothing
<1>6. TypeOK'
  BY <1>1, <1>2, <1>5 DEF TypeOK, tables
<1>7. Fresh' /\ CommandAlone'
  BY <1>1 DEF Fresh, CommandAlone, tables, Idle, Job
<1>8. TablesAgree'
  BY <1>1, <1>5, TablesKept
<1>9. JobsServed'
  BY <1>1, <1>2, <1>3, <1>5 DEF JobsServed, AtWork, tables, TypeOK
<1>10. RemovedApart'
  BY <1>1, <1>5 DEF RemovedApart, tables, TypeOK
<1>11. CASE peer' = peer /\ sock' = sock
  <2>1. Sockets'
    BY <1>11, <1>1, <1>2
    DEF Sockets, ConnectedToEndpoint, NoStraySocket, OwnSocket, Registering
  <2> QED
    BY <2>1, <1>6, <1>7, <1>8, <1>9, <1>10
<1>12. CASE /\ sock' = Shut({i})
            /\ peer' = [peer EXCEPT ![i] = Peer(peer[i].key, a, Nothing)]
  <2>1. peer'[i].conn = Nothing
    BY <1>12, <1>1 DEF TypeOK, Peer
  <2>2. \A fd \in Fds :
          sock'[fd] = IF peer[i].conn = fd THEN NoAddr ELSE sock[fd]
    BY <1>12, <1>1 DEF Shut, Nothing, Idx
  <2>3. /\ \A j \in Idx : peer[j].conn \in Fds \union {Nothing}
        /\ \A fd \in Fds : events[fd] \in Idx \union {Nothing}
        /\ Nothing \notin Fds
    BY DEF TypeOK, PeerType, Nothing, Fds
  <2>4. ConnectedToEndpoint' /\ OwnSocket'
    BY <2>1, <2>2, <2>3, <1>1, <1>5 DEF Sockets, ConnectedToEndpoint, OwnSocket
  <2>5. NoStraySocket'
    BY <2>2, <2>3, <1>1, <1>5 DEF Sockets, NoStraySocket
  <2>6. Registering'
    <3> SUFFICES ASSUME NEW v \in Listeners, job'[v].at = "register",
                        sock'[job'[v].fd] # NoAddr
                 PROVE  peer'[job'[v].peer].conn = job'[v].fd
      BY DEF Registering
    <3>1. v # u /\ job'[v] = job[v]
      BY <1>2
    <3>2. job[v].fd \in Fds /\ job[v].peer \in Idx
      BY <3>1 DEF JobsServed, AtWork, TypeOK, JobType
    <3> QED
      BY <3>1, <3>2, <2>2, <1>5 DEF Sockets, Registering
  <2>7. Sockets'
    BY <2>4, <2>5, <2>6 DEF Sockets
  <2> QED
    BY <2>7, <1>6, <1>7, <1>8, <1>9, <1>10
<1> QED
  BY <1>4, <1>11, <1>12
\* connect_endpoint keeps the inductive invariant: the socket was nobody's, and the
\* endpoint had none.
LEMMA StepConnect ==
  ASSUME IInv, NEW u \in Listeners, NEW fd \in Fds, connect_endpoint(u, fd)
  PROVE  IInv'
<1> DEFINE i == job[u].peer
<1> USE DEF IInv
<1>1. /\ job[u].at = "connect" /\ i \in peers_by_idx /\ i \in Idx
      /\ peer[i].addr # NoAddr /\ peer[i].addr \in Addrs /\ peer[i].conn = Nothing
      /\ job' = [job EXCEPT ![u] = Job("register", i, NoAddr, fd)]
      /\ sock' = [sock EXCEPT ![fd] = peer[i].addr]
      /\ peer' = [peer EXCEPT ![i].conn = fd]
      /\ UNCHANGED <<tables, events, listening, cmd, removed, panicked>>
  BY DEF connect_endpoint, JobsServed, AtWork, TypeOK, PeerType
<1>2. /\ events[fd] = Nothing
      /\ \A j \in Idx : peer[j].conn # fd
      /\ \A v \in Listeners : job[v].fd # fd
  BY DEF connect_endpoint, InUse
<1> HIDE DEF i
<1>3. /\ \A v \in Listeners : v # u => job'[v] = job[v]
      /\ job'[u].at = "register" /\ job'[u].peer = i /\ job'[u].fd = fd
      /\ job' \in [Listeners -> JobType]
  BY <1>1 DEF TypeOK, JobType, Job
<1>4. /\ peer' \in [Idx -> PeerType]
      /\ sock' \in [Fds -> Addrs \union {NoAddr}]
      /\ peer'[i].addr = peer[i].addr /\ peer'[i].key = peer[i].key /\ peer'[i].conn = fd
      /\ \A j \in Idx : j # i => peer'[j] = peer[j]
      /\ sock'[fd] = peer[i].addr
      /\ \A g \in Fds : g # fd => sock'[g] = sock[g]
  BY <1>1 DEF TypeOK, PeerType
<1>5. /\ fd # Nothing
      /\ \A j \in Idx : peer[j].conn \in Fds \union {Nothing}
      /\ \A g \in Fds : events[g] \in Idx \union {Nothing}
  BY DEF Fds, Nothing, TypeOK, PeerType
<1>6. TypeOK'
  BY <1>1, <1>3, <1>4 DEF TypeOK, tables
<1>7. Fresh' /\ CommandAlone'
  BY <1>1 DEF Fresh, CommandAlone, tables, Idle, Job
<1>8. TablesAgree'
  BY <1>1, <1>4, TablesKept
<1>9. JobsServed'
  BY <1>1, <1>3, <1>4, <1>5 DEF JobsServed, AtWork, tables, TypeOK
<1>10. RemovedApart'
  BY <1>1, <1>4 DEF RemovedApart, tables, TypeOK
<1>11. ConnectedToEndpoint' /\ OwnSocket'
  BY <1>1, <1>2, <1>4, <1>5 DEF Sockets, ConnectedToEndpoint, OwnSocket
<1>12. NoStraySocket'
  <2> SUFFICES ASSUME NEW g \in Fds, events[g] # Nothing, sock'[g] # NoAddr
               PROVE  peer'[events[g]].conn = g
    BY <1>1 DEF NoStraySocket
  <2>1. g # fd /\ sock[g] # NoAddr /\ events[g] \in Idx
    BY <1>2, <1>4, <1>5
  <2>2. peer[events[g]].conn = g /\ g # Nothing
    BY <2>1 DEF Sockets, NoStraySocket, Fds, Nothing
  <2> QED
    BY <2>1, <2>2, <1>1, <1>4
<1>13. Registering'
  <2> SUFFICES ASSUME NEW v \in Listeners, job'[v].at = "register",
                      sock'[job'[v].fd] # NoAddr
               PROVE  peer'[job'[v].peer].conn = job'[v].fd
    BY DEF Registering
  <2>1. CASE v = u
    BY <2>1, <1>3, <1>4
  <2>2. CASE v # u
    <3>1. job'[v] = job[v] /\ job[v].fd \in Fds /\ job[v].peer \in Idx
      BY <2>2, <1>3 DEF JobsServed, AtWork, TypeOK, JobType
    <3>2. job'[v].fd # fd /\ job[v].at = "register" /\ sock[job[v].fd] # NoAddr
      BY <3>1, <1>2, <1>4
    <3>3. peer[job[v].peer].conn = job[v].fd
      BY <3>2 DEF Sockets, Registering
    <3> QED
      BY <3>1, <3>3, <1>1, <1>4, <1>5 DEF Fds, Nothing
  <2> QED
    BY <2>1, <2>2
<1> QED
  BY <1>6, <1>7, <1>8, <1>9, <1>10, <1>11, <1>12, <1>13 DEF Sockets

\* A handler that connects nothing, or registers the handler of what it connected,
\* keeps the inductive invariant.
LEMMA StepDone ==
  ASSUME IInv, NEW u \in Listeners, connect_fails(u) \/ register_conn_handler(u)
  PROVE  IInv'
<1> USE DEF IInv
<1>1. /\ job[u].at # "idle" /\ job[u].peer \in peers_by_idx
      /\ job' = [job EXCEPT ![u] = Idle]
      /\ UNCHANGED <<tables, peer, sock, listening, cmd, removed, panicked>>
  BY DEF connect_fails, register_conn_handler, JobsServed, AtWork
<1>2. /\ \A v \in Listeners : v # u => job'[v] = job[v]
      /\ job'[u].at = "idle" /\ job'[u].peer = Nothing
      /\ job' \in [Listeners -> JobType]
  BY <1>1 DEF TypeOK, JobType, Idle, Job
<1>3. \/ events' = events
      \/ /\ job[u].at = "register" /\ job[u].fd \in Fds
         /\ events' = [events EXCEPT ![job[u].fd] = job[u].peer]
  BY DEF connect_fails, register_conn_handler, JobsServed, AtWork, TypeOK, JobType
<1>4. events' \in [Fds -> Idx \union {Nothing}]
  BY <1>1, <1>3 DEF TypeOK
<1>5. TypeOK'
  BY <1>1, <1>2, <1>4 DEF TypeOK, tables
<1>6. Fresh'
  BY <1>1, <1>3 DEF Fresh, tables, TypeOK
<1>7. JobsServed' /\ CommandAlone'
  BY <1>1, <1>2 DEF JobsServed, AtWork, CommandAlone, tables, Idle, Job
<1>8. TablesAgree' /\ RemovedApart'
  BY <1>1 DEF TablesAgree, RemovedApart, tables
<1>9. NoStraySocket'
  BY <1>1, <1>3 DEF Sockets, NoStraySocket, Registering, TypeOK
<1>10. ConnectedToEndpoint' /\ OwnSocket' /\ Registering'
  BY <1>1, <1>2 DEF Sockets, ConnectedToEndpoint, OwnSocket, Registering
<1> QED
  BY <1>5, <1>6, <1>7, <1>8, <1>9, <1>10 DEF Sockets

\* Cancelling the event of a socket that was shut down keeps the inductive invariant.
LEMMA StepEof ==
  ASSUME IInv, NEW fd \in Fds, Eof(fd)
  PROVE  IInv'
<1> USE DEF IInv, Eof, tables
<1>1. /\ \A g \in Fds : events'[g] \in {events[g], Nothing}
      /\ events' \in [Fds -> Idx \union {Nothing}]
  BY DEF TypeOK
<1>2. TypeOK' /\ JobsServed' /\ CommandAlone' /\ TablesAgree' /\ RemovedApart'
  BY <1>1 DEF TypeOK, JobsServed, AtWork, CommandAlone, TablesAgree, RemovedApart
<1>3. Fresh'
  BY <1>1 DEF Fresh, TypeOK, Nothing
<1>4. Sockets'
  BY <1>1 DEF Sockets, ConnectedToEndpoint, NoStraySocket, OwnSocket, Registering
<1> QED
  BY <1>2, <1>3, <1>4

\* Shutting sockets down, and nothing else, keeps the inductive invariant.
LEMMA StepShut ==
  ASSUME IInv, NEW S \in SUBSET (Idx \union {Nothing}), shutdown_endpoint(S),
         UNCHANGED <<tables, events, job, removed>>,
         cmd' \in CmdType, cmd'.at \in {cmd.at, "none"},
         listening' \in BOOLEAN, panicked' \in BOOLEAN
  PROVE  IInv'
<1> USE DEF IInv
<1>1. /\ peer' = Disconnected(S) /\ sock' = Shut(S)
      /\ UNCHANGED <<tables, events, job, removed>>
  BY DEF shutdown_endpoint
<1>2. TypeOK'
  BY <1>1, ShutFacts DEF TypeOK, tables
<1>3. /\ \A j \in Idx : /\ peer'[j].key = peer[j].key /\ peer'[j].addr = peer[j].addr
                        /\ peer'[j].conn \in {peer[j].conn, Nothing}
      /\ Fresh'
  BY <1>1, ShutFacts DEF Fresh, tables
<1>4. CommandAlone'
  BY <1>1 DEF CommandAlone
<1>5. JobsServed'
  BY <1>1, <1>3 DEF JobsServed, AtWork, tables, TypeOK
<1>6. TablesAgree'
  BY <1>1, <1>3, TablesKept
<1>7. RemovedApart'
  BY <1>1, <1>3 DEF RemovedApart, tables, TypeOK
<1>8. Sockets'
  BY <1>1, ShutKeepsSockets
<1> QED
  BY <1>2, <1>3, <1>4, <1>5, <1>6, <1>7, <1>8

\* Expire keeps the inductive invariant.
LEMMA StepExpire ==
  ASSUME IInv, NEW i \in Idx, Expire(i)
  PROVE  IInv'
  BY StepShut DEF Expire, IInv, TypeOK
(***************************************************************************)
(* The set command                                                         *)
(***************************************************************************)

\* What the type of cmd says of a command in a peer section.
LEMMA PeerCommand ==
  ASSUME cmd \in CmdType, cmd.at = "peer"
  PROVE  /\ cmd.key \in Keys /\ cmd.remove \in BOOLEAN
         /\ cmd.endpoint \in Addrs \union {NoAddr}
         /\ cmd \in [at : {"peer"}, key : Keys, remove : BOOLEAN,
                     endpoint : Addrs \union {NoAddr}]
<1>1. CASE cmd \in [at : {"none", "device"}]
  BY <1>1
<1>2. CASE cmd \in [at : {"peer"}, key : Keys, remove : BOOLEAN,
                    endpoint : Addrs \union {NoAddr}]
  BY <1>2
<1> QED
  BY <1>1, <1>2 DEF CmdType

\* A section begins with a command that is well typed.
LEMMA SectionType ==
  ASSUME NEW k \in Keys
  PROVE  /\ Section(k, NoLines) \in CmdType
         /\ cmd \in CmdType /\ cmd.at = "peer" => Section(k, cmd) \in CmdType
<1>1. Section(k, NoLines) \in CmdType
  BY DEF Section, NoLines, CmdType
<1>2. ASSUME cmd \in CmdType, cmd.at = "peer" PROVE Section(k, cmd) \in CmdType
  BY <1>2, PeerCommand DEF Section, CmdType
<1> QED
  BY <1>1, <1>2

\* A line that changes nothing but the command, or panics, keeps the inductive
\* invariant.
LEMMA StepLine ==
  ASSUME IInv, cmd' \in CmdType, panicked' \in BOOLEAN, CommandAlone',
         UNCHANGED <<tables, peer, sock, events, listening, job, removed>>
  PROVE  IInv'
<1> USE DEF IInv, tables
<1>1. TypeOK' /\ Fresh' /\ JobsServed'
  BY DEF TypeOK, Fresh, JobsServed, AtWork
<1>2. TablesAgree' /\ RemovedApart'
  BY DEF TablesAgree, RemovedApart
<1>3. Sockets'
  BY DEF Sockets, ConnectedToEndpoint, NoStraySocket, OwnSocket, Registering
<1> QED
  BY <1>1, <1>2, <1>3

\* The lines of the two sections that commit nothing keep the inductive invariant.
LEMMA StepNoCommit ==
  ASSUME IInv,
         \/ api_set \/ set_key \/ PeerLine \/ Panic \/ Return
         \/ \E k \in Keys : FirstPeer(k)
  PROVE  IInv'
<1>1. /\ UNCHANGED <<tables, peer, sock, events, listening, job, removed>>
      /\ \/ cmd.at # "none"
         \/ \A u \in Listeners : job[u] = Idle
  BY DEF api_set, FirstPeer, set_key, PeerLine, Panic, Return, At
<1>2. CommandAlone'
  BY <1>1 DEF CommandAlone, IInv
<1>3. cmd' \in CmdType
  <2>1. CASE api_set
    BY <2>1 DEF api_set, CmdType
  <2>2. CASE \E k \in Keys : FirstPeer(k)
    BY <2>2, SectionType DEF FirstPeer
  <2>3. CASE set_key \/ Panic
    BY <2>3 DEF set_key, Panic, IInv, TypeOK
  <2>4. CASE PeerLine
    BY <2>4, PeerCommand DEF PeerLine, At, IInv, TypeOK, CmdType
  <2>5. CASE Return
    BY <2>5 DEF Return, NoCommand, CmdType
  <2> QED
    BY <2>1, <2>2, <2>3, <2>4, <2>5
<1>4. panicked' \in BOOLEAN
  BY Zenon DEF api_set, FirstPeer, set_key, PeerLine, Panic, Return, IInv, TypeOK
<1> QED
  BY <1>1, <1>2, <1>3, <1>4, StepLine

\* open_listen_socket keeps the inductive invariant, whether it opens one or not.
LEMMA StepListen ==
  ASSUME IInv, NEW ok \in BOOLEAN, open_listen_socket(ok)
  PROVE  IInv'
<1>1. {peers[k] : k \in Keys} \in SUBSET (Idx \union {Nothing})
  BY DEF IInv, TypeOK
<1>2. cmd' \in CmdType /\ cmd'.at \in {cmd.at, "none"}
  BY DEF open_listen_socket, IInv, TypeOK, NoCommand, CmdType
<1> QED
  BY <1>1, <1>2, StepShut DEF open_listen_socket, IInv, TypeOK

\* clear_peers keeps the inductive invariant: the tables agree that there is none.
LEMMA StepClear ==
  ASSUME IInv, clear_peers
  PROVE  IInv'
<1> USE DEF IInv, clear_peers
<1>1. \A u \in Listeners : job[u].at = "idle"
  BY DEF CommandAlone, At, Idle, Job
<1>2. TypeOK' /\ Fresh' /\ TablesAgree' /\ RemovedApart'
  BY DEF TypeOK, Fresh, TablesAgree, RemovedApart, Nothing
<1>3. JobsServed' /\ CommandAlone'
  BY <1>1 DEF JobsServed, CommandAlone
<1>4. Sockets'
  BY DEF Sockets, ConnectedToEndpoint, NoStraySocket, OwnSocket, Registering
<1> QED
  BY <1>2, <1>3, <1>4

\* remove_peer keeps the inductive invariant: no table and no socket has the peer.
LEMMA StepRemove ==
  ASSUME IInv, NEW i \in peers_by_idx \union {Nothing}, remove_peer(i), cmd' \in CmdType,
         \A u \in Listeners : job[u] = Idle,
         UNCHANGED <<events, listening, job, panicked>>
  PROVE  IInv'
<1> USE DEF IInv
<1>1. /\ peers' = Without(peers, i) /\ peers_by_idx' = peers_by_idx \ {i}
      /\ peers_by_ip' = Without(peers_by_ip, i) /\ next_index' = next_index
      /\ shutdown_endpoint({i}) /\ peer' = Disconnected({i}) /\ sock' = Shut({i})
      /\ removed' = removed \union ({i} \ {Nothing})
      /\ i \in Idx \union {Nothing} /\ {i} \in SUBSET (Idx \union {Nothing})
  BY DEF remove_peer, shutdown_endpoint, TypeOK
<1>2. \A u \in Listeners : job[u].at = "idle"
  BY DEF Idle, Job
<1>3. /\ \A k \in Keys : peers'[k] = IF peers[k] = i THEN Nothing ELSE peers[k]
      /\ \A ip \in Ips :
           peers_by_ip'[ip] = IF peers_by_ip[ip] = i THEN Nothing ELSE peers_by_ip[ip]
      /\ peers' \in [Keys -> Idx \union {Nothing}]
      /\ peers_by_ip' \in [Ips -> Idx \union {Nothing}]
  BY <1>1 DEF Without, TypeOK
<1>4. /\ \A j \in Idx : /\ peer'[j].key = peer[j].key
                        /\ peer'[j].conn \in {peer[j].conn, Nothing}
                        /\ j = i => peer'[j].conn = Nothing
      /\ peer' \in [Idx -> PeerType] /\ sock' \in [Fds -> Addrs \union {NoAddr}]
  BY <1>1, ShutFacts
<1>5. TypeOK'
  BY <1>1, <1>3, <1>4 DEF TypeOK
<1>6. Fresh'
  BY <1>1 DEF Fresh
<1>7. TablesAgree'
  <2>1. {peers'[k] : k \in Keys} \ {Nothing} = ({peers[k] : k \in Keys} \ {Nothing}) \ {i}
    BY <1>3
  <2>2. {peers_by_ip'[ip] : ip \in Ips} \ {Nothing}
          = ({peers_by_ip[ip] : ip \in Ips} \ {Nothing}) \ {i}
    BY <1>3
  <2>3. \A k \in Keys : peers'[k] # Nothing => peers[k] = peers'[k] /\ peers[k] \in Idx
    BY <1>3 DEF TypeOK
  <2> QED
    BY <2>1, <2>2, <2>3, <1>1, <1>4 DEF TablesAgree
<1>8. RemovedApart'
  BY <1>1, <1>4 DEF RemovedApart, TypeOK
<1>9. JobsServed' /\ CommandAlone'
  BY <1>2 DEF JobsServed, CommandAlone
<1>10. Sockets'
  BY <1>1, ShutKeepsSockets
<1> QED
  BY <1>5, <1>6, <1>7, <1>8, <1>9, <1>10

\* add_peer keeps the inductive invariant: the index of the new peer was in no table,
\* and no socket is registered for it.
LEMMA StepAdd ==
  ASSUME IInv, NEW k \in Keys, NEW a \in Addrs \union {NoAddr}, NEW ips \in SUBSET Ips,
         peers[k] = Nothing, add_peer(k, a, ips), cmd' \in CmdType,
         \A u \in Listeners : job[u] = Idle,
         UNCHANGED <<events, listening, job, panicked>>
  PROVE  IInv'
<1> DEFINE n == next_index
<1> USE DEF IInv
<1>1. /\ n \in Idx /\ next_index' = n + 1
      /\ peers' = [peers EXCEPT ![k] = n]
      /\ peers_by_idx' = peers_by_idx \union {n}
      /\ peers_by_ip' = [ip \in Ips |-> IF ip \in ips THEN n ELSE peers_by_ip[ip]]
      /\ peer' = [peer EXCEPT ![n] = Peer(k, a, Nothing)]
      /\ sock' = sock /\ removed' = removed
  BY DEF add_peer
<1>2. \A u \in Listeners : job[u].at = "idle"
  BY DEF Idle, Job
<1>3. /\ n \notin peers_by_idx /\ n \notin removed
      /\ \A fd \in Fds : events[fd] # n
      /\ n \in Nat /\ n + 1 \in 1..(MaxPeers + 1) /\ n # Nothing
  BY <1>1, DeviceAssumption DEF Fresh, TypeOK, Idx, Nothing
<1>4. /\ peer' \in [Idx -> PeerType]
      /\ peer'[n].key = k /\ peer'[n].conn = Nothing
      /\ \A j \in Idx : j # n => peer'[j] = peer[j]
  BY <1>1 DEF TypeOK, PeerType, Peer
<1>5. TypeOK'
  BY <1>1, <1>3, <1>4 DEF TypeOK
<1>6. Fresh'
  BY <1>1, <1>3 DEF Fresh, TypeOK, Idx, Nothing
<1>7. TablesAgree'
  BY <1>1, <1>3, <1>4 DEF TablesAgree, TypeOK
<1>8. RemovedApart'
  BY <1>1, <1>3, <1>4 DEF RemovedApart, TypeOK
<1>9. JobsServed' /\ CommandAlone'
  BY <1>2 DEF JobsServed, CommandAlone
<1>10. ConnectedToEndpoint' /\ OwnSocket'
  BY <1>1, <1>4 DEF Sockets, ConnectedToEndpoint, OwnSocket
<1>11. NoStraySocket'
  BY <1>1, <1>3, <1>4 DEF Sockets, NoStraySocket, TypeOK
<1>12. Registering'
  BY <1>2 DEF Registering
<1> QED
  BY <1>5, <1>6, <1>7, <1>8, <1>9, <1>10, <1>11, <1>12 DEF Sockets

\* A commit of a peer section keeps the inductive invariant.
LEMMA StepCommit ==
  ASSUME IInv, (\E k \in Keys : NextPeer(k)) \/ LastPeer
  PROVE  IInv'
<1>1. /\ cmd.at = "peer" /\ ~Unsupported /\ update_peer
      /\ UNCHANGED <<events, listening, job, panicked>>
  BY DEF NextPeer, LastPeer, At
<1>2. cmd' \in CmdType
  <2>1. CASE \E k \in Keys : NextPeer(k)
    BY <2>1, <1>1, SectionType DEF NextPeer, IInv, TypeOK
  <2>2. CASE LastPeer
    BY <2>2 DEF LastPeer, NoCommand, CmdType
  <2> QED
    BY <2>1, <2>2
<1>3. \A u \in Listeners : job[u] = Idle
  BY <1>1 DEF IInv, CommandAlone
<1>4. cmd.key \in Keys /\ cmd.endpoint \in Addrs \union {NoAddr}
  BY <1>1, PeerCommand DEF IInv, TypeOK
<1>5. CASE cmd.remove
  <2>1. peers[cmd.key] \in peers_by_idx \union {Nothing}
    BY <1>4 DEF IInv, TablesAgree
  <2> QED
    BY <1>1, <1>2, <1>3, <1>5, <2>1, StepRemove DEF update_peer
<1>6. CASE ~cmd.remove
  <2>1. PICK ips \in SUBSET Ips : add_peer(cmd.key, cmd.endpoint, ips)
    BY <1>1, <1>6 DEF update_peer
  <2>2. peers[cmd.key] = Nothing
    BY <1>1, <1>6 DEF Unsupported
  <2> QED
    BY <1>1, <1>2, <1>3, <1>4, <2>1, <2>2, StepAdd
<1> QED
  BY <1>5, <1>6

(***************************************************************************)
(* Theorems                                                                *)
(***************************************************************************)

\* Every step keeps the inductive invariant.
LEMMA StepIInv == IInv /\ [Next]_vars => IInv'
<1> SUFFICES ASSUME IInv, [Next]_vars PROVE IInv'
  OBVIOUS
<1>1. CASE UNCHANGED vars
  BY <1>1, StepLine DEF vars, IInv, TypeOK, CommandAlone
<1>2. ASSUME NEW u \in Listeners, Handle(u) PROVE IInv'
  BY <1>2, StepSetEndpoint, StepConnect, StepDone DEF Handle
<1>3. ASSUME NEW u \in Listeners, NEW i \in Idx, NEW a \in Addrs, Receive(u, i, a)
      PROVE  IInv'
  BY <1>3, StepReceive
<1>4. CASE \E fd \in Fds : Eof(fd)
  BY <1>4, StepEof
<1>5. CASE \E i \in Idx : Expire(i)
  BY <1>5, StepExpire
<1>6. CASE Command
  <2>1. CASE \E k \in Keys : FirstPeer(k) \/ NextPeer(k)
    BY <2>1, StepNoCommit, StepCommit
  <2>2. CASE \E ok \in BOOLEAN : open_listen_socket(ok)
    BY <2>2, StepListen
  <2>3. CASE clear_peers
    BY <2>3, StepClear
  <2>4. CASE api_set \/ set_key \/ PeerLine \/ Panic \/ Return
    BY <2>4, StepNoCommit
  <2>5. CASE LastPeer
    BY <2>5, StepCommit
  <2> QED
    BY <1>6, <2>1, <2>2, <2>3, <2>4, <2>5 DEF Command
<1> QED
  BY <1>1, <1>2, <1>3, <1>4, <1>5, <1>6 DEF Next

\* The invariant holds in every reachable state.
LEMMA Invariant == Spec => []IInv
  BY InitIInv, StepIInv, PTL DEF Spec

\* The device stays in its types, for any keys, addresses and bounds.
THEOREM DeviceTypeCorrect == Spec => []TypeOK
<1>1. IInv => TypeOK
  BY DEF IInv
<1> QED
  BY <1>1, Invariant, PTL

\* The tables of peers agree after any sequence of commands, broken off anywhere.
THEOREM TablesAlwaysAgree == Spec => []TablesAgree
<1>1. IInv => TablesAgree
  BY DEF IInv
<1> QED
  BY <1>1, Invariant, PTL

\* A connected socket is open and connected to the endpoint of its peer, however the
\* handlers of udp4 and udp6 and the timers interleave.
THEOREM ConnectedAlwaysToEndpoint == Spec => []ConnectedToEndpoint
<1>1. IInv => ConnectedToEndpoint
  BY DEF IInv, Sockets
<1> QED
  BY <1>1, Invariant, PTL

\* A change of endpoints leaves no open socket behind.
THEOREM NeverStraySocket == Spec => []NoStraySocket
<1>1. IInv => NoStraySocket
  BY DEF IInv, Sockets
<1> QED
  BY <1>1, Invariant, PTL

\* Nothing is left of a peer that was removed.
THEOREM RemovedStaysGone == Spec => []RemovedIsGone
  BY RemovedFollows, Invariant, PTL
(***************************************************************************)
(* The lock of the device, for any number of workers and API events.       *)
(* UpgradeIsAtomic and NoStrayYield are inductive only together with the   *)
(* fact that one worker at a time stands between raising wants_write and   *)
(* lowering it, and NoNewReader only with the fact that a worker that is   *)
(* about to take the inner lock still holds the mutex.                     *)
(***************************************************************************)
\* At most one worker has raised wants_write, and it stays raised until it is done.
OneClaim ==
  /\ \A t, u \in Threads : pc[t] \in Claimed /\ pc[u] \in Claimed => t = u
  /\ \A t \in Threads : pc[t] \in Claimed => wants_write

\* A worker about to take the inner lock in read() holds the mutex.
EntersLocked == \A t \in Threads : Stands(t, "enter") => mutex = t

LockIInv ==
  /\ LockTypeOK /\ OneClaim /\ EntersLocked
  /\ UpgradeIsAtomic /\ NoNewReader /\ NoStrayYield

\* The initial state satisfies the inductive invariant.
LEMMA InitLockIInv == LockInit => LockIInv
<1> SUFFICES ASSUME LockInit PROVE LockIInv
  OBVIOUS
<1>1. exit_notice \in BOOLEAN /\ update_panicked \in BOOLEAN
  BY Zenon DEF LockInit
<1>2. LockTypeOK
  BY <1>1 DEF LockInit, LockTypeOK, Places
<1>3. OneClaim /\ EntersLocked /\ UpgradeIsAtomic
  BY DEF LockInit, OneClaim, EntersLocked, UpgradeIsAtomic, Stands, Claimed
<1>4. NoNewReader /\ NoStrayYield
  BY DEF LockInit, NoNewReader, NoStrayYield, Stands
<1> QED
  BY <1>2, <1>3, <1>4 DEF LockIInv

\* Every step of every worker keeps the inductive invariant.
LEMMA StepLockIInv == LockIInv /\ [LockNext]_lockVars => LockIInv'
<1> SUFFICES ASSUME LockIInv, [LockNext]_lockVars PROVE LockIInv'
  OBVIOUS
<1> USE NobodyAssumption DEF LockIInv, LockTypeOK, OneClaim, EntersLocked, UpgradeIsAtomic,
     NoNewReader, NoStrayYield, Stands, Goto, Places, Claimed
<1>1. CASE UNCHANGED lockVars
  BY <1>1 DEF lockVars
<1>2. ASSUME NEW t \in Threads, Read(t) PROVE LockIInv'
  BY <1>2 DEF Read
<1>3. ASSUME NEW t \in Threads, Enter(t) PROVE LockIInv'
  BY <1>3 DEF Enter
<1>4. ASSUME NEW t \in Threads, Yield(t) PROVE LockIInv'
  BY <1>4 DEF Yield
<1>5. ASSUME NEW t \in Threads, Exit(t) \/ Stop(t) PROVE LockIInv'
  <2>1. LeaveLoop(t) /\ Stands(t, "wait")
    BY <1>5 DEF Exit, Stop
  <2>2. exit_notice' \in BOOLEAN
    BY <2>1, Zenon DEF LeaveLoop
  <2> QED
    BY <2>1, <2>2 DEF LeaveLoop
<1>6. ASSUME NEW t \in Threads, NEW e \in ApiEvents, ApiCommand(t, e) PROVE LockIInv'
  BY <1>6 DEF ApiCommand
<1>7. ASSUME NEW t \in Threads, Claim(t) PROVE LockIInv'
  \* wants_write was low, so nobody was in Claimed; the mutex was free, so nobody
  \* was about to enter.
  <2>1. LockTypeOK'
    BY <1>7 DEF Claim
  <2>2. CASE wants_write
    BY <1>7, <2>1, <2>2 DEF Claim
  <2>3. CASE ~wants_write
    <3>1. \A u \in Threads : pc[u] \notin Claimed /\ pc[u] # "enter"
      BY <1>7, <2>3 DEF Claim
    <3>2. \A u \in Threads : u # t => pc'[u] = pc[u]
      BY <1>7 DEF Claim
    <3> QED
      BY <1>7, <2>1, <2>3, <3>1, <3>2 DEF Claim
  <2> QED
    BY <2>2, <2>3
<1>8. ASSUME NEW t \in Threads, Relock(t) \/ Reread(t) PROVE LockIInv'
  BY <1>8 DEF Relock, Reread
<1>9. ASSUME NEW t \in Threads, Prep(t) PROVE LockIInv'
  BY <1>9 DEF Prep
<1>10. ASSUME NEW t \in Threads, Upgrade(t) \/ Ask(t) \/ Drain(t) PROVE LockIInv'
  BY <1>10 DEF Upgrade, Ask, Drain
<1>11. ASSUME NEW t \in Threads, Write(t) PROVE LockIInv'
  BY <1>11 DEF Write
<1>12. ASSUME NEW t \in Threads, Update(t) PROVE LockIInv'
  \* The version changes under the only worker that is in Claimed, and that one
  \* leaves the places where it must have seen the latest version.
  <2>1. \A u \in Threads : u # t => pc[u] \notin Claimed /\ pc'[u] = pc[u]
    BY <1>12 DEF Update
  <2>2. UpgradeIsAtomic'
    BY <1>12, <2>1 DEF Update
  <2>3. NoStrayYield'
    BY <1>12, <2>1 DEF Update
  <2> QED
    BY <1>12, <2>2, <2>3 DEF Update
<1>13. ASSUME NEW t \in Threads, UpdatePanics(t) PROVE LockIInv'
  BY <1>13 DEF UpdatePanics
<1>14. ASSUME NEW t \in Threads, Signal(t) PROVE LockIInv'
  \* No other worker is in Claimed, and none that is woken goes there.
  <2>1. \A u \in Threads : pc'[u] \notin Claimed /\ pc'[u] # "enter"
    BY <1>14 DEF Signal, Woken
  <2>2. LockTypeOK'
    BY <1>14 DEF Signal, Woken
  <2>3. ~yield_notice
    BY <1>14 DEF Signal
  <2> QED
    BY <1>14, <2>1, <2>2, <2>3 DEF Signal
<1> QED
  BY <1>1, <1>2, <1>3, <1>4, <1>5, <1>6, <1>7, <1>8, <1>9, <1>10, <1>11, <1>12,
     <1>13, <1>14 DEF LockNext, Work

\* Type correctness of the lock.
THEOREM LockTypeCorrect == LockSpec => []LockTypeOK
<1>1. LockIInv => LockTypeOK
  BY DEF LockIInv
<1> QED
  BY InitLockIInv, StepLockIInv, <1>1, PTL DEF LockSpec

\* Between the preparation and the write of an upgrade no other worker writes,
\* although the worker holds no lock in between.
THEOREM UpgradesAreAtomic == LockSpec => []UpgradeIsAtomic
<1>1. LockIInv => UpgradeIsAtomic
  BY DEF LockIInv
<1> QED
  BY InitLockIInv, StepLockIInv, <1>1, PTL DEF LockSpec

\* While a worker wants to write, no worker passes the test of read().
THEOREM ReadersHeldBack == LockSpec => []NoNewReader
<1>1. LockIInv => NoNewReader
  BY DEF LockIInv
<1> QED
  BY InitLockIInv, StepLockIInv, <1>1, PTL DEF LockSpec

\* The yield notice never outlives the upgrade that set it.
THEOREM YieldsAreForAWriter == LockSpec => []NoStrayYield
<1>1. LockIInv => NoStrayYield
  BY DEF LockIInv
<1> QED
  BY InitLockIInv, StepLockIInv, <1>1, PTL DEF LockSpec
=============================================================================
