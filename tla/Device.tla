------------------------------- MODULE Device -------------------------------
(***************************************************************************)
(* The peers of a device and their connected sockets                       *)
(* (boringtun/src/device/mod.rs, peer.rs, api.rs, epoll.rs).               *)
(*                                                                         *)
(* The handlers of events run in several workers at once, under a read     *)
(* lock on the device; an event is one-shot, so that udp4 and udp6 have at *)
(* most one handler at work each.  One that accepted a datagram makes its  *)
(* source the endpoint of the peer, connects a socket to the endpoint, and *)
(* registers a handler for that socket; each of the three takes the peer's *)
(* endpoint lock, or the lock of the event table, for itself.  An API      *)
(* command holds the write lock (DevLock): no handler runs meanwhile.      *)
(*                                                                         *)
(* A peer object is named by its index, which next_index never gives out   *)
(* twice, and a connected socket by its descriptor.  A socket is closed,   *)
(* and its descriptor free, when nothing holds it any more: no endpoint,   *)
(* no handler in the event table, no handler at work.                      *)
(***************************************************************************)
EXTENDS Naturals, FiniteSets

CONSTANTS
  Keys,          \* public keys of peers
  V4, V6,        \* addresses datagrams come from to udp4 and to udp6
  Ips,           \* allowed addresses inside the tunnels
  MaxPeers,      \* bound: peers created in a run
  MaxFds         \* bound: connected sockets open at once

ASSUME DeviceAssumption == MaxPeers \in Nat /\ MaxFds \in Nat

Addrs == V4 \union V6
Listeners == {"udp4", "udp6"}
From(u) == IF u = "udp4" THEN V4 ELSE V6      \* where its datagrams come from
Idx == 1..MaxPeers
Fds == 1..MaxFds
Nothing == 0                 \* no peer (indices start at 1 here), no socket
NoAddr == "no address"
ASSUME NoAddrAssumption == NoAddr \notin Addrs

VARIABLES
  peers,         \* peers[k]: the peer with that key
  peers_by_idx,  \* the indices that are found
  peers_by_ip,   \* peers_by_ip[ip]: the peer packets to it are sent to
  next_index,
  peer,          \* peer[i]: the object: its key, and its endpoint's addr and conn
  sock,          \* sock[fd]: the address it is connected to, NoAddr when shut down
  events,        \* events[fd]: the peer of the handler registered for it
  listening,     \* udp4 and udp6 are there
  job,           \* job[u]: what the handler of u has to do next
  cmd,           \* the set command that runs, or NoCommand
  removed,       \* history: the peers that were removed by name
  panicked       \* a command panicked; nothing runs any more (DevLock)

tables == <<peers, peers_by_idx, peers_by_ip, next_index>>
vars == <<tables, peer, sock, events, listening, job, cmd, removed, panicked>>

\* A peer with its endpoint.
Peer(key, addr, conn) == [key |-> key, addr |-> addr, conn |-> conn]

\* What a handler has to do next, for which peer, with which address and socket.
Job(at, i, a, fd) == [at |-> at, peer |-> i, addr |-> a, fd |-> fd]
Idle == Job("idle", Nothing, NoAddr, Nothing)
NoCommand == [at |-> "none"]
NoLines == [remove |-> FALSE, endpoint |-> NoAddr]

\* A device with its key set that listens on a port.
Init ==
  /\ peers = [k \in Keys |-> Nothing]
  /\ peers_by_idx = {}
  /\ peers_by_ip = [ip \in Ips |-> Nothing]
  /\ next_index = 1
  /\ peer = [i \in Idx |-> Peer(Nothing, NoAddr, Nothing)]
  /\ sock = [fd \in Fds |-> NoAddr]
  /\ events = [fd \in Fds |-> Nothing]
  /\ listening = TRUE
  /\ job = [u \in Listeners |-> Idle]
  /\ cmd = NoCommand
  /\ removed = {}
  /\ panicked = FALSE

InUse(fd) ==
  \/ events[fd] # Nothing
  \/ \E i \in Idx : peer[i].conn = fd
  \/ \E u \in Listeners : job[u].fd = fd

\* What shutting the sockets of the peers in S makes of sock and of peer.
Shut(S) == [fd \in Fds |->
  IF \E i \in S \ {Nothing} : peer[i].conn = fd THEN NoAddr ELSE sock[fd]]
Disconnected(S) == [i \in Idx |->
  IF i \in S THEN [peer[i] EXCEPT !.conn = Nothing] ELSE peer[i]]

shutdown_endpoint(S) == sock' = Shut(S) /\ peer' = Disconnected(S)

(***************************************************************************)
(* Handlers                                                                *)
(***************************************************************************)
Running == cmd = NoCommand /\ ~panicked

\* A datagram from a reached u, and the tunnel of a peer of the device accepted it.
Receive(u, i, a) ==
  /\ Running /\ listening
  /\ a \in From(u)
  /\ job[u] = Idle
  /\ i \in peers_by_idx
  /\ job' = [job EXCEPT ![u] = Job("set", i, a, Nothing)]
  /\ UNCHANGED <<tables, peer, sock, events, listening, cmd, removed, panicked>>

\* Mutant: the socket to the old address is forgotten but not shut down.
set_endpoint_NoShutdown(u) ==
  LET i == job[u].peer
      a == job[u].addr
  IN  /\ job[u].at = "set"
      /\ job' = [job EXCEPT ![u] = Job("connect", i, NoAddr, Nothing)]
      /\ IF peer[i].addr = a THEN UNCHANGED <<peer, sock>>
         ELSE /\ peer' = [peer EXCEPT ![i] = Peer(@.key, a, Nothing)]
              /\ UNCHANGED sock
      /\ UNCHANGED <<tables, events, listening, cmd, removed, panicked>>

\* Mutant: the socket to the old address stays the peer's.
set_endpoint_KeepsConn(u) ==
  LET i == job[u].peer
      a == job[u].addr
  IN  /\ job[u].at = "set"
      /\ job' = [job EXCEPT ![u] = Job("connect", i, NoAddr, Nothing)]
      /\ peer' = [peer EXCEPT ![i].addr = a]
      /\ UNCHANGED <<tables, sock, events, listening, cmd, removed, panicked>>

set_endpoint(u) ==
  LET i == job[u].peer
      a == job[u].addr
  IN  /\ job[u].at = "set"
      /\ job' = [job EXCEPT ![u] = Job("connect", i, NoAddr, Nothing)]
      /\ IF peer[i].addr = a THEN UNCHANGED <<peer, sock>>
         ELSE /\ sock' = Shut({i})
              /\ peer' = [peer EXCEPT ![i] = Peer(@.key, a, Nothing)]
      /\ UNCHANGED <<tables, events, listening, cmd, removed, panicked>>

\* connect_endpoint makes a socket that is connected to the endpoint as it is now,
connect_endpoint(u, fd) ==
  LET i == job[u].peer
  IN  /\ job[u].at = "connect"
      /\ peer[i].conn = Nothing
      /\ ~InUse(fd)
      /\ sock' = [sock EXCEPT ![fd] = peer[i].addr]
      /\ peer' = [peer EXCEPT ![i].conn = fd]
      /\ job' = [job EXCEPT ![u] = Job("register", i, NoAddr, fd)]
      /\ UNCHANGED <<tables, events, listening, cmd, removed, panicked>>

\* or fails: there is one, or a system call went wrong.
connect_fails(u) ==
  /\ job[u].at = "connect"
  /\ job' = [job EXCEPT ![u] = Idle]
  /\ UNCHANGED <<tables, peer, sock, events, listening, cmd, removed, panicked>>

register_conn_handler(u) ==
  /\ job[u].at = "register"
  /\ events' = [events EXCEPT ![job[u].fd] = job[u].peer]
  /\ job' = [job EXCEPT ![u] = Idle]
  /\ UNCHANGED <<tables, peer, sock, listening, cmd, removed, panicked>>

\* Mutant: the event is re-armed and not cancelled.
Eof_Rearmed(fd) ==
  /\ Running
  /\ events[fd] # Nothing /\ sock[fd] = NoAddr
  /\ UNCHANGED vars

\* A socket that was shut down reports the end of file, as often as its event is
\* armed: the worker that gets it cancels the event, and its handler is dropped.
Eof(fd) ==
  /\ Running
  /\ events[fd] # Nothing /\ sock[fd] = NoAddr
  /\ events' = [events EXCEPT ![fd] = Nothing]
  /\ UNCHANGED <<tables, peer, sock, listening, job, cmd, removed, panicked>>

\* update_timers of a peer with an endpoint answers ConnectionExpired.
Expire(i) ==
  /\ Running /\ listening
  /\ \E k \in Keys : peers[k] = i
  /\ peer[i].addr # NoAddr
  /\ shutdown_endpoint({i})
  /\ UNCHANGED <<tables, events, listening, job, cmd, removed, panicked>>

(***************************************************************************)
(* The set command, line by line.  Under the write lock no handler runs.   *)
(***************************************************************************)
api_set ==
  /\ Running
  /\ \A u \in Listeners : job[u] = Idle
  /\ cmd' = [at |-> "device"]
  /\ UNCHANGED <<tables, peer, sock, events, listening, job, removed, panicked>>

At(place) == cmd.at = place /\ ~panicked

\* A new peer section begins, with the flags of the last one.  (Its allowed_ips, which
\* are cleared, are chosen when it is committed.)
Section(k, c) ==
  [at |-> "peer", key |-> k, remove |-> c.remove, endpoint |-> c.endpoint]

\* public_key= in the device section: api_set_peer is called.
FirstPeer(k) ==
  /\ At("device")
  /\ cmd' = Section(k, NoLines)
  /\ UNCHANGED <<tables, peer, sock, events, listening, job, removed, panicked>>

\* listen_port=: the sockets are closed before the new ones are opened.
open_listen_socket(ok) ==
  /\ At("device")
  /\ shutdown_endpoint({peers[k] : k \in Keys})
  /\ listening' = ok
  /\ cmd' = IF ok THEN cmd ELSE NoCommand
  /\ UNCHANGED <<tables, events, job, removed, panicked>>

\* replace_peers=true
clear_peers ==
  /\ At("device")
  /\ peers' = [k \in Keys |-> Nothing]
  /\ peers_by_idx' = {}
  /\ peers_by_ip' = [ip \in Ips |-> Nothing]
  /\ UNCHANGED <<next_index, peer, sock, events, listening, job, cmd, removed,
                 panicked>>

\* private_key= with another key: get_mut of a peer fails, as peers_by_idx has it too.
set_key ==
  /\ At("device")
  /\ panicked' = \E k \in Keys : peers[k] # Nothing
  /\ UNCHANGED <<tables, peer, sock, events, listening, job, cmd, removed>>

\* remove= or endpoint=
PeerLine ==
  /\ At("peer")
  /\ \/ \E v \in BOOLEAN : cmd' = [cmd EXCEPT !.remove = v]
     \/ \E a \in Addrs : cmd' = [cmd EXCEPT !.endpoint = a]
  /\ UNCHANGED <<tables, peer, sock, events, listening, job, removed, panicked>>

\* A table of peers with the entries for peer i taken out.
Without(table, i) ==
  [x \in DOMAIN table |-> IF table[x] = i THEN Nothing ELSE table[x]]

\* Mutant: the routes to the peer stay.
remove_peer_KeepsRoutes(i) ==
  /\ peers' = Without(peers, i)
  /\ peers_by_idx' = peers_by_idx \ {i}
  /\ shutdown_endpoint({i})
  /\ removed' = removed \union ({i} \ {Nothing})
  /\ UNCHANGED <<next_index, peers_by_ip>>

\* Mutant: its socket is left open.
remove_peer_NoShutdown(i) ==
  /\ peers' = Without(peers, i)
  /\ peers_by_idx' = peers_by_idx \ {i}
  /\ peers_by_ip' = Without(peers_by_ip, i)
  /\ removed' = removed \union ({i} \ {Nothing})
  /\ UNCHANGED <<next_index, peer, sock>>

\* i is the peer of the key, or Nothing.
remove_peer(i) ==
  /\ peers' = Without(peers, i)
  /\ peers_by_idx' = peers_by_idx \ {i}
  /\ peers_by_ip' = Without(peers_by_ip, i)
  /\ shutdown_endpoint({i})
  /\ removed' = removed \union ({i} \ {Nothing})
  /\ UNCHANGED next_index

add_peer(k, endpoint, ips) ==
  /\ next_index \in Idx
  /\ next_index' = next_index + 1
  /\ peers' = [peers EXCEPT ![k] = next_index]
  /\ peers_by_idx' = peers_by_idx \union {next_index}
  /\ peers_by_ip' = [ip \in Ips |-> IF ip \in ips THEN next_index ELSE peers_by_ip[ip]]
  /\ peer' = [peer EXCEPT ![next_index] = Peer(k, endpoint, Nothing)]
  /\ UNCHANGED <<sock, removed>>

\* A known peer that is not to be removed makes update_peer panic.
Unsupported == ~cmd.remove /\ peers[cmd.key] # Nothing

update_peer ==
  IF cmd.remove THEN remove_peer(peers[cmd.key])
  ELSE \E ips \in SUBSET Ips : add_peer(cmd.key, cmd.endpoint, ips)

\* public_key= in a peer section: commit, and on to the next peer.
NextPeer(k) ==
  /\ At("peer") /\ ~Unsupported
  /\ update_peer
  /\ cmd' = Section(k, cmd)
  /\ UNCHANGED <<events, listening, job, panicked>>

\* An empty line, or the end of the stream: commit, and done.
LastPeer ==
  /\ At("peer") /\ ~Unsupported
  /\ update_peer
  /\ cmd' = NoCommand
  /\ UNCHANGED <<events, listening, job, panicked>>

Panic ==
  /\ At("peer") /\ Unsupported
  /\ panicked' = TRUE
  /\ UNCHANGED <<tables, peer, sock, events, listening, job, cmd, removed>>

\* The command ends and commits no more: an empty line in the device section, or a
\* line that is not understood.
Return ==
  /\ At("device") \/ At("peer")
  /\ cmd' = NoCommand
  /\ UNCHANGED <<tables, peer, sock, events, listening, job, removed, panicked>>

(***************************************************************************)
(* Specification                                                           *)
(***************************************************************************)
Handle(u) ==
  \/ set_endpoint(u)
  \/ \E fd \in Fds : connect_endpoint(u, fd)
  \/ connect_fails(u)
  \/ register_conn_handler(u)

Command ==
  \/ api_set
  \/ \E k \in Keys : FirstPeer(k) \/ NextPeer(k)
  \/ \E ok \in BOOLEAN : open_listen_socket(ok)
  \/ clear_peers \/ set_key \/ PeerLine \/ LastPeer \/ Panic \/ Return

Next ==
  \/ \E u \in Listeners :
       \/ \E i \in Idx, a \in Addrs : Receive(u, i, a)
       \/ Handle(u)
  \/ \E fd \in Fds : Eof(fd)
  \/ \E i \in Idx : Expire(i)
  \/ Command

(***************************************************************************)
(* Handlers return; a client ends its command or hangs up (assumed: the    *)
(* code has no timeout for it); and epoll, whose ready list is a queue,    *)
(* hands a socket that stays ready to some worker although the workers may *)
(* be busy with other things again and again: hence the strong fairness.   *)
(***************************************************************************)
Spec ==
  /\ Init /\ [][Next]_vars
  /\ \A u \in Listeners : WF_vars(Handle(u))
  /\ WF_vars(LastPeer \/ Panic \/ Return)
  /\ \A fd \in Fds : SF_vars(Eof(fd))

(***************************************************************************)
(* Properties                                                              *)
(***************************************************************************)
PeerType == [key : Keys \union {Nothing}, addr : Addrs \union {NoAddr},
             conn : Fds \union {Nothing}]
JobType == [at : {"idle", "set", "connect", "register"}, peer : Idx \union {Nothing},
            addr : Addrs \union {NoAddr}, fd : Fds \union {Nothing}]
CmdType == [at : {"none", "device"}] \union
  [at : {"peer"}, key : Keys, remove : BOOLEAN, endpoint : Addrs \union {NoAddr}]

TypeOK ==
  /\ peers \in [Keys -> Idx \union {Nothing}]
  /\ peers_by_idx \in SUBSET Idx
  /\ peers_by_ip \in [Ips -> Idx \union {Nothing}]
  /\ next_index \in 1..(MaxPeers + 1)
  /\ peer \in [Idx -> PeerType]
  /\ sock \in [Fds -> Addrs \union {NoAddr}]
  /\ events \in [Fds -> Idx \union {Nothing}]
  /\ job \in [Listeners -> JobType]
  /\ cmd \in CmdType
  /\ removed \in SUBSET Idx
  /\ listening \in BOOLEAN /\ panicked \in BOOLEAN

\* The three tables of peers speak of the same peers, whatever commands ran, and
\* however they ended: a peer is found by its key if and only if it is found by
\* its index, and an address is routed only to such a peer.
TablesAgree ==
  /\ {peers[k] : k \in Keys} \ {Nothing} = peers_by_idx
  /\ \A k \in Keys : peers[k] # Nothing => peer[peers[k]].key = k
  /\ {peers_by_ip[ip] : ip \in Ips} \ {Nothing} \subseteq peers_by_idx

\* mod.rs:801, "Prefer to send using the connected socket": it is open, and
\* connected to the endpoint the peer was last heard from, although handlers that
\* heard the peer from different addresses set the endpoint and connect to it
\* between each other's steps.
ConnectedToEndpoint ==
  \A i \in Idx : peer[i].conn # Nothing =>
    peer[i].addr # NoAddr /\ sock[peer[i].conn] = peer[i].addr

\* A socket that is open is the one of the endpoint of its handler's peer: a
\* change of endpoints leaves no socket behind that still takes datagrams.
NoStraySocket ==
  \A fd \in Fds :
    events[fd] # Nothing /\ sock[fd] # NoAddr => peer[events[fd]].conn = fd

\* mod.rs:277, "now purge all references to it": of a peer that was removed no
\* socket is open, and no worker works for it.
RemovedIsGone ==
  \A i \in removed :
    /\ i \notin peers_by_idx /\ peer[i].conn = Nothing
    /\ \A fd \in Fds : events[fd] = i => sock[fd] = NoAddr
    /\ \A u \in Listeners : job[u].peer # i

\* A connected socket that was shut down is closed in the end, also when the
\* shutdown came between its creation and the registration of its handler.
ShutIsClosed ==
  \A fd \in Fds : (InUse(fd) /\ sock[fd] = NoAddr) ~> (~InUse(fd) \/ panicked)

\* api.rs:335, "Indicates a new peer section. Commit changes for current peer, and
\* continue to next peer": what the lines of one section said is not said of the next.
SectionsAreSeparate ==
  [][\A k \in Keys : NextPeer(k) => ~cmd'.remove /\ cmd'.endpoint = NoAddr]_vars
=============================================================================
