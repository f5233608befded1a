------------------------------ MODULE TunnPair ------------------------------
(***************************************************************************)
(* Two ends of a WireGuard tunnel and the network between them.  The       *)
(* network is a set of datagrams that only grows: a datagram may reach the *)
(* other end never, once, several times, early or late.  Each end is the   *)
(* tunnel of Tunn driven as the device drives it: the interface hands it   *)
(* packets, the network hands it datagrams, and the periodic event calls   *)
(* update_timers at every tick of the clock.  The handlers run in several  *)
(* threads: between the methods one handler calls, others may call theirs. *)
(***************************************************************************)
EXTENDS Tunn, SequencesExt, FiniteSetsExt

CONSTANTS
  Peers,         \* the two ends
  Horizon,       \* bound: the last instant
  MaxEphs,       \* bound: ephemeral keys a peer may generate
  Handlers,      \* handlers of datagrams that may run at once at one end
  MaxPackets,    \* bound: packets the interface of a peer hands over
  MaxRestarts    \* bound: how often each peer is removed and added again

ASSUME PairAssumption == \E p, q \in Peers : p # q /\ Peers = {p, q}

VARIABLES
  tunn,          \* tunn[p]: the tunnel at p
  flushing,      \* flushing[p]: handlers at p that are in their flush loop
  net,           \* every datagram sent so far
  now,           \* Instant::now(), in ticks
  submitted,     \* submitted[p]: packets 1 .. submitted[p] were handed to p
  delivered,     \* history: delivered[p]: the packets p wrote to its interface
  sealed,        \* history: sealed[p]: number of data packets p encrypted
  restarts       \* restarts[p]: how often p started anew

vars == <<tunn, flushing, net, now, submitted, delivered, sealed, restarts>>

Init ==
  /\ tunn = [p \in Peers |-> NewTunn(p, 0, 0)]
  /\ flushing = [p \in Peers |-> 0]
  /\ net = {}
  /\ now = 0
  /\ submitted = [p \in Peers |-> 0]
  /\ delivered = [p \in Peers |-> <<>>]
  /\ sealed = [p \in Peers |-> 0]
  /\ restarts = [p \in Peers |-> 0]

\* p performs a method with result r.
Perform(p, r) ==
  /\ r.t.ephs <= MaxEphs
  /\ tunn' = [tunn EXCEPT ![p] = r.t]
  /\ net' = net \union ToSet(r.out)
  /\ sealed' = [sealed EXCEPT ![p] =
                  @ + Cardinality({i \in DOMAIN r.out : r.out[i].type = "data"})]
  /\ delivered' = IF r.up = NoPacket THEN delivered
                  ELSE [delivered EXCEPT ![p] = Append(@, r.up)]

\* The interface hands a packet to p (register_iface_handler).
Encapsulate(p) ==
  /\ submitted[p] < MaxPackets
  /\ submitted' = [submitted EXCEPT ![p] = @ + 1]
  /\ Perform(p, encapsulate(tunn[p], submitted[p] + 1, now))
  /\ UNCHANGED <<flushing, now, restarts>>

\* Mutant: an answer is not followed by a flush of the queue.
Deliver_NoFlush(p, m) ==
  /\ m.from # p
  /\ Perform(p, decapsulate(tunn[p], m, now))
  /\ UNCHANGED <<flushing, now, submitted, restarts>>

\* A datagram of the other end reaches p: a handler handles it, and if that wrote
\* to the network it goes on to flush the queue.
Deliver(p, m) ==
  LET r == decapsulate(tunn[p], m, now)
  IN  /\ m.from # p
      /\ flushing[p] < Handlers
      /\ Perform(p, r)
      /\ flushing' = IF r.out = <<>> THEN flushing ELSE [flushing EXCEPT ![p] = @ + 1]
      /\ UNCHANGED <<now, submitted, restarts>>

\* One round of that loop, which ends with the first round that writes nothing.
FlushRound(p) ==
  LET r == decapsulate(tunn[p], Repeat, now)
  IN  /\ flushing[p] > 0
      /\ Perform(p, r)
      /\ flushing' = IF r.out = <<>> THEN [flushing EXCEPT ![p] = @ - 1] ELSE flushing
      /\ UNCHANGED <<now, submitted, restarts>>

\* The periodic event calls update_timers (register_timers).
UpdateTimers(p) ==
  /\ tunn[p].time.TimeCurrent < now
  /\ Perform(p, update_timers(tunn[p], now))
  /\ UNCHANGED <<flushing, now, submitted, restarts>>

\* Time passes once the periodic event has run at both ends.
Tick ==
  /\ now < Horizon
  /\ \A p \in Peers : tunn[p].time.TimeCurrent = now
  /\ now' = now + 1
  /\ UNCHANGED <<tunn, flushing, net, submitted, delivered, sealed, restarts>>

\* p is removed and added again: it starts with a new tunnel.  The API command
\* that does it waits for the handlers to return (DevLock).
Restart(p) ==
  /\ restarts[p] < MaxRestarts /\ flushing[p] = 0
  /\ restarts' = [restarts EXCEPT ![p] = @ + 1]
  /\ tunn' = [tunn EXCEPT ![p] = NewTunn(p, @.ephs, now)]
  /\ UNCHANGED <<flushing, net, now, submitted, delivered, sealed>>

Next ==
  \/ Tick
  \/ \E p \in Peers :
       \/ Encapsulate(p)
       \/ \E m \in net : Deliver(p, m)
       \/ FlushRound(p)
       \/ UpdateTimers(p)
       \/ Restart(p)

Spec == Init /\ [][Next]_vars

(***************************************************************************)
(* Properties                                                              *)
(***************************************************************************)
DataSent(p) == {m \in net : m.type = "data" /\ m.from = p}
Live(p) == {i \in Slots : tunn[p].sessions[i] # NoSession}

\* No key encrypts two packets under one counter: the data packets p sealed are
\* all different in (key, counter).
NonceUnique ==
  \A p \in Peers :
    Cardinality({<<m.key, m.counter>> : m \in DataSent(p)}) = sealed[p]

\* Every packet reaches the other interface at most once, and only after it was
\* handed to the tunnel.
DeliveredOnce ==
  \A p, q \in Peers : p # q =>
    /\ IsInjective(delivered[q])
    /\ ToSet(delivered[q]) \subseteq 1..submitted[p]

\* Two sessions with one key are the two ends of one tunnel: each sends to the
\* index the other receives on.  No end holds two sessions with one key.
KeyAgreement ==
  \A p, q \in Peers : \A i \in Live(p), j \in Live(q) :
    LET s == tunn[p].sessions[i]
        r == tunn[q].sessions[j]
    IN  s.key = r.key =>
          \/ p = q /\ i = j
          \/ p # q /\ s.peer = r.local /\ r.peer = s.local

\* Packets that wait for a session are never forgotten: either an initiation that
\* is retransmitted pursues them, or a handler is about to flush them.
QueuedIsRetried ==
  \A p \in Peers :
    tunn[p].queue # <<>> => IsInitSent(tunn[p].state) \/ flushing[p] > 0
=============================================================================
