--------------------------- MODULE TunnPairProofs ---------------------------
(***************************************************************************)
(* Proofs about the two ends of a tunnel, for any constants and whatever   *)
(* the network loses, duplicates, delays or reorders.  The inductive       *)
(* invariant IInv says what the datagrams sent so far, all of them still   *)
(* in net, have to do with the handshakes, sessions and queue of a tunnel: *)
(* Good has one part for each.  That a session key is Past, no handshake   *)
(* yields it again, is what keeps its counters from starting anew, when    *)
(* slots are overwritten, sessions expire and peers restart.               *)
(***************************************************************************)
EXTENDS TunnPair, FiniteSetTheorems, TLAPS

(***************************************************************************)
(* Types of the datagrams and of the state.                                *)
(***************************************************************************)
Inits == [type : {"init"}, from : Peers, sender_idx : Nat, eph : Nat, timestamp : Nat,
          mac2 : BOOLEAN]
Resps == [type : {"resp"}, from : Peers, sender_idx : Nat, receiver_idx : Nat, to : Nat,
          eph : Nat, mac2 : BOOLEAN]
Datas == [type : {"data"}, from : Peers, receiver_idx : Nat, key : Keys(Peers), counter : Nat,
          packet : Nat]
Datagrams == Inits \union Resps \union Datas

TypeOK ==
  /\ tunn \in [Peers -> Tunnels(Peers)]
  /\ \A p \in Peers : tunn[p].me = p
  /\ flushing \in [Peers -> Nat]
  /\ net \in SUBSET Datagrams
  /\ now \in Nat
  /\ submitted \in [Peers -> Nat]
  /\ delivered \in [Peers -> Seq(Nat)]
  /\ sealed \in [Peers -> Nat]
  /\ restarts \in [Peers -> Nat]

(***************************************************************************)
(* What is true of a tunnel u when N are the datagrams sent so far.        *)
(***************************************************************************)
IsData(m, p) == m.type = "data" /\ m.from = p
IsHandshake(m, p) == m.type \in {"init", "resp"} /\ m.from = p

\* An outgoing handshake with this ephemeral key awaits its answer.
Awaits(u, eph) == \E hs \in {u.state, u.previous} : IsInitSent(hs) /\ hs.eph = eph

\* No handshake of u can yield the key any more.
Past(u, key) ==
  IF key.initiator = u.me THEN key.init <= u.ephs /\ ~Awaits(u, key.init) ELSE key.resp <= u.ephs

\* Every handshake message has an ephemeral key of its own.
EphsDiffer(u, N) ==
  /\ \A m \in N : IsHandshake(m, u.me) => m.eph <= u.ephs
  /\ \A m, n \in N : IsHandshake(m, u.me) /\ IsHandshake(n, u.me) /\ m.eph = n.eph => m = n

\* An initiation was sent for each answer that is awaited.
AwaitedWereSent(u, N) ==
  /\ \A hs \in {u.state, u.previous} : IsInitSent(hs) =>
       /\ hs.eph <= u.ephs
       /\ \E m \in N : m.type = "init" /\ m.from = u.me /\ m.eph = hs.eph /\ m.sender_idx = hs.local
  /\ IsInitSent(u.state) /\ IsInitSent(u.previous) => u.state.eph # u.previous.eph

\* An initiation and its response were sent, and their indices are the ones of the session.
Exchanged(p, s, N) ==
  \E m, n \in N :
    /\ m.type = "init" /\ m.from = s.key.initiator /\ m.eph = s.key.init
    /\ n.type = "resp" /\ n.from # m.from /\ n.eph = s.key.resp
    /\ \/ p = m.from /\ s.local = m.sender_idx /\ s.peer = n.sender_idx
       \/ p = n.from /\ s.local = n.sender_idx /\ s.peer = m.sender_idx

SessionsExchanged(u, N) ==
  \A i \in Slots : u.sessions[i] # NoSession =>
    /\ Slot(u.sessions[i].local) = i
    /\ Past(u, u.sessions[i].key)
    /\ Exchanged(u.me, u.sessions[i], N)

\* No data under a key that is still to come, or under a counter that is.
NoncesUsed(u, N) ==
  \A m \in N : IsData(m, u.me) =>
    /\ Past(u, m.key)
    /\ \A i \in Slots : u.sessions[i] # NoSession /\ u.sessions[i].key = m.key
         => m.counter < u.sessions[i].counter

Nonces(p, N) == {<<m.key, m.counter>> : m \in {n \in N : IsData(n, p)}}

NoncesCounted(u, N, sent) ==
  IsFiniteSet(Nonces(u.me, N)) /\ Cardinality(Nonces(u.me, N)) = sent

\* Each packet of the interface is in one datagram, or once in the queue.
PacketsOnce(u, N, given) ==
  /\ \A m \in N : IsData(m, u.me) => m.packet <= given
  /\ \A m, n \in N : IsData(m, u.me) /\ IsData(n, u.me) /\ m.packet = n.packet
       => m = n \/ m.packet = Keepalive
  /\ \A i \in 1..Len(u.queue) :
       /\ u.queue[i] <= given
       /\ \A j \in 1..Len(u.queue) : u.queue[i] = u.queue[j] => i = j \/ u.queue[i] = Keepalive
       /\ \A m \in N : IsData(m, u.me) /\ m.packet = u.queue[i] => m.packet = Keepalive

\* m was accepted at u: its key is past, and as long as its session is there, the
\* session has its counter.
Accepted(u, m) ==
  /\ m.type = "data" /\ m.from # u.me
  /\ Past(u, m.key)
  /\ \A i \in Slots : u.sessions[i] # NoSession /\ u.sessions[i].key = m.key
       => m.counter \in u.sessions[i].received

DeliveredWereSent(u, N, d) ==
  /\ \A k \in 1..Len(d) :
       d[k] # Keepalive /\ \E m \in N : Accepted(u, m) /\ m.packet = d[k]
  /\ \A k, l \in 1..Len(d) : d[k] = d[l] => k = l

Good(u, N, d, given, sent) ==
  /\ EphsDiffer(u, N) /\ AwaitedWereSent(u, N) /\ SessionsExchanged(u, N)
  /\ NoncesUsed(u, N) /\ NoncesCounted(u, N, sent)
  /\ PacketsOnce(u, N, given) /\ DeliveredWereSent(u, N, d)

IInv ==
  /\ TypeOK
  /\ \A p \in Peers : Good(tunn[p], net, delivered[p], submitted[p], sealed[p])


(***************************************************************************)
(* The operators of Tunn.                                                  *)
(***************************************************************************)
\* The fields the invariant is about.
SameCore(u, v) ==
  /\ v.me = u.me /\ v.ephs = u.ephs /\ v.sessions = u.sessions /\ v.queue = u.queue
  /\ v.state = u.state /\ v.previous = u.previous

\* Every session index has its slot.
LEMMA SlotType == \A i \in Nat : Slot(i) \in Slots /\ (N_SESSIONS \in Nat \ {0})
  BY TunnAssumption DEF TunnAssumption, Slot, Slots

\* The next session index.
LEMMA IndexType == \A u \in Tunnels(Peers) : inc_index(u) \in Nat
  BY TunnAssumption, SMTT(30) DEF TunnAssumption, inc_index, Tunnels

\* An outgoing handshake has an index, a key and a time.
LEMMA StateType ==
  \A hs \in HandshakeStates : IsInitSent(hs) =>
    hs \in [kind : {"InitSent"}, local : Nat, eph : Nat, time_sent : Nat]
  BY DEF HandshakeStates, IsInitSent, None, Expired

\* timer_tick changes nothing the invariant is about.
LEMMA TickFacts ==
  ASSUME NEW u \in Tunnels(Peers), NEW name \in TimerNames
  PROVE  /\ timer_tick(u, name) \in Tunnels(Peers)
         /\ SameCore(u, timer_tick(u, name))
         /\ timer_tick(u, name).current = u.current
<1>1. u.time.TimeCurrent \in Nat
  BY DEF Tunnels, TimerNames
<1>2. timer_tick(u, name) \in Tunnels(Peers)
  BY <1>1 DEF timer_tick, Tunnels
<1> QED
  BY <1>2 DEF timer_tick, Tunnels, SameCore

\* Neither does timer_tick_session_established.
LEMMA EstablishedFacts ==
  ASSUME NEW u \in Tunnels(Peers), NEW b \in BOOLEAN, NEW index \in Nat
  PROVE  LET v == timer_tick_session_established(u, b, index)
         IN  v \in Tunnels(Peers) /\ SameCore(u, v)
<1> DEFINE e == timer_tick(u, "TimeSessionEstablished")
           v == timer_tick_session_established(u, b, index)
<1>1. e \in Tunnels(Peers) /\ SameCore(u, e)
  BY TickFacts DEF TimerNames
<1>2. u.time.TimeCurrent \in Nat
  BY DEF Tunnels, TimerNames
<1>3. v = [e EXCEPT !.session_time[index % N_SESSIONS] = u.time.TimeCurrent,
                    !.is_initiator = b]
  BY DEF timer_tick_session_established
<1> HIDE DEF e
<1>4. [e.session_time EXCEPT ![index % N_SESSIONS] = u.time.TimeCurrent] \in [Slots -> Nat]
  BY <1>1, <1>2 DEF Tunnels
<1>5. v \in Tunnels(Peers)
  BY <1>1, <1>3, <1>4 DEF Tunnels
<1> QED
  BY <1>1, <1>3, <1>5 DEF Tunnels, SameCore

\* Nor set_current_session.
LEMMA CurrentFacts ==
  ASSUME NEW u \in Tunnels(Peers), NEW new \in Nat
  PROVE  set_current_session(u, new) \in Tunnels(Peers) /\ SameCore(u, set_current_session(u, new))
  BY DEF set_current_session, Tunnels, SameCore

\* Nor Timers::clear.
LEMMA ClearFacts ==
  ASSUME NEW u \in Tunnels(Peers), NEW n \in Nat
  PROVE  clear(u, n) \in Tunnels(Peers) /\ SameCore(u, clear(u, n))
  BY DEF clear, Tunnels, SameCore

\* The next index and key are numbers.
LEMMA FormattedType ==
  ASSUME NEW u \in Tunnels(Peers)
  PROVE  Formatted(u) \in Tunnels(Peers)
<1>1. inc_index(u) \in Nat /\ u.ephs + 1 \in Nat
  BY IndexType, SMTT(30) DEF Tunnels
<1>2. [index |-> inc_index(u), eph |-> u.ephs + 1] \in [index : Nat, eph : Nat]
  BY <1>1
<1> QED
  BY <1>1, <1>2 DEF Formatted, Tunnels

\* An initiation is made: the handshake that was outgoing is the previous one.
Started(u, v, n) ==
  /\ v.me = u.me /\ v.sessions = u.sessions /\ v.queue = u.queue
  /\ v.ephs = u.ephs + 1
  /\ v.previous = u.state /\ v.state = InitSent(inc_index(u), u.ephs + 1, n)

\* format_handshake_initiation does nothing while one is out, or starts one.
LEMMA InitiationFacts ==
  ASSUME NEW u \in Tunnels(Peers), NEW f \in BOOLEAN, NEW n \in Nat
  PROVE  LET r == format_handshake_initiation(u, f, n)
         IN  /\ r.t \in Tunnels(Peers) /\ r.up = NoPacket
             /\ \/ r.out = <<>> /\ r.t = u /\ IsInitSent(u.state) /\ ~f
                \/ r.out = <<Init1(u)>> /\ Started(u, r.t, n)
<1> DEFINE c == IF is_expired(u) THEN clear(u, n) ELSE u
           h == [Formatted(c) EXCEPT !.previous = u.state,
                                     !.state = InitSent(inc_index(u), u.ephs + 1, n)]
           s == IF is_in_progress(u) THEN h ELSE timer_tick(h, "TimeLastHandshakeStarted")
           v == timer_tick(s, "TimeLastPacketSent")
           r == format_handshake_initiation(u, f, n)
<1>1. CASE is_in_progress(u) /\ ~f
  BY <1>1 DEF format_handshake_initiation, Ignored, Result, is_in_progress
<1>2. CASE ~(is_in_progress(u) /\ ~f)
  <2>1. r = Result(v, <<Init1(u)>>)
    BY <1>2 DEF format_handshake_initiation
  <2>2. c \in Tunnels(Peers) /\ SameCore(u, c)
    BY ClearFacts DEF SameCore
  <2>3. inc_index(c) \in Nat /\ inc_index(u) \in Nat /\ u.ephs \in Nat
    BY <2>2, IndexType DEF Tunnels
  <2>4. h \in Tunnels(Peers) /\ Started(u, h, n)
    <3> HIDE DEF c
    <3>1. InitSent(inc_index(u), u.ephs + 1, n) \in HandshakeStates
      BY <2>3 DEF HandshakeStates, InitSent
    <3>2. Formatted(c) \in Tunnels(Peers)
      BY <2>2, FormattedType
    <3>3. u.state \in HandshakeStates
      BY DEF Tunnels
    <3>4. h \in Tunnels(Peers)
      <4> DEFINE g == Formatted(c)
      <4> HIDE DEF g
      <4> QED
        BY <3>1, <3>2, <3>3 DEF Tunnels
    <3> QED
      BY <2>2, <3>4 DEF Tunnels, Formatted, SameCore, Started
  <2>5. s \in Tunnels(Peers) /\ SameCore(h, s)
    <3> HIDE DEF h
    <3> QED
      BY <2>4, TickFacts DEF TimerNames, SameCore
  <2>6. v \in Tunnels(Peers) /\ SameCore(s, v)
    <3> HIDE DEF s
    <3> QED
      BY <2>5, TickFacts DEF TimerNames
  <2> QED
    BY <2>1, <2>4, <2>5, <2>6 DEF Result, SameCore, Started
<1> QED
  BY <1>1, <1>2

(***************************************************************************)
(* What the effects of the methods keep.                                   *)
(***************************************************************************)
\* Nothing is added: sessions, outgoing handshakes and the queue may go.
Shrunk(u, v) ==
  /\ v.me = u.me /\ v.ephs = u.ephs
  /\ \A i \in Slots : v.sessions[i] \in {u.sessions[i], NoSession}
  /\ v.state = u.state \/ ~IsInitSent(v.state)
  /\ v.previous = u.previous \/ ~IsInitSent(v.previous)
  /\ v.queue = u.queue \/ v.queue = <<>>

\* A tunnel of the same fields lost nothing.
LEMMA SameIsShrunk ==
  ASSUME NEW u, NEW v, SameCore(u, v)
  PROVE  Shrunk(u, v)
  BY DEF SameCore, Shrunk

\* Sessions, handshakes or packets may be forgotten.
LEMMA ShrunkGood ==
  ASSUME NEW u \in Tunnels(Peers), NEW v \in Tunnels(Peers), NEW N, NEW d, NEW given, NEW sent,
         Shrunk(u, v), Good(u, N, d, given, sent)
  PROVE  Good(v, N, d, given, sent)
<1> USE DEF Good
<1>1. \A eph : Awaits(v, eph) => Awaits(u, eph)
  BY DEF Awaits, Shrunk
<1>2. \A key : Past(u, key) => Past(v, key)
  BY <1>1 DEF Past, Shrunk
<1>3. EphsDiffer(v, N) /\ NoncesCounted(v, N, sent)
  BY DEF EphsDiffer, NoncesCounted, Shrunk
<1>4. AwaitedWereSent(v, N)
  BY DEF AwaitedWereSent, Shrunk
<1>5. SessionsExchanged(v, N)
  BY <1>2 DEF SessionsExchanged, Shrunk
<1>6. NoncesUsed(v, N)
  BY <1>2 DEF NoncesUsed, Shrunk
<1>7. PacketsOnce(v, N, given)
  <2>1. CASE v.queue = u.queue
    BY <2>1 DEF PacketsOnce, Shrunk
  <2>2. CASE v.queue = <<>>
    BY <2>2 DEF PacketsOnce, Shrunk
  <2> QED
    BY <2>1, <2>2 DEF Shrunk
<1>8. \A m : Accepted(u, m) => Accepted(v, m)
  BY <1>2 DEF Accepted, Shrunk
<1>9. DeliveredWereSent(v, N, d)
  BY <1>8 DEF DeliveredWereSent
<1> QED
  BY <1>3, <1>4, <1>5, <1>6, <1>7, <1>9

\* What the other end sends disturbs nothing.
LEMMA OthersGood ==
  ASSUME NEW u \in Tunnels(Peers), NEW N, NEW d, NEW given, NEW sent,
         NEW m, m.from # u.me, Good(u, N, d, given, sent)
  PROVE  Good(u, N \union {m}, d, given, sent)
<1> USE DEF Good
<1>1. ~IsData(m, u.me) /\ ~IsHandshake(m, u.me)
  BY DEF IsData, IsHandshake
<1>2. EphsDiffer(u, N \union {m})
  BY <1>1 DEF EphsDiffer
<1>3. AwaitedWereSent(u, N \union {m})
  BY DEF AwaitedWereSent
<1>4. SessionsExchanged(u, N \union {m})
  BY DEF SessionsExchanged, Exchanged
<1>5. NoncesUsed(u, N \union {m}) /\ PacketsOnce(u, N \union {m}, given)
  BY <1>1 DEF NoncesUsed, PacketsOnce
<1>6. NoncesCounted(u, N \union {m}, sent)
  <2>1. {n \in N \union {m} : IsData(n, u.me)} = {n \in N : IsData(n, u.me)}
    BY <1>1
  <2> QED
    BY <2>1 DEF NoncesCounted, Nonces
<1>7. DeliveredWereSent(u, N \union {m}, d)
  BY DEF DeliveredWereSent
<1> QED
  BY <1>2, <1>3, <1>4, <1>5, <1>6, <1>7

\* A handshake message with a new ephemeral key is sent.
SentHandshake(u, v, m) ==
  /\ v.me = u.me /\ v.ephs = u.ephs + 1 /\ v.queue = u.queue
  /\ m \in Inits \union Resps /\ m.from = u.me /\ m.eph = v.ephs

\* A handshake message has a key of its own, and carries no packet.
LEMMA HandshakeFacts ==
  ASSUME NEW u \in Tunnels(Peers), NEW v \in Tunnels(Peers), NEW N \in SUBSET Datagrams,
         NEW given, NEW sent, NEW m, SentHandshake(u, v, m),
         EphsDiffer(u, N), NoncesCounted(u, N, sent), PacketsOnce(u, N, given)
  PROVE  /\ IsHandshake(m, u.me) /\ \A p : ~IsData(m, p)
         /\ EphsDiffer(v, N \union {m}) /\ NoncesCounted(v, N \union {m}, sent)
         /\ PacketsOnce(v, N \union {m}, given)
<1>1. IsHandshake(m, u.me) /\ \A p : ~IsData(m, p)
  BY DEF SentHandshake, IsHandshake, IsData, Inits, Resps
<1>2. u.ephs \in Nat
  BY DEF Tunnels
<1>3. \A n \in N : IsHandshake(n, u.me) => n.eph \in Nat
  BY DEF Datagrams, Inits, Resps, Datas, IsHandshake
<1>4. EphsDiffer(v, N \union {m})
  BY <1>1, <1>2, <1>3 DEF EphsDiffer, SentHandshake
<1>5. {n \in N \union {m} : IsData(n, u.me)} = {n \in N : IsData(n, u.me)}
  BY <1>1
<1>6. NoncesCounted(v, N \union {m}, sent)
  BY <1>5 DEF NoncesCounted, Nonces, SentHandshake
<1>7. PacketsOnce(v, N \union {m}, given)
  BY <1>1 DEF PacketsOnce, SentHandshake
<1> QED
  BY <1>1, <1>4, <1>6, <1>7

\* An initiation that is made has a key of its own, and awaits its answer.
LEMMA StartedGood ==
  ASSUME NEW u \in Tunnels(Peers), NEW v \in Tunnels(Peers), NEW N \in SUBSET Datagrams,
         NEW d, NEW given, NEW sent, NEW n, Started(u, v, n), Good(u, N, d, given, sent)
  PROVE  Init1(u) \in Inits /\ Good(v, N \union {Init1(u)}, d, given, sent)
<1> USE DEF Good
<1> DEFINE m == Init1(u)
<1>1. m \in Inits /\ m.from = u.me /\ m.eph = u.ephs + 1 /\ m.sender_idx = inc_index(u)
  <2>c. u.cookie \in BOOLEAN
    BY Zenon DEF Tunnels
  <2>i. inc_index(u) \in Nat
    BY IndexType
  <2>1. u.ephs + 1 \in Nat /\ u.me \in Peers
    BY DEF Tunnels
  <2>2. m \in Inits
    BY <2>c, <2>i, <2>1, Zenon DEF Init1, Inits, stamp
  <2> QED
    BY <2>2 DEF Init1
<1>2. u.ephs \in Nat /\ v.ephs = u.ephs + 1
  BY DEF Tunnels, Started
<1>3. m.type = "init"
  BY DEF Init1
<1> HIDE DEF m
<1>4. SentHandshake(u, v, m)
  BY <1>1 DEF SentHandshake, Started
<1>5. \A p : ~IsData(m, p)
  BY <1>4, HandshakeFacts
<1>6. EphsDiffer(v, N \union {m}) /\ NoncesCounted(v, N \union {m}, sent)
        /\ PacketsOnce(v, N \union {m}, given)
  BY <1>4, HandshakeFacts
<1>s. /\ v.state = [kind |-> "InitSent", local |-> inc_index(u), eph |-> u.ephs + 1,
                    time_sent |-> n]
      /\ v.previous = u.state /\ IsInitSent(v.state) /\ v.me = u.me /\ v.sessions = u.sessions
  BY DEF Started, InitSent, IsInitSent
<1>t. \A hs \in {u.state, u.previous} : IsInitSent(hs) => hs.eph \in Nat /\ hs.eph <= u.ephs
  <2>1. u.state \in HandshakeStates /\ u.previous \in HandshakeStates
    BY DEF Tunnels
  <2> QED
    BY <2>1, StateType DEF AwaitedWereSent
<1>7. AwaitedWereSent(v, N \union {m})
  BY <1>1, <1>2, <1>3, <1>s, <1>t DEF AwaitedWereSent
<1>8. \A key \in Keys(Peers) : Past(u, key) => Past(v, key)
  BY <1>2, <1>s, <1>t DEF Past, Awaits, Keys
<1>k. \A i \in Slots : u.sessions[i] # NoSession => u.sessions[i].key \in Keys(Peers)
  BY DEF Tunnels, Sessions
<1>l. \A w \in N : w.type = "data" => w.key \in Keys(Peers)
  BY DEF Datagrams, Inits, Resps, Datas
<1>9. SessionsExchanged(v, N \union {m})
  BY <1>8, <1>k, <1>s DEF SessionsExchanged, Exchanged
<1>10. NoncesUsed(v, N \union {m})
  BY <1>5, <1>8, <1>l, <1>s DEF NoncesUsed, IsData
<1>11. DeliveredWereSent(v, N \union {m}, d)
  BY <1>8, <1>l, <1>s DEF DeliveredWereSent, Accepted
<1> QED
  BY <1>1, <1>6, <1>7, <1>9, <1>10, <1>11 DEF m

\* A session is put in a slot, under a key that no handshake had yielded before.
Added(u, v, i, s) ==
  /\ v.me = u.me /\ v.sessions = [u.sessions EXCEPT ![i] = s]
  /\ s \in Sessions(Peers) /\ i = Slot(s.local) /\ s.counter = 0 /\ s.received = {}
  /\ ~Past(u, s.key) /\ Past(v, s.key)
  /\ \A key \in Keys(Peers) : Past(u, key) => Past(v, key)

\* A session of a key that nothing was sealed with takes a slot.
LEMMA AddedFacts ==
  ASSUME NEW u \in Tunnels(Peers), NEW v \in Tunnels(Peers), NEW N \in SUBSET Datagrams,
         NEW NN \in SUBSET Datagrams, NEW d, NEW i \in Slots, NEW s, Added(u, v, i, s),
         N \subseteq NN, \A m \in NN : IsData(m, u.me) => m \in N,
         SessionsExchanged(u, N), NoncesUsed(u, N), DeliveredWereSent(u, N, d),
         Exchanged(u.me, s, NN)
  PROVE  SessionsExchanged(v, NN) /\ NoncesUsed(v, NN) /\ DeliveredWereSent(v, NN, d)
<1>k. \A j \in Slots : u.sessions[j] # NoSession => u.sessions[j].key \in Keys(Peers)
  BY DEF Tunnels, Sessions
<1>l. \A m \in NN : m.type = "data" => m.key \in Keys(Peers)
  BY DEF Datagrams, Inits, Resps, Datas
<1>s. /\ v.sessions[i] = s /\ v.me = u.me
      /\ \A j \in Slots : j # i => v.sessions[j] = u.sessions[j]
  BY DEF Added, Tunnels
<1>1. \A p, x : Exchanged(p, x, N) => Exchanged(p, x, NN)
  BY DEF Exchanged
<1>2. SessionsExchanged(v, NN)
  BY <1>k, <1>s, <1>1 DEF Added, SessionsExchanged
<1>3. NoncesUsed(v, NN)
  BY <1>k, <1>l, <1>s DEF Added, NoncesUsed, IsData
<1>4. \A m \in NN : Accepted(u, m) => Accepted(v, m)
  BY <1>l, <1>s DEF Accepted, Added
<1>5. DeliveredWereSent(v, NN, d)
  BY <1>4 DEF DeliveredWereSent
<1> QED
  BY <1>2, <1>3, <1>5

\* An initiation is answered.
Responded(u, v, m) ==
  LET index == inc_index(u)
      key == [initiator |-> m.from, init |-> m.eph, resp |-> u.ephs + 1]
  IN  /\ v.me = u.me /\ v.ephs = u.ephs + 1 /\ v.queue = u.queue
      /\ v.state = None /\ v.previous = u.state
      /\ v.sessions = [u.sessions EXCEPT ![Slot(index)] = Session(index, m.sender_idx, key)]

\* A response that is made yields a session of a new key.
LEMMA RespondedGood ==
  ASSUME NEW u \in Tunnels(Peers), NEW v \in Tunnels(Peers), NEW N \in SUBSET Datagrams,
         NEW d, NEW given, NEW sent, NEW m \in N, m \in Inits, m.from # u.me,
         Responded(u, v, m), Good(u, N, d, given, sent)
  PROVE  Resp2(u, m) \in Resps /\ Good(v, N \union {Resp2(u, m)}, d, given, sent)
<1> USE DEF Good
<1> DEFINE n == Resp2(u, m)
           NN == N \union {n}
           index == inc_index(u)
           key == [initiator |-> m.from, init |-> m.eph, resp |-> u.ephs + 1]
           s == Session(index, m.sender_idx, key)
<1>i. index \in Nat
  BY IndexType
<1>e. u.ephs \in Nat /\ u.ephs + 1 \in Nat /\ u.me \in Peers
  BY DEF Tunnels
<1>m. m.from \in Peers /\ m.eph \in Nat /\ m.sender_idx \in Nat /\ m.type = "init"
  BY DEF Inits
<1>1. n \in Resps
  <2>1. u.cookie \in BOOLEAN
    BY Zenon DEF Tunnels
  <2> QED
    BY <1>i, <1>e, <1>m, <2>1, Zenon DEF Resp2, Resps
<1>2. /\ n.type = "resp" /\ n.from = u.me /\ n.eph = u.ephs + 1 /\ n.sender_idx = index
  BY DEF Resp2
<1>3. key \in Keys(Peers) /\ key.initiator = m.from /\ key.init = m.eph /\ key.resp = u.ephs + 1
  BY <1>e, <1>m DEF Keys
<1>4. /\ s \in Sessions(Peers) /\ s.key = key /\ s.local = index /\ s.peer = m.sender_idx
      /\ s.counter = 0 /\ s.received = {}
  <2> HIDE DEF key, index
  <2>1. {} \in {S \in SUBSET Nat : IsFiniteSet(S)}
    BY FS_EmptySet
  <2> QED
    BY <1>3, <1>i, <1>m, <2>1 DEF Session, Sessions
<1>v. /\ v.me = u.me /\ v.ephs = u.ephs + 1 /\ v.queue = u.queue
      /\ v.state = None /\ v.previous = u.state
      /\ v.sessions = [u.sessions EXCEPT ![Slot(index)] = s]
  BY DEF Responded
<1> HIDE DEF n, index, key, s
<1>5. SentHandshake(u, v, n)
  BY <1>1, <1>2, <1>v DEF SentHandshake
<1>6. EphsDiffer(v, NN) /\ NoncesCounted(v, NN, sent) /\ PacketsOnce(v, NN, given)
        /\ \A p : ~IsData(n, p)
  BY <1>5, HandshakeFacts
<1>7. ~IsInitSent(None)
  BY DEF IsInitSent, None
<1>8. AwaitedWereSent(v, NN)
  <2>1. u.state \in HandshakeStates
    BY DEF Tunnels
  <2> QED
    BY <2>1, <1>v, <1>7, <1>e, StateType DEF AwaitedWereSent
<1>9. \A eph : Awaits(v, eph) => Awaits(u, eph)
  BY <1>v, <1>7 DEF Awaits
<1>10. Added(u, v, Slot(index), s)
  <2>1. ~Past(u, s.key) /\ Past(v, s.key)
    BY <1>3, <1>4, <1>e, <1>v DEF Past
  <2>2. \A k \in Keys(Peers) : Past(u, k) => Past(v, k)
    BY <1>9, <1>e, <1>v DEF Past, Keys
  <2> QED
    BY <2>1, <2>2, <1>v, <1>4 DEF Added
<1>11. Exchanged(u.me, s, NN)
  BY <1>2, <1>3, <1>4, <1>m DEF Exchanged
<1>12. SessionsExchanged(v, NN) /\ NoncesUsed(v, NN) /\ DeliveredWereSent(v, NN, d)
  <2>1. Slot(index) \in Slots
    BY <1>i, SlotType
  <2>2. NN \in SUBSET Datagrams
    BY <1>1 DEF Datagrams
  <2>3. \A w \in NN : IsData(w, u.me) => w \in N
    BY <1>6
  <2> QED
    BY <2>1, <2>2, <2>3, <1>10, <1>11, AddedFacts
<1> QED
  BY <1>1, <1>6, <1>8, <1>12 DEF n

\* An answer is consumed: the handshake is over, and its session in its slot.
Answered(u, v, which, m) ==
  LET key == [initiator |-> u.me, init |-> m.to, resp |-> m.eph]
  IN  /\ which \in {"state", "previous"}
      /\ IsInitSent(u[which]) /\ u[which].local = m.receiver_idx /\ u[which].eph = m.to
      /\ v.me = u.me /\ v.ephs = u.ephs /\ v.queue = u.queue
      /\ v.state = IF which = "state" THEN None ELSE u.state
      /\ v.previous = IF which = "previous" THEN None ELSE u.previous
      /\ v.sessions = [u.sessions EXCEPT ![Slot(m.receiver_idx)] =
                         Session(m.receiver_idx, m.sender_idx, key)]

\* A response that is accepted ends its handshake: its key yields no other session.
LEMMA AnsweredGood ==
  ASSUME NEW u \in Tunnels(Peers), NEW v \in Tunnels(Peers), NEW N \in SUBSET Datagrams,
         NEW d, NEW given, NEW sent, NEW m \in N, m \in Resps, m.from # u.me,
         NEW which, Answered(u, v, which, m), Good(u, N, d, given, sent)
  PROVE  Good(v, N, d, given, sent)
<1> USE DEF Good
<1> DEFINE key == [initiator |-> u.me, init |-> m.to, resp |-> m.eph]
           s == Session(m.receiver_idx, m.sender_idx, key)
<1>m. /\ m.eph \in Nat /\ m.sender_idx \in Nat /\ m.receiver_idx \in Nat /\ m.to \in Nat
      /\ m.type = "resp" /\ m.from \in Peers
  BY DEF Resps
<1>e. u.ephs \in Nat /\ u.me \in Peers
  BY DEF Tunnels
<1>3. key \in Keys(Peers) /\ key.initiator = u.me /\ key.init = m.to /\ key.resp = m.eph
  BY <1>e, <1>m DEF Keys
<1>4. /\ s \in Sessions(Peers) /\ s.key = key /\ s.local = m.receiver_idx
      /\ s.peer = m.sender_idx /\ s.counter = 0 /\ s.received = {}
  <2> HIDE DEF key
  <2>1. {} \in {S \in SUBSET Nat : IsFiniteSet(S)}
    BY FS_EmptySet
  <2> QED
    BY <1>3, <1>m, <2>1 DEF Session, Sessions
<1>v. /\ v.me = u.me /\ v.ephs = u.ephs /\ v.queue = u.queue
      /\ v.sessions = [u.sessions EXCEPT ![Slot(m.receiver_idx)] = s]
  BY DEF Answered
<1> HIDE DEF key, s
<1>h. PICK hs \in {u.state, u.previous} :
        IsInitSent(hs) /\ hs.local = m.receiver_idx /\ hs.eph = m.to
  BY DEF Answered
<1>n. ~IsInitSent(None)
  BY DEF IsInitSent, None
<1>6. AwaitedWereSent(v, N)
  BY <1>v, <1>n DEF Answered, AwaitedWereSent
<1>7. EphsDiffer(v, N) /\ NoncesCounted(v, N, sent) /\ PacketsOnce(v, N, given)
  BY <1>v DEF EphsDiffer, NoncesCounted, PacketsOnce
<1>8. \A eph : Awaits(v, eph) => Awaits(u, eph)
  BY <1>n DEF Awaits, Answered
<1>9. ~Awaits(v, m.to)
  BY <1>n DEF Awaits, Answered, AwaitedWereSent
<1>10. Added(u, v, Slot(m.receiver_idx), s)
  <2>1. Awaits(u, m.to) /\ m.to <= u.ephs
    BY <1>h DEF Awaits, AwaitedWereSent
  <2>2. ~Past(u, s.key) /\ Past(v, s.key)
    BY <2>1, <1>3, <1>4, <1>9, <1>v DEF Past
  <2>3. \A k \in Keys(Peers) : Past(u, k) => Past(v, k)
    BY <1>8, <1>v DEF Past
  <2> QED
    BY <2>2, <2>3, <1>v, <1>4 DEF Added
<1>11. Exchanged(u.me, s, N)
  BY <1>h, <1>3, <1>4, <1>m DEF Exchanged, AwaitedWereSent
<1>12. SessionsExchanged(v, N) /\ NoncesUsed(v, N) /\ DeliveredWereSent(v, N, d)
  <2>1. Slot(m.receiver_idx) \in Slots
    BY <1>m, SlotType
  <2> QED
    BY <2>1, <1>10, <1>11, AddedFacts
<1> QED
  BY <1>6, <1>7, <1>12

\* No two sessions of a tunnel have one key.
LEMMA UniqueKey ==
  ASSUME NEW u \in Tunnels(Peers), NEW N \in SUBSET Datagrams,
         EphsDiffer(u, N), SessionsExchanged(u, N),
         NEW i \in Slots, NEW j \in Slots,
         u.sessions[i] # NoSession, u.sessions[j] # NoSession,
         u.sessions[i].key = u.sessions[j].key
  PROVE  i = j
<1>1. \A k \in {i, j} : u.sessions[k].local \in Nat /\ Slot(u.sessions[k].local) = k
  BY DEF Tunnels, Sessions, SessionsExchanged
<1>2. Exchanged(u.me, u.sessions[i], N) /\ Exchanged(u.me, u.sessions[j], N)
  BY DEF SessionsExchanged
<1>3. u.sessions[i].local = u.sessions[j].local
  BY <1>2 DEF Exchanged, EphsDiffer, IsHandshake
<1> QED
  BY <1>1, <1>3

\* A packet that may be sealed: it is empty, or it is of the interface, in no datagram
\* and not in the queue.
Fresh(u, N, given, packet) ==
  /\ packet \in Nat /\ packet <= given
  /\ packet # Keepalive =>
       /\ \A m \in N : IsData(m, u.me) => m.packet # packet
       /\ \A i \in 1..Len(u.queue) : u.queue[i] # packet

\* A session seals a packet.
SealedBy(u, v, slot) ==
  /\ v.me = u.me /\ v.ephs = u.ephs /\ v.state = u.state /\ v.previous = u.previous
  /\ v.queue = u.queue
  /\ v.sessions = [u.sessions EXCEPT ![slot].counter = @ + 1]

\* A packet that is sealed takes a new counter of its session.
LEMMA SealedGood ==
  ASSUME NEW u \in Tunnels(Peers), NEW v \in Tunnels(Peers), NEW N \in SUBSET Datagrams,
         NEW d, NEW given \in Nat, NEW sent \in Nat, NEW slot \in Slots, NEW packet,
         u.sessions[slot] # NoSession, SealedBy(u, v, slot), Fresh(u, N, given, packet),
         Good(u, N, d, given, sent)
  PROVE  /\ Data(u, slot, packet) \in Datas
         /\ Good(v, N \union {Data(u, slot, packet)}, d, given, sent + 1)
<1> USE DEF Good
<1> DEFINE m == Data(u, slot, packet)
           NN == N \union {m}
           s == u.sessions[slot]
<1>s. s \in Sessions(Peers) /\ s.counter \in Nat /\ s.key \in Keys(Peers) /\ u.me \in Peers
  BY DEF Tunnels, Sessions
<1>1. m \in Datas
  BY <1>s DEF Data, Datas, Sessions, Fresh
<1>2. /\ m.type = "data" /\ m.from = u.me /\ m.key = s.key /\ m.counter = s.counter
      /\ m.packet = packet
  BY DEF Data
<1>v. /\ v.sessions[slot] # NoSession
      /\ v.sessions[slot].key = s.key /\ v.sessions[slot].local = s.local
      /\ v.sessions[slot].peer = s.peer /\ v.sessions[slot].received = s.received
      /\ v.sessions[slot].counter = s.counter + 1
      /\ \A j \in Slots : j # slot => v.sessions[j] = u.sessions[j]
  <2>1. v.sessions[slot] = [s EXCEPT !.counter = @ + 1]
    BY DEF SealedBy, Tunnels
  <2>2. NoSession \notin Sessions(Peers)
    BY DEF NoSession, Sessions
  <2>3. [s EXCEPT !.counter = @ + 1] \in Sessions(Peers)
    BY <1>s DEF Sessions
  <2>4. \A j \in Slots : j # slot => v.sessions[j] = u.sessions[j]
    BY DEF SealedBy, Tunnels
  <2> QED
    BY <1>s, <2>1, <2>2, <2>3, <2>4 DEF Sessions
<1> HIDE DEF m, s
<1>3. ~IsHandshake(m, v.me) /\ \A w : w \in N => w \in NN
  BY <1>2 DEF IsHandshake
<1>4. EphsDiffer(v, NN) /\ AwaitedWereSent(v, NN)
  BY <1>3 DEF EphsDiffer, AwaitedWereSent, SealedBy
<1>5. \A key : Past(u, key) <=> Past(v, key)
  BY DEF Past, Awaits, SealedBy
<1>6. SessionsExchanged(v, NN)
  <2> SUFFICES ASSUME NEW j \in Slots, v.sessions[j] # NoSession
               PROVE  /\ Slot(v.sessions[j].local) = j
                      /\ Past(v, v.sessions[j].key)
                      /\ Exchanged(v.me, v.sessions[j], NN)
    BY DEF SessionsExchanged
  <2>1. /\ u.sessions[j] # NoSession /\ v.sessions[j].local = u.sessions[j].local
        /\ v.sessions[j].key = u.sessions[j].key /\ v.sessions[j].peer = u.sessions[j].peer
    BY <1>v DEF s
  <2>2. Exchanged(u.me, u.sessions[j], NN)
    BY <2>1 DEF SessionsExchanged, Exchanged
  <2> QED
    BY <2>1, <2>2, <1>5 DEF SessionsExchanged, Exchanged, SealedBy
<1>7. NoncesUsed(v, NN)
  <2> SUFFICES ASSUME NEW w \in NN, IsData(w, u.me)
               PROVE  /\ Past(v, w.key)
                      /\ \A j \in Slots : v.sessions[j] # NoSession /\ v.sessions[j].key = w.key
                           => w.counter < v.sessions[j].counter
    BY DEF NoncesUsed, SealedBy
  <2>1. Past(v, w.key)
    BY <1>2, <1>5 DEF NoncesUsed, SessionsExchanged, s
  <2>2. \A j \in Slots : v.sessions[j] # NoSession /\ v.sessions[j].key = w.key
          => w.counter < v.sessions[j].counter
    <3> SUFFICES ASSUME NEW j \in Slots, v.sessions[j] # NoSession, v.sessions[j].key = w.key
                 PROVE  w.counter < v.sessions[j].counter
      OBVIOUS
    <3>1. u.sessions[j] # NoSession /\ u.sessions[j].key = w.key
      BY <1>v DEF s
    <3>2. w = m => j = slot
      BY <3>1, <1>2, UniqueKey DEF s
    <3>3. w # m => w.counter < u.sessions[j].counter /\ w.counter \in Nat
      BY <3>1 DEF NoncesUsed, Datagrams, Inits, Resps, Datas, IsData
    <3>4. u.sessions[j].counter \in Nat
      BY <3>1 DEF Tunnels, Sessions
    <3> QED
      BY <3>2, <3>3, <3>4, <1>2, <1>v, <1>s DEF s
  <2> QED
    BY <2>1, <2>2
<1>8. NoncesCounted(v, NN, sent + 1)
  <2>1. {n \in NN : IsData(n, u.me)} = {n \in N : IsData(n, u.me)} \union {m}
    BY <1>2 DEF IsData
  <2>2. Nonces(u.me, NN) = Nonces(u.me, N) \union {<<s.key, s.counter>>}
    BY <2>1, <1>2 DEF Nonces
  <2>3. <<s.key, s.counter>> \notin Nonces(u.me, N)
    <3>1. \A n \in N : IsData(n, u.me) /\ n.key = s.key => n.counter < s.counter
      BY DEF NoncesUsed, s
    <3>2. \A n \in N : IsData(n, u.me) => n.counter \in Nat
      BY DEF Datagrams, Inits, Resps, Datas, IsData
    <3> QED
      BY <3>1, <3>2, <1>s DEF Nonces
  <2>4. IsFiniteSet(Nonces(u.me, NN)) /\ Cardinality(Nonces(u.me, NN)) = sent + 1
    <3>1. IsFiniteSet(Nonces(u.me, N)) /\ Cardinality(Nonces(u.me, N)) = sent
      BY DEF NoncesCounted
    <3>2. /\ IsFiniteSet(Nonces(u.me, N) \union {<<s.key, s.counter>>})
          /\ Cardinality(Nonces(u.me, N) \union {<<s.key, s.counter>>}) = sent + 1
      BY <3>1, <2>3, FS_AddElement
    <3> QED
      BY <3>2, <2>2
  <2> QED
    BY <2>4 DEF NoncesCounted, SealedBy
<1>9. PacketsOnce(v, NN, given)
  BY <1>2 DEF PacketsOnce, Fresh, IsData, SealedBy
<1>10. \A w \in N : Accepted(u, w) => Accepted(v, w)
  BY <1>5, <1>v DEF Accepted, SealedBy, s
<1>11. DeliveredWereSent(v, NN, d)
  BY <1>10 DEF DeliveredWereSent
<1> QED
  BY <1>1, <1>4, <1>6, <1>7, <1>8, <1>9, <1>11 DEF m

\* No two data packets of one end hold the same packet of its interface.
DistinctPackets(N, p) ==
  \A m, n \in N : IsData(m, p) /\ IsData(n, p) /\ m.packet = n.packet
    => m = n \/ m.packet = Keepalive

\* A session opens a data packet and takes note of its counter.
OpenedBy(u, v, slot, m) ==
  /\ v.me = u.me /\ v.ephs = u.ephs /\ v.state = u.state /\ v.previous = u.previous
  /\ v.queue = u.queue
  /\ v.sessions = [u.sessions EXCEPT ![slot].received = @ \union {m.counter}]

\* A packet that is accepted was not accepted before.
LEMMA OpenedGood ==
  ASSUME NEW u \in Tunnels(Peers), NEW v \in Tunnels(Peers), NEW N \in SUBSET Datagrams,
         NEW d \in Seq(Nat), NEW given, NEW sent, NEW slot \in Slots, NEW m \in N, m \in Datas,
         Opens(u, u.sessions[slot], m), OpenedBy(u, v, slot, m),
         DistinctPackets(N, m.from), Good(u, N, d, given, sent)
  PROVE  /\ Good(v, N, d, given, sent)
         /\ m.packet # Keepalive => Good(v, N, Append(d, m.packet), given, sent)
<1> USE DEF Good
<1> DEFINE s == u.sessions[slot]
<1>m. m.type = "data" /\ m.from \in Peers /\ m.counter \in Nat /\ m.packet \in Nat
  BY DEF Datas
<1>o. s # NoSession /\ m.counter \notin s.received /\ s.key = m.key /\ m.from # u.me
  BY DEF Opens
<1>s. s \in Sessions(Peers)
  BY <1>o DEF Tunnels
<1>v. /\ v.sessions[slot] # NoSession
      /\ v.sessions[slot].key = s.key /\ v.sessions[slot].local = s.local
      /\ v.sessions[slot].peer = s.peer /\ v.sessions[slot].counter = s.counter
      /\ v.sessions[slot].received = s.received \union {m.counter}
      /\ \A j \in Slots : j # slot => v.sessions[j] = u.sessions[j]
  <2>1. v.sessions[slot] = [s EXCEPT !.received = @ \union {m.counter}]
    BY DEF OpenedBy, Tunnels
  <2>2. NoSession \notin Sessions(Peers)
    BY DEF NoSession, Sessions
  <2>3. s.received \union {m.counter} \in {S \in SUBSET Nat : IsFiniteSet(S)}
    <3>1. s.received \in SUBSET Nat /\ IsFiniteSet(s.received)
      BY <1>s DEF Sessions
    <3>2. IsFiniteSet(s.received \union {m.counter})
      BY <3>1, FS_AddElement
    <3>3. s.received \union {m.counter} \in SUBSET Nat
      BY <3>1, <1>m
    <3> QED
      BY <3>2, <3>3
  <2>4. [s EXCEPT !.received = @ \union {m.counter}] \in Sessions(Peers)
    BY <1>s, <2>3 DEF Sessions
  <2>5. \A j \in Slots : j # slot => v.sessions[j] = u.sessions[j]
    BY DEF OpenedBy, Tunnels
  <2> QED
    BY <1>s, <2>1, <2>2, <2>4, <2>5 DEF Sessions
<1> HIDE DEF s
<1>1. \A key : Past(u, key) <=> Past(v, key)
  BY DEF Past, Awaits, OpenedBy
<1>2. /\ EphsDiffer(v, N) /\ AwaitedWereSent(v, N) /\ NoncesCounted(v, N, sent)
      /\ PacketsOnce(v, N, given)
  BY DEF EphsDiffer, AwaitedWereSent, NoncesCounted, PacketsOnce, OpenedBy
<1>3. SessionsExchanged(v, N)
  <2> SUFFICES ASSUME NEW j \in Slots, v.sessions[j] # NoSession
               PROVE  /\ Slot(v.sessions[j].local) = j
                      /\ Past(v, v.sessions[j].key)
                      /\ Exchanged(v.me, v.sessions[j], N)
    BY DEF SessionsExchanged
  <2>1. /\ u.sessions[j] # NoSession /\ v.sessions[j].local = u.sessions[j].local
        /\ v.sessions[j].key = u.sessions[j].key /\ v.sessions[j].peer = u.sessions[j].peer
    BY <1>v, <1>o DEF s
  <2> QED
    BY <2>1, <1>1 DEF SessionsExchanged, Exchanged, OpenedBy
<1>4. NoncesUsed(v, N)
  BY <1>1, <1>v, <1>o DEF NoncesUsed, OpenedBy, s
<1>5. \A w \in N : Accepted(u, w) => Accepted(v, w)
  BY <1>1, <1>v, <1>o DEF Accepted, OpenedBy, s
<1>6. Good(v, N, d, given, sent)
  BY <1>2, <1>3, <1>4, <1>5 DEF DeliveredWereSent
<1>7. ASSUME m.packet # Keepalive PROVE Good(v, N, Append(d, m.packet), given, sent)
  <2>1. Accepted(v, m)
    <3>1. Past(v, m.key)
      BY <1>o, <1>1 DEF SessionsExchanged, s
    <3>2. \A i \in Slots : v.sessions[i] # NoSession /\ v.sessions[i].key = m.key => i = slot
      BY <1>v, <1>o, UniqueKey DEF s
    <3> QED
      BY <3>1, <3>2, <1>m, <1>o, <1>v DEF Accepted, OpenedBy
  <2>2. ASSUME NEW k \in 1..Len(d) PROVE d[k] # m.packet
    <3> SUFFICES ASSUME d[k] = m.packet PROVE FALSE
      OBVIOUS
    <3>1. PICK w \in N : Accepted(u, w) /\ w.packet = d[k]
      BY DEF DeliveredWereSent
    <3>2. w.from \in Peers /\ w.from # u.me /\ w.type = "data"
      BY <3>1 DEF Accepted, Datagrams, Inits, Resps, Datas
    <3>3. w.from = m.from
      <4>1. u.me \in Peers
        BY DEF Tunnels
      <4> QED
        BY <4>1, <3>2, <1>m, <1>o, PairAssumption DEF PairAssumption
    <3>4. w = m
      BY <3>1, <3>2, <3>3, <1>m, <1>7 DEF DistinctPackets, IsData
    <3> QED
      BY <3>1, <3>4, <1>o DEF Accepted, s
  <2>3. DeliveredWereSent(v, N, Append(d, m.packet))
    <3> DEFINE e == Append(d, m.packet)
    <3>1. /\ Len(e) = Len(d) + 1 /\ e[Len(d) + 1] = m.packet /\ Len(d) \in Nat
          /\ \A k \in 1..Len(d) : e[k] = d[k]
      BY <1>m
    <3> HIDE DEF e
    <3>2. \A k \in 1..Len(e) : k \in 1..Len(d) \/ k = Len(d) + 1
      BY <3>1
    <3>3. \A k \in 1..Len(e) : e[k] # Keepalive /\ \E w \in N : Accepted(v, w) /\ w.packet = e[k]
      BY <3>1, <3>2, <2>1, <1>5, <1>7 DEF DeliveredWereSent
    <3>4. \A k, l \in 1..Len(e) : e[k] = e[l] => k = l
      BY <3>1, <3>2, <2>2 DEF DeliveredWereSent
    <3> QED
      BY <3>3, <3>4 DEF DeliveredWereSent, e
  <2> QED
    BY <2>3, <1>2, <1>3, <1>4
<1> QED
  BY <1>6, <1>7

\* queue_packet yields a tunnel.
LEMMA QueueType ==
  ASSUME NEW u \in Tunnels(Peers), NEW packet \in Nat
  PROVE  queue_packet(u, packet) \in Tunnels(Peers)
<1> DEFINE q == Append(u.queue, packet)
<1>1. q \in Seq(Nat)
  BY DEF Tunnels
<1>2. queue_packet(u, packet) \in {u, [u EXCEPT !.queue = q]}
  BY DEF queue_packet
<1> HIDE DEF q
<1>3. [u EXCEPT !.queue = q] \in Tunnels(Peers)
  BY <1>1 DEF Tunnels
<1> QED
  BY <1>2, <1>3

\* The queue takes one more packet, or gives its first one.
LEMMA QueuedGood ==
  ASSUME NEW u \in Tunnels(Peers), NEW N \in SUBSET Datagrams, NEW d, NEW given, NEW sent,
         NEW packet, Fresh(u, N, given, packet), Good(u, N, d, given, sent)
  PROVE  /\ queue_packet(u, packet) \in Tunnels(Peers)
         /\ Good(queue_packet(u, packet), N, d, given, sent)
<1> USE DEF Good
<1> DEFINE q == Append(u.queue, packet)
           v == [u EXCEPT !.queue = q]
<1>1. CASE ~(Len(u.queue) < MAX_QUEUE_DEPTH)
  BY <1>1 DEF queue_packet
<1>2. CASE Len(u.queue) < MAX_QUEUE_DEPTH
  <2>1. u.queue \in Seq(Nat) /\ packet \in Nat
    BY DEF Tunnels, Fresh
  <2>2. /\ q \in Seq(Nat) /\ Len(q) = Len(u.queue) + 1 /\ q[Len(u.queue) + 1] = packet
        /\ Len(u.queue) \in Nat /\ \A k \in 1..Len(u.queue) : q[k] = u.queue[k]
    BY <2>1
  <2>3. queue_packet(u, packet) = v
    BY <1>2 DEF queue_packet
  <2> HIDE DEF q
  <2>4. v \in Tunnels(Peers)
    BY <2>1, <2>3, QueueType
  <2>5. /\ v.me = u.me /\ v.ephs = u.ephs /\ v.sessions = u.sessions
        /\ v.state = u.state /\ v.previous = u.previous /\ v.queue = q
    BY DEF Tunnels
  <2> HIDE DEF v
  <2>6. \A k \in 1..Len(q) : k \in 1..Len(u.queue) \/ k = Len(u.queue) + 1
    BY <2>2
  <2>7. PacketsOnce(v, N, given)
    <3>1. \A i \in 1..Len(q) :
            /\ q[i] <= given
            /\ \A m \in N : IsData(m, u.me) /\ m.packet = q[i] => m.packet = Keepalive
      BY <2>2, <2>6 DEF PacketsOnce, Fresh
    <3>2. \A i, j \in 1..Len(q) : q[i] = q[j] => i = j \/ q[i] = Keepalive
      BY <2>2, <2>6 DEF PacketsOnce, Fresh
    <3> QED
      BY <3>1, <3>2, <2>5 DEF PacketsOnce
  <2>8. EphsDiffer(v, N) /\ AwaitedWereSent(v, N) /\ NoncesCounted(v, N, sent)
    BY <2>5 DEF EphsDiffer, AwaitedWereSent, NoncesCounted
  <2>9. SessionsExchanged(v, N) /\ NoncesUsed(v, N) /\ DeliveredWereSent(v, N, d)
    BY <2>5 DEF SessionsExchanged, NoncesUsed, DeliveredWereSent, Accepted, Past, Awaits
  <2> QED
    BY <2>3, <2>4, <2>7, <2>8, <2>9
<1> QED
  BY <1>1, <1>2

\* The first packet of the queue leaves it, to be sent once.
LEMMA DequeuedGood ==
  ASSUME NEW u \in Tunnels(Peers), NEW N \in SUBSET Datagrams, NEW d, NEW given, NEW sent,
         u.queue # <<>>, Good(u, N, d, given, sent)
  PROVE  LET v == [u EXCEPT !.queue = Tail(@)]
         IN  /\ v \in Tunnels(Peers) /\ v.me = u.me /\ Good(v, N, d, given, sent)
             /\ Fresh(v, N, given, Head(u.queue))
<1> USE DEF Good
<1> DEFINE q == Tail(u.queue)
           v == [u EXCEPT !.queue = q]
<1>1. u.queue \in Seq(Nat)
  BY DEF Tunnels
<1>2. /\ q \in Seq(Nat) /\ Len(u.queue) = Len(q) + 1 /\ Head(u.queue) = u.queue[1]
      /\ Len(q) \in Nat /\ \A k \in 1..Len(q) : q[k] = u.queue[k + 1]
      /\ u.queue[1] \in Nat
  BY <1>1
<1> HIDE DEF q
<1>3. v \in Tunnels(Peers)
  BY <1>2 DEF Tunnels
<1>4. /\ v.me = u.me /\ v.ephs = u.ephs /\ v.sessions = u.sessions
      /\ v.state = u.state /\ v.previous = u.previous /\ v.queue = q
  BY DEF Tunnels
<1> HIDE DEF v
<1>5. \A k \in 1..Len(q) : k + 1 \in 1..Len(u.queue) /\ k + 1 # 1
  BY <1>2
<1>6. PacketsOnce(v, N, given)
  <2>1. \A i \in 1..Len(q) :
          /\ q[i] <= given
          /\ \A m \in N : IsData(m, u.me) /\ m.packet = q[i] => m.packet = Keepalive
    BY <1>2, <1>5 DEF PacketsOnce
  <2>2. \A i, j \in 1..Len(q) : q[i] = q[j] => i = j \/ q[i] = Keepalive
    <3> SUFFICES ASSUME NEW i \in 1..Len(q), NEW j \in 1..Len(q), q[i] = q[j]
                 PROVE  i = j \/ q[i] = Keepalive
      OBVIOUS
    <3>1. u.queue[i + 1] = u.queue[j + 1]
      BY <1>2
    <3>2. i + 1 = j + 1 \/ u.queue[i + 1] = Keepalive
      BY <3>1, <1>5 DEF PacketsOnce
    <3> QED
      BY <3>2, <1>2, SMTT(30)
  <2> QED
    BY <2>1, <2>2, <1>4 DEF PacketsOnce
<1>7. EphsDiffer(v, N) /\ AwaitedWereSent(v, N) /\ NoncesCounted(v, N, sent)
  BY <1>4 DEF EphsDiffer, AwaitedWereSent, NoncesCounted
<1>8. SessionsExchanged(v, N) /\ NoncesUsed(v, N) /\ DeliveredWereSent(v, N, d)
  BY <1>4 DEF SessionsExchanged, NoncesUsed, DeliveredWereSent, Accepted, Past, Awaits
<1>9. Fresh(v, N, given, Head(u.queue))
  <2>1. 1 \in 1..Len(u.queue)
    BY <1>2
  <2>2. \A k \in 1..Len(q) : q[k] = u.queue[1] => q[k] = Keepalive
    BY <2>1, <1>2, <1>5 DEF PacketsOnce
  <2>3. /\ u.queue[1] <= given
        /\ \A m \in N : IsData(m, u.me) /\ m.packet = u.queue[1] => m.packet = Keepalive
    BY <2>1 DEF PacketsOnce
  <2> QED
    BY <2>2, <2>3, <1>2, <1>4 DEF Fresh
<1> QED
  BY <1>3, <1>4, <1>6, <1>7, <1>8, <1>9 DEF v, q

(***************************************************************************)
(* What each method keeps.                                                 *)
(***************************************************************************)
Kept(u, N, d, given, sent, r) ==
  /\ r.t \in Tunnels(Peers) /\ r.t.me = u.me
  /\ \/ r.out = <<>> /\ r.up = NoPacket /\ Good(r.t, N, d, given, sent)
     \/ r.out = <<>> /\ r.up \in Nat /\ Good(r.t, N, Append(d, r.up), given, sent)
     \/ \E m \in Datagrams :
          /\ m.from = u.me /\ r.out = <<m>> /\ r.up = NoPacket
          /\ Good(r.t, N \union {m}, d, given, IF m.type = "data" THEN sent + 1 ELSE sent)

\* A method that only forgets.
LEMMA ShrunkKept ==
  ASSUME NEW u \in Tunnels(Peers), NEW v \in Tunnels(Peers), NEW N, NEW d, NEW given, NEW sent,
         Shrunk(u, v), Good(u, N, d, given, sent)
  PROVE  Kept(u, N, d, given, sent, Ignored(v))
<1>1. Good(v, N, d, given, sent)
  BY ShrunkGood
<1>2. Ignored(v).t = v /\ Ignored(v).out = <<>> /\ Ignored(v).up = NoPacket
  BY DEF Ignored, Result
<1> QED
  BY <1>1, <1>2 DEF Kept, Shrunk

\* format_handshake_initiation (mod.rs:522).
LEMMA InitiationKept ==
  ASSUME NEW u \in Tunnels(Peers), NEW N \in SUBSET Datagrams, NEW d, NEW given, NEW sent,
         NEW f \in BOOLEAN, NEW n \in Nat, Good(u, N, d, given, sent)
  PROVE  Kept(u, N, d, given, sent, format_handshake_initiation(u, f, n))
<1> DEFINE r == format_handshake_initiation(u, f, n)
<1>1. /\ r.t \in Tunnels(Peers) /\ r.up = NoPacket
      /\ \/ r.out = <<>> /\ r.t = u
         \/ r.out = <<Init1(u)>> /\ Started(u, r.t, n)
  BY InitiationFacts
<1> SUFFICES Kept(u, N, d, given, sent, r)
  OBVIOUS
<1> HIDE DEF r
<1>2. CASE r.out = <<>> /\ r.t = u
  <2>1. Good(r.t, N, d, given, sent) /\ r.t.me = u.me /\ r.t \in Tunnels(Peers)
    BY <1>2
  <2> QED
    BY <2>1, <1>1, <1>2, Zenon DEF Kept
<1>3. CASE r.out = <<Init1(u)>> /\ Started(u, r.t, n)
  <2>1. Init1(u) \in Inits /\ Good(r.t, N \union {Init1(u)}, d, given, sent)
    BY <1>1, <1>3, StartedGood
  <2>2. Init1(u).type = "init" /\ Init1(u).from = u.me
    BY DEF Init1
  <2>3. Init1(u) \in Datagrams
    BY <2>1 DEF Datagrams
  <2>4. Good(r.t, N \union {Init1(u)}, d, given, IF Init1(u).type = "data" THEN sent + 1 ELSE sent)
    BY <2>1, <2>2
  <2>5. r.t.me = u.me
    BY <1>3 DEF Started
  <2> QED
    BY <1>1, <1>3, <2>2, <2>3, <2>4, <2>5, Zenon DEF Kept
<1> QED
  BY <1>1, <1>2, <1>3

\* format_packet_data takes one counter of one session.
LEMMA SealedFacts ==
  ASSUME NEW u \in Tunnels(Peers), NEW slot \in Slots, u.sessions[slot] # NoSession
  PROVE  /\ Sealed(u, slot) \in Tunnels(Peers) /\ SealedBy(u, Sealed(u, slot), slot)
         /\ Sealed(u, slot).current = u.current
<1>1. /\ u.sessions[slot] \in Sessions(Peers)
      /\ u.sessions \in [Slots -> Sessions(Peers) \union {NoSession}]
  BY DEF Tunnels
<1>2. [u.sessions[slot] EXCEPT !.counter = @ + 1] \in Sessions(Peers)
  BY <1>1 DEF Sessions
<1>3. [u.sessions EXCEPT ![slot].counter = @ + 1]
        = [u.sessions EXCEPT ![slot] = [u.sessions[slot] EXCEPT !.counter = @ + 1]]
  BY <1>1
<1>4. [u.sessions EXCEPT ![slot].counter = @ + 1] \in [Slots -> Sessions(Peers) \union {NoSession}]
  BY <1>1, <1>2, <1>3
<1>5. Sealed(u, slot) = [u EXCEPT !.sessions = [u.sessions EXCEPT ![slot].counter = @ + 1]]
  BY DEF Sealed, Tunnels
<1> QED
  BY <1>4, <1>5 DEF Tunnels, SealedBy

\* encapsulate of a packet that was not sent yet (mod.rs:347).
LEMMA EncapsulateKept ==
  ASSUME NEW u \in Tunnels(Peers), NEW N \in SUBSET Datagrams, NEW d, NEW given \in Nat,
         NEW sent \in Nat, NEW packet, NEW n \in Nat,
         Fresh(u, N, given, packet), Good(u, N, d, given, sent)
  PROVE  Kept(u, N, d, given, sent, encapsulate(u, packet, n))
<1>1. CASE HasSession(u)
  <2> DEFINE slot == Slot(u.current)
             e == Sealed(u, slot)
             s == timer_tick(e, "TimeLastPacketSent")
             v == IF packet = Keepalive THEN s ELSE timer_tick(s, "TimeLastDataPacketSent")
             m == Data(u, slot, packet)
             r == encapsulate(u, packet, n)
  <2>1. r = Result(v, <<m>>)
    BY <1>1 DEF encapsulate
  <2>2. slot \in Slots /\ u.sessions[slot] # NoSession
    BY <1>1, SlotType DEF HasSession, CurrentSession, Tunnels
  <2> HIDE DEF slot
  <2>3. e \in Tunnels(Peers) /\ SealedBy(u, e, slot)
    BY <2>2, SealedFacts
  <2> HIDE DEF e
  <2>4. s \in Tunnels(Peers) /\ SameCore(e, s)
    BY <2>3, TickFacts DEF TimerNames
  <2> HIDE DEF s
  <2>5. v \in Tunnels(Peers) /\ SameCore(s, v)
    BY <2>4, TickFacts DEF TimerNames, SameCore
  <2> HIDE DEF v
  <2>6. SealedBy(u, v, slot)
    BY <2>3, <2>4, <2>5 DEF SealedBy, SameCore
  <2>7. m \in Datas /\ Good(v, N \union {m}, d, given, sent + 1)
    BY <2>2, <2>5, <2>6, SealedGood
  <2>8. m.from = u.me /\ m.type = "data" /\ m \in Datagrams
    BY <2>7 DEF Data, Datagrams
  <2>9. r.t = v /\ r.out = <<m>> /\ r.up = NoPacket
    BY <2>1 DEF Result
  <2> HIDE DEF r, m
  <2> QED
    BY <2>5, <2>6, <2>7, <2>8, <2>9 DEF Kept, SealedBy, r
<1>2. CASE ~HasSession(u)
  <2> DEFINE q == queue_packet(u, packet)
             r == format_handshake_initiation(q, FALSE, n)
  <2>1. q \in Tunnels(Peers) /\ Good(q, N, d, given, sent)
    BY QueuedGood
  <2>2. q.me = u.me
    BY DEF queue_packet, Tunnels
  <2> HIDE DEF q
  <2>3. Kept(q, N, d, given, sent, r)
    BY <2>1, InitiationKept
  <2>4. r = encapsulate(u, packet, n)
    BY <1>2 DEF encapsulate, q
  <2> HIDE DEF r
  <2> QED
    BY <2>2, <2>3, <2>4 DEF Kept
<1> QED
  BY <1>1, <1>2

\* A repeated call of decapsulate (mod.rs:599).
LEMMA FlushKept ==
  ASSUME NEW u \in Tunnels(Peers), NEW N \in SUBSET Datagrams, NEW d, NEW given \in Nat,
         NEW sent \in Nat, NEW n \in Nat, Good(u, N, d, given, sent)
  PROVE  Kept(u, N, d, given, sent, send_queued_packet(u, n))
<1>1. CASE u.queue = <<>>
  <2>1. Shrunk(u, u)
    BY SameIsShrunk DEF SameCore
  <2>2. Kept(u, N, d, given, sent, Ignored(u))
    BY <2>1, ShrunkKept
  <2> QED
    BY <1>1, <2>2 DEF send_queued_packet
<1>2. CASE u.queue # <<>>
  <2> DEFINE v == [u EXCEPT !.queue = Tail(@)]
             r == encapsulate(v, Head(u.queue), n)
  <2>1. /\ v \in Tunnels(Peers) /\ v.me = u.me /\ Good(v, N, d, given, sent)
        /\ Fresh(v, N, given, Head(u.queue))
    BY <1>2, DequeuedGood
  <2>2. r = send_queued_packet(u, n)
    BY <1>2 DEF send_queued_packet
  <2> HIDE DEF v
  <2>3. Kept(v, N, d, given, sent, r)
    BY <2>1, EncapsulateKept
  <2> HIDE DEF r
  <2> QED
    BY <2>1, <2>2, <2>3 DEF Kept
<1> QED
  BY <1>1, <1>2

\* An initiation that was sent arrives, for the first time or again.
LEMMA HandleInitKept ==
  ASSUME NEW u \in Tunnels(Peers), NEW N \in SUBSET Datagrams, NEW d, NEW given, NEW sent,
         NEW m \in N, m \in Inits, m.from # u.me, Good(u, N, d, given, sent)
  PROVE  Kept(u, N, d, given, sent, handle_handshake_init(u, m))
<1>1. CASE ~after(m.timestamp, u.last_ts)
  <2>1. Shrunk(u, u)
    BY SameIsShrunk DEF SameCore
  <2> QED
    BY <1>1, <2>1, ShrunkKept DEF handle_handshake_init
<1>2. CASE after(m.timestamp, u.last_ts)
  <2> DEFINE index == inc_index(u)
             key == [initiator |-> m.from, init |-> m.eph, resp |-> u.ephs + 1]
             x == Session(index, m.sender_idx, key)
             f == Formatted(u)
             h == [f EXCEPT !.last_ts = m.timestamp, !.previous = u.state, !.state = None]
             s == [h EXCEPT !.sessions[Slot(index)] = x]
             a == timer_tick(s, "TimeLastPacketReceived")
             b == timer_tick(a, "TimeLastPacketSent")
             v == timer_tick_session_established(b, FALSE, index)
             r == handle_handshake_init(u, m)
  <2>1. r = Result(v, <<Resp2(u, m)>>)
    BY <1>2 DEF handle_handshake_init
  <2>2. index \in Nat /\ Slot(index) \in Slots
    BY IndexType, SlotType
  <2>3. m.timestamp \in Nat /\ None \in HandshakeStates /\ u.state \in HandshakeStates
        /\ m.from \in Peers /\ m.eph \in Nat /\ m.sender_idx \in Nat /\ u.ephs \in Nat
    BY DEF Inits, HandshakeStates, Tunnels
  <2>4. x \in Sessions(Peers)
    <3>1. key \in Keys(Peers)
      BY <2>3 DEF Keys
    <3> HIDE DEF key, index
    <3>2. {} \in {S \in SUBSET Nat : IsFiniteSet(S)}
      BY FS_EmptySet
    <3> QED
      BY <2>2, <2>3, <3>1, <3>2 DEF Session, Sessions
  <2>5. /\ f \in Tunnels(Peers) /\ f.me = u.me /\ f.ephs = u.ephs + 1 /\ f.queue = u.queue
        /\ f.sessions = u.sessions
    BY FormattedType DEF Formatted, Tunnels
  <2> HIDE DEF f, x, index
  <2>6. /\ h \in Tunnels(Peers) /\ h.me = u.me /\ h.ephs = u.ephs + 1 /\ h.queue = u.queue
        /\ h.sessions = u.sessions /\ h.state = None /\ h.previous = u.state
    BY <2>3, <2>5 DEF Tunnels
  <2> HIDE DEF h
  <2>7. /\ s \in Tunnels(Peers) /\ s.me = u.me /\ s.ephs = u.ephs + 1 /\ s.queue = u.queue
        /\ s.sessions = [u.sessions EXCEPT ![Slot(index)] = x]
        /\ s.state = None /\ s.previous = u.state
    <3>1. [h.sessions EXCEPT ![Slot(index)] = x] \in [Slots -> Sessions(Peers) \union {NoSession}]
      BY <2>2, <2>4, <2>6 DEF Tunnels
    <3> QED
      BY <2>6, <3>1 DEF Tunnels
  <2>8. Responded(u, s, m)
    BY <2>7 DEF Responded, index, x
  <2> HIDE DEF s
  <2>9. a \in Tunnels(Peers) /\ SameCore(s, a)
    BY <2>7, TickFacts DEF TimerNames
  <2> HIDE DEF a
  <2>10. b \in Tunnels(Peers) /\ SameCore(a, b)
    BY <2>9, TickFacts DEF TimerNames
  <2> HIDE DEF b
  <2>11. v \in Tunnels(Peers) /\ SameCore(b, v)
    BY <2>2, <2>10, EstablishedFacts
  <2> HIDE DEF v
  <2>12. Responded(u, v, m)
    BY <2>8, <2>9, <2>10, <2>11 DEF Responded, SameCore
  <2>13. Resp2(u, m) \in Resps /\ Good(v, N \union {Resp2(u, m)}, d, given, sent)
    BY <2>11, <2>12, RespondedGood
  <2>14. Resp2(u, m).from = u.me /\ Resp2(u, m).type = "resp" /\ Resp2(u, m) \in Datagrams
    BY <2>13 DEF Resp2, Datagrams
  <2>15. r.t = v /\ r.out = <<Resp2(u, m)>> /\ r.up = NoPacket
    BY <2>1 DEF Result
  <2> HIDE DEF r
  <2> QED
    BY <2>11, <2>12, <2>13, <2>14, <2>15 DEF Kept, Responded, r
<1> QED
  BY <1>1, <1>2

\* A response that was sent arrives, for the first time or again.
LEMMA HandleResponseKept ==
  ASSUME NEW u \in Tunnels(Peers), NEW N \in SUBSET Datagrams, NEW d, NEW given \in Nat,
         NEW sent \in Nat, NEW m \in N, m \in Resps, m.from # u.me,
         Good(u, N, d, given, sent)
  PROVE  Kept(u, N, d, given, sent, handle_handshake_response(u, m))
<1> DEFINE which == Awaited(u, m)
<1>1. CASE which = "none" \/ u[which].eph # m.to
  <2>1. Shrunk(u, u)
    BY SameIsShrunk DEF SameCore
  <2> QED
    BY <1>1, <2>1, ShrunkKept DEF handle_handshake_response
<1>2. CASE which # "none" /\ u[which].eph = m.to
  <2> DEFINE index == m.receiver_idx
             slot == Slot(index)
             key == [initiator |-> u.me, init |-> m.to, resp |-> m.eph]
             x == Session(index, m.sender_idx, key)
             c == Consumed(u, which)
             h == [c EXCEPT !.sessions[slot] = x]
             w == Sealed(h, slot)
             a == timer_tick(w, "TimeLastPacketReceived")
             e == timer_tick_session_established(a, TRUE, slot)
             v == set_current_session(e, index)
             k == Data(h, slot, Keepalive)
             r == handle_handshake_response(u, m)
  <2>1. r = Result(v, <<k>>)
    BY <1>2 DEF handle_handshake_response
  <2>2. /\ which \in {"state", "previous"} /\ IsInitSent(u[which])
        /\ u[which].local = m.receiver_idx
    BY <1>2 DEF Awaited
  <2> HIDE DEF which
  <2>3. index \in Nat /\ slot \in Slots /\ slot \in Nat /\ m.to \in Nat /\ m.eph \in Nat
          /\ m.sender_idx \in Nat /\ u.me \in Peers
    BY SlotType, SMTT(30) DEF Resps, Tunnels, Slots
  <2>4. x \in Sessions(Peers) /\ x # NoSession
    <3>1. key \in Keys(Peers)
      BY <2>3 DEF Keys
    <3> HIDE DEF key, index, slot
    <3>2. {} \in {S \in SUBSET Nat : IsFiniteSet(S)}
      BY FS_EmptySet
    <3>3. x \in Sessions(Peers)
      BY <2>3, <3>1, <3>2 DEF Session, Sessions
    <3> QED
      BY <3>3 DEF NoSession, Sessions
  <2>5. /\ c \in Tunnels(Peers) /\ c.me = u.me /\ c.ephs = u.ephs /\ c.queue = u.queue
        /\ c.sessions = u.sessions
        /\ c.state = IF which = "state" THEN None ELSE u.state
        /\ c.previous = IF which = "previous" THEN None ELSE u.previous
    <3>1. None \in HandshakeStates
      BY DEF HandshakeStates
    <3>2. CASE which = "state"
      BY <3>1, <3>2 DEF Consumed, Tunnels
    <3>3. CASE which = "previous"
      BY <3>1, <3>3 DEF Consumed, Tunnels
    <3> QED
      BY <2>2, <3>2, <3>3
  <2> HIDE DEF c, x, slot
  <2>6. /\ h \in Tunnels(Peers) /\ h.me = u.me /\ h.ephs = u.ephs /\ h.queue = u.queue
        /\ h.sessions = [u.sessions EXCEPT ![slot] = x] /\ h.sessions[slot] = x
        /\ h.state = c.state /\ h.previous = c.previous
    <3>1. [c.sessions EXCEPT ![slot] = x] \in [Slots -> Sessions(Peers) \union {NoSession}]
      BY <2>3, <2>4, <2>5 DEF Tunnels
    <3> QED
      BY <2>3, <2>5, <3>1 DEF Tunnels
  <2>7. Answered(u, h, which, m)
    BY <1>2, <2>2, <2>5, <2>6 DEF Answered, slot, x, which
  <2> HIDE DEF h
  <2>8. Good(h, N, d, given, sent)
    BY <2>6, <2>7, AnsweredGood
  <2>9. w \in Tunnels(Peers) /\ SealedBy(h, w, slot)
    BY <2>3, <2>4, <2>6, SealedFacts
  <2> HIDE DEF w
  <2>10. a \in Tunnels(Peers) /\ SameCore(w, a)
    BY <2>9, TickFacts DEF TimerNames
  <2> HIDE DEF a
  <2>11. e \in Tunnels(Peers) /\ SameCore(a, e)
    BY <2>3, <2>10, EstablishedFacts
  <2> HIDE DEF e
  <2>12. v \in Tunnels(Peers) /\ SameCore(e, v)
    BY <2>3, <2>11, CurrentFacts
  <2> HIDE DEF v
  <2>13. SealedBy(h, v, slot)
    BY <2>9, <2>10, <2>11, <2>12 DEF SealedBy, SameCore
  <2>14. Fresh(h, N, given, Keepalive)
    BY DEF Fresh, Keepalive
  <2>15. k \in Datas /\ Good(v, N \union {k}, d, given, sent + 1)
    BY <2>3, <2>4, <2>6, <2>8, <2>12, <2>13, <2>14, SealedGood
  <2>16. k.from = u.me /\ k.type = "data" /\ k \in Datagrams
    BY <2>6, <2>15 DEF Data, Datagrams
  <2>17. r.t = v /\ r.out = <<k>> /\ r.up = NoPacket
    BY <2>1 DEF Result
  <2>18. v.me = u.me
    BY <2>6, <2>13 DEF SealedBy
  <2> HIDE DEF r, k
  <2> QED
    BY <2>12, <2>15, <2>16, <2>17, <2>18 DEF Kept, r
<1> QED
  BY <1>1, <1>2

\* handle_data notes the counter of what it opens.
LEMMA DataFacts ==
  ASSUME NEW u \in Tunnels(Peers), NEW m \in Datas,
         Opens(u, u.sessions[Slot(m.receiver_idx)], m)
  PROVE  LET r == handle_data(u, m)
         IN  /\ r.t \in Tunnels(Peers) /\ OpenedBy(u, r.t, Slot(m.receiver_idx), m)
             /\ r.out = <<>> /\ r.up = IF m.packet = Keepalive THEN NoPacket ELSE m.packet
<1> DEFINE slot == Slot(m.receiver_idx)
           e == [u EXCEPT !.sessions[slot].received = @ \union {m.counter}]
           c == set_current_session(e, m.receiver_idx)
           v == timer_tick(c, "TimeLastPacketReceived")
           z == timer_tick(v, "TimeLastDataPacketReceived")
           r == handle_data(u, m)
<1>1. r = validate_decapsulated_packet(v, m.packet)
  BY DEF handle_data
<1>2. m.receiver_idx \in Nat /\ slot \in Slots /\ m.counter \in Nat /\ m.packet \in Nat
  BY SlotType DEF Datas
<1>3. u.sessions[slot] # NoSession
  BY DEF Opens
<1> HIDE DEF slot
<1>4. e \in Tunnels(Peers) /\ OpenedBy(u, e, slot, m)
  <2> DEFINE f == u.sessions[slot]
             g == [f EXCEPT !.received = @ \union {m.counter}]
             ss == [u.sessions EXCEPT ![slot] = g]
  <2>1. f \in Sessions(Peers) /\ u.sessions \in [Slots -> Sessions(Peers) \union {NoSession}]
    BY <1>2, <1>3 DEF Tunnels
  <2>2. f.received \union {m.counter} \in {S \in SUBSET Nat : IsFiniteSet(S)}
    BY <1>2, <2>1, FS_AddElement DEF Sessions
  <2>3. g \in Sessions(Peers)
    <3> HIDE DEF f
    <3> QED
      BY <2>1, <2>2 DEF Sessions
  <2>4. [u.sessions EXCEPT ![slot].received = @ \union {m.counter}] = ss
    BY <1>2, <2>1
  <2>5. ss \in [Slots -> Sessions(Peers) \union {NoSession}]
    <3> HIDE DEF g
    <3> QED
      BY <2>1, <2>3
  <2>6. e = [u EXCEPT !.sessions = ss]
    BY <2>4 DEF Tunnels
  <2> HIDE DEF ss, e
  <2> QED
    BY <2>4, <2>5, <2>6 DEF Tunnels, OpenedBy
<1> HIDE DEF e
<1>5. c \in Tunnels(Peers) /\ SameCore(e, c)
  BY <1>2, <1>4, CurrentFacts
<1> HIDE DEF c
<1>6. v \in Tunnels(Peers) /\ SameCore(c, v)
  BY <1>5, TickFacts DEF TimerNames
<1> HIDE DEF v
<1>7. z \in Tunnels(Peers) /\ SameCore(v, z)
  BY <1>6, TickFacts DEF TimerNames
<1>8. m.packet # Malformed
  BY <1>2 DEF Malformed
<1>9. /\ r.t = IF m.packet = Keepalive THEN v ELSE z
      /\ r.out = <<>> /\ r.up = IF m.packet = Keepalive THEN NoPacket ELSE m.packet
  BY <1>1, <1>8 DEF validate_decapsulated_packet, Ignored, Result
<1> HIDE DEF z, r
<1>10. OpenedBy(u, v, slot, m) /\ OpenedBy(u, z, slot, m)
  BY <1>4, <1>5, <1>6, <1>7 DEF OpenedBy, SameCore
<1> QED
  BY <1>6, <1>7, <1>9, <1>10 DEF r, slot

\* A packet that was sent arrives, for the first time or again.
LEMMA HandleDataKept ==
  ASSUME NEW u \in Tunnels(Peers), NEW N \in SUBSET Datagrams, NEW d \in Seq(Nat), NEW given,
         NEW sent, NEW m \in N, m \in Datas, DistinctPackets(N, m.from),
         Good(u, N, d, given, sent)
  PROVE  Kept(u, N, d, given, sent, handle_data(u, m))
<1> DEFINE slot == Slot(m.receiver_idx)
           r == handle_data(u, m)
<1>1. CASE ~Opens(u, u.sessions[slot], m)
  <2>1. Shrunk(u, u)
    BY SameIsShrunk DEF SameCore
  <2> QED
    BY <1>1, <2>1, ShrunkKept DEF handle_data
<1>2. CASE Opens(u, u.sessions[slot], m)
  <2>1. /\ r.t \in Tunnels(Peers) /\ OpenedBy(u, r.t, slot, m)
        /\ r.out = <<>> /\ r.up = IF m.packet = Keepalive THEN NoPacket ELSE m.packet
    BY <1>2, DataFacts
  <2>2. slot \in Slots /\ m.packet \in Nat
    BY SlotType DEF Datas
  <2> SUFFICES Kept(u, N, d, given, sent, r)
    OBVIOUS
  <2> HIDE DEF r, slot
  <2>3. /\ Good(r.t, N, d, given, sent)
        /\ m.packet # Keepalive => Good(r.t, N, Append(d, m.packet), given, sent)
    BY <1>2, <2>1, <2>2, OpenedGood
  <2>4. r.t.me = u.me
    BY <2>1 DEF OpenedBy
  <2> QED
    BY <2>1, <2>2, <2>3, <2>4 DEF Kept
<1> QED
  BY <1>1, <1>2

\* A datagram of the other end, whatever it is and whenever it comes.
LEMMA DecapsulateKept ==
  ASSUME NEW u \in Tunnels(Peers), NEW N \in SUBSET Datagrams, NEW d \in Seq(Nat),
         NEW given \in Nat, NEW sent \in Nat, NEW n \in Nat, NEW m \in N, m.from # u.me,
         DistinctPackets(N, m.from), Good(u, N, d, given, sent)
  PROVE  Kept(u, N, d, given, sent, decapsulate(u, m, n))
<1>1. m.type \in {"init", "resp", "data"}
  BY DEF Datagrams, Inits, Resps, Datas
<1>2. m # Repeat
  BY <1>1 DEF Repeat
<1>3. decapsulate(u, m, n) = handle_verified_packet(u, m)
  BY <1>2 DEF decapsulate
<1>4. CASE m \in Inits
  <2>1. decapsulate(u, m, n) = handle_handshake_init(u, m)
    BY <1>3, <1>4 DEF handle_verified_packet, Inits
  <2> QED
    BY <1>4, <2>1, HandleInitKept
<1>5. CASE m \in Resps
  <2>1. decapsulate(u, m, n) = handle_handshake_response(u, m)
    BY <1>3, <1>5 DEF handle_verified_packet, Resps
  <2> QED
    BY <1>5, <2>1, HandleResponseKept
<1>6. CASE m \in Datas
  <2>1. decapsulate(u, m, n) = handle_data(u, m)
    BY <1>3, <1>6 DEF handle_verified_packet, Datas
  <2> QED
    BY <1>6, <2>1, HandleDataKept
<1> QED
  BY <1>4, <1>5, <1>6 DEF Datagrams

\* The timers of an idle tunnel touch no field the invariant is about before they
\* start a handshake, seal a keepalive or do nothing.
LEMMA IdleFacts ==
  ASSUME NEW u \in Tunnels(Peers), NEW n \in Nat
  PROVE  \E v \in Tunnels(Peers) :
           /\ SameCore(u, v)
           /\ \/ idle_timers(u, n) = format_handshake_initiation(v, TRUE, n)
              \/ idle_timers(u, n) = encapsulate(v, Keepalive, n)
              \/ idle_timers(u, n) = Ignored(v)
<1> DEFINE silent == SilenceDue(u, n)
           rekey == RekeyDue(u, n) \/ (silent /\ u.want_handshake)
           quiet == KeepaliveDue(u, n)
           s == [u EXCEPT !.want_handshake = @ /\ ~silent]
           k == [s EXCEPT !.want_keepalive = @ /\ ~quiet]
           p == IF PersistentDue(u, n) THEN timer_tick(k, "TimePersistentKeepalive") ELSE k
<1>1. s \in Tunnels(Peers) /\ SameCore(u, s)
  <2> DEFINE b == u.want_handshake /\ ~silent
  <2>1. b \in BOOLEAN
    BY Zenon
  <2> HIDE DEF b
  <2>2. s = [u EXCEPT !.want_handshake = b]
    BY DEF b, Tunnels
  <2> HIDE DEF s
  <2> QED
    BY <2>1, <2>2 DEF Tunnels, SameCore, b
<1>2. k \in Tunnels(Peers) /\ SameCore(s, k)
  <2> HIDE DEF s
  <2>1. (s.want_keepalive /\ ~quiet) \in BOOLEAN
    BY Zenon
  <2> QED
    BY <1>1, <2>1 DEF Tunnels, SameCore
<1>3. p \in Tunnels(Peers) /\ SameCore(k, p)
  <2> HIDE DEF k
  <2> QED
    BY <1>2, TickFacts DEF TimerNames, SameCore
<1>4. \/ idle_timers(u, n) = format_handshake_initiation(s, TRUE, n)
      \/ idle_timers(u, n) = encapsulate(p, Keepalive, n)
      \/ idle_timers(u, n) = Ignored(p)
  BY DEF idle_timers
<1> HIDE DEF s, k, p
<1>5. SameCore(u, p)
  BY <1>1, <1>2, <1>3 DEF SameCore
<1> QED
  BY <1>1, <1>3, <1>4, <1>5

\* The branch of update_timers without a handshake in progress.
LEMMA IdleKept ==
  ASSUME NEW u \in Tunnels(Peers), NEW N \in SUBSET Datagrams, NEW d, NEW given \in Nat,
         NEW sent \in Nat, NEW n \in Nat, Good(u, N, d, given, sent)
  PROVE  Kept(u, N, d, given, sent, idle_timers(u, n))
<1>1. PICK v \in Tunnels(Peers) :
        /\ SameCore(u, v)
        /\ \/ idle_timers(u, n) = format_handshake_initiation(v, TRUE, n)
           \/ idle_timers(u, n) = encapsulate(v, Keepalive, n)
           \/ idle_timers(u, n) = Ignored(v)
  BY IdleFacts
<1>2. Shrunk(u, v) /\ Good(v, N, d, given, sent)
  BY <1>1, SameIsShrunk, ShrunkGood
<1>3. Fresh(v, N, given, Keepalive)
  BY DEF Fresh, Keepalive
<1>4. /\ Kept(v, N, d, given, sent, format_handshake_initiation(v, TRUE, n))
      /\ Kept(v, N, d, given, sent, encapsulate(v, Keepalive, n))
      /\ Kept(u, N, d, given, sent, Ignored(v))
  BY <1>2, <1>3, InitiationKept, EncapsulateKept, ShrunkKept
<1>5. v.me = u.me
  BY <1>1 DEF SameCore
<1>6. /\ Kept(u, N, d, given, sent, format_handshake_initiation(v, TRUE, n))
      /\ Kept(u, N, d, given, sent, encapsulate(v, Keepalive, n))
  BY <1>4, <1>5 DEF Kept
<1> QED
  BY <1>1, <1>4, <1>6

\* Sessions that are too old go, and the cookie.
Aged(u, v) == Shrunk(u, v) /\ v.state = u.state /\ v.queue = u.queue

\* Sessions that are too old are gone.
LEMMA AgedFacts ==
  ASSUME NEW u \in Tunnels(Peers), NEW n \in Nat
  PROVE  LET v == update_session_timers([u EXCEPT !.time.TimeCurrent = n], n)
         IN  v \in Tunnels(Peers) /\ Aged(u, v)
<1> DEFINE a == [u EXCEPT !.time.TimeCurrent = n]
           v == update_session_timers(a, n)
<1>1. a \in Tunnels(Peers) /\ SameCore(u, a)
  <2>1. [u.time EXCEPT !["TimeCurrent"] = n] \in [TimerNames -> Nat]
    BY DEF Tunnels
  <2> QED
    BY <2>1 DEF Tunnels, SameCore
<1> HIDE DEF a
<1>2. v \in Tunnels(Peers) /\ Aged(a, v)
  BY <1>1 DEF Tunnels, update_session_timers, Shrunk, Aged
<1> QED
  BY <1>1, <1>2 DEF SameCore, Shrunk, Aged, a

\* set_expired and clear_all forget everything.
LEMMA GiveUpFacts ==
  ASSUME NEW u \in Tunnels(Peers), NEW n \in Nat
  PROVE  give_up(u, n) \in Tunnels(Peers) /\ Shrunk(u, give_up(u, n))
<1> DEFINE a == [u EXCEPT !.previous = Expired, !.state = Expired]
           b == [a EXCEPT !.sessions = [i \in Slots |-> NoSession], !.queue = <<>>]
           v == clear(b, n)
<1>1. v = give_up(u, n)
  BY DEF give_up, clear_all
<1>2. Expired \in HandshakeStates /\ ~IsInitSent(Expired)
  BY DEF HandshakeStates, IsInitSent, Expired
<1>3. /\ a \in Tunnels(Peers) /\ a.me = u.me /\ a.ephs = u.ephs
      /\ a.state = Expired /\ a.previous = Expired
  BY <1>2 DEF Tunnels
<1> HIDE DEF a
<1>4. /\ b \in Tunnels(Peers) /\ b.me = u.me /\ b.ephs = u.ephs
      /\ b.state = Expired /\ b.previous = Expired
      /\ b.sessions = [i \in Slots |-> NoSession] /\ b.queue = <<>>
  <2> DEFINE e == [i \in Slots |-> NoSession]
  <2>1. e \in [Slots -> Sessions(Peers) \union {NoSession}] /\ <<>> \in Seq(Nat)
    OBVIOUS
  <2>2. b = [a EXCEPT !.sessions = e, !.queue = <<>>]
    OBVIOUS
  <2> HIDE DEF e, b
  <2>3. /\ b \in Tunnels(Peers) /\ b.me = u.me /\ b.ephs = u.ephs
        /\ b.state = Expired /\ b.previous = Expired
        /\ b.sessions = e /\ b.queue = <<>>
    BY <1>3, <2>1, <2>2 DEF Tunnels
  <2> QED
    BY <2>3 DEF e
<1> HIDE DEF b
<1>5. v \in Tunnels(Peers) /\ SameCore(b, v)
  BY <1>4, ClearFacts
<1> HIDE DEF v
<1>6. Shrunk(u, v)
  BY <1>2, <1>4, <1>5 DEF Shrunk, SameCore
<1> QED
  BY <1>1, <1>5, <1>6

\* What update_timers comes to.
LEMMA UpdateFacts ==
  ASSUME NEW u \in Tunnels(Peers), NEW n \in Nat
  PROVE  \E c \in Tunnels(Peers) :
           /\ Aged(u, c)
           /\ \/ update_timers(u, n) = Ignored(c)
              \/ update_timers(u, n) = Ignored(give_up(c, n))
              \/ update_timers(u, n) = idle_timers(c, n)
              \/ update_timers(u, n) = format_handshake_initiation(c, TRUE, n)
<1> DEFINE v == update_session_timers([u EXCEPT !.time.TimeCurrent = n], n)
           young == n - v.time.TimeCookieReceived < COOKIE_EXPIRATION_TIME
           c == [v EXCEPT !.cookie = @ /\ young]
<1>1. v \in Tunnels(Peers) /\ Aged(u, v)
  BY AgedFacts
<1>2. \/ update_timers(u, n) = Ignored(v)
      \/ update_timers(u, n) = Ignored(give_up(c, n))
      \/ update_timers(u, n) = idle_timers(c, n)
      \/ update_timers(u, n) = format_handshake_initiation(c, TRUE, n)
      \/ update_timers(u, n) = Ignored(c)
  BY DEF update_timers
<1> HIDE DEF v
<1>3. c \in Tunnels(Peers) /\ SameCore(v, c)
  <2> DEFINE b == v.cookie /\ young
  <2>1. b \in BOOLEAN
    BY Zenon
  <2> HIDE DEF b
  <2>2. c = [v EXCEPT !.cookie = b]
    BY <1>1 DEF b, Tunnels
  <2> HIDE DEF c
  <2> QED
    BY <1>1, <2>1, <2>2 DEF Tunnels, SameCore, b
<1> HIDE DEF c
<1>4. Aged(u, c)
  BY <1>1, <1>3 DEF SameCore, Shrunk, Aged
<1> QED
  BY <1>1, <1>2, <1>3, <1>4

\* update_timers (timers.rs:162).
LEMMA UpdateKept ==
  ASSUME NEW u \in Tunnels(Peers), NEW N \in SUBSET Datagrams, NEW d, NEW given \in Nat,
         NEW sent \in Nat, NEW n \in Nat, Good(u, N, d, given, sent)
  PROVE  Kept(u, N, d, given, sent, update_timers(u, n))
<1>1. PICK c \in Tunnels(Peers) :
        /\ Aged(u, c)
        /\ \/ update_timers(u, n) = Ignored(c)
           \/ update_timers(u, n) = Ignored(give_up(c, n))
           \/ update_timers(u, n) = idle_timers(c, n)
           \/ update_timers(u, n) = format_handshake_initiation(c, TRUE, n)
  BY UpdateFacts
<1>2. Shrunk(u, c) /\ c.me = u.me
  BY <1>1 DEF Aged, Shrunk
<1>3. Good(c, N, d, given, sent)
  BY <1>2, ShrunkGood
<1>4. /\ Kept(u, N, d, given, sent, Ignored(c))
      /\ Kept(c, N, d, given, sent, Ignored(give_up(c, n)))
      /\ Kept(c, N, d, given, sent, idle_timers(c, n))
      /\ Kept(c, N, d, given, sent, format_handshake_initiation(c, TRUE, n))
  BY <1>2, <1>3, GiveUpFacts, ShrunkKept, IdleKept, InitiationKept
<1>5. /\ Kept(u, N, d, given, sent, Ignored(give_up(c, n)))
      /\ Kept(u, N, d, given, sent, idle_timers(c, n))
      /\ Kept(u, N, d, given, sent, format_handshake_initiation(c, TRUE, n))
  BY <1>4, <1>2 DEF Kept
<1> QED
  BY <1>1, <1>4, <1>5

(***************************************************************************)
(* The invariant.                                                          *)
(***************************************************************************)

\* The number of data packets in what a method writes, and the datagrams of it.
LEMMA OutFacts ==
  /\ ToSet(<<>>) = {} /\ {i \in DOMAIN <<>> : <<>>[i].type = "data"} = {}
  /\ \A m : /\ ToSet(<<m>>) = {m}
            /\ {i \in DOMAIN <<m>> : <<m>>[i].type = "data"} = IF m.type = "data" THEN {1} ELSE {}
<1>1. ToSet(<<>>) = {} /\ {i \in DOMAIN <<>> : <<>>[i].type = "data"} = {}
  BY DEF ToSet
<1>2. ASSUME NEW m
      PROVE  /\ ToSet(<<m>>) = {m}
             /\ {i \in DOMAIN <<m>> : <<m>>[i].type = "data"} = IF m.type = "data" THEN {1} ELSE {}
  <2>1. DOMAIN <<m>> = {1} /\ <<m>>[1] = m
    OBVIOUS
  <2> QED
    BY <2>1 DEF ToSet
<1> QED
  BY <1>1, <1>2

\* A tunnel that is the same but for its clock and timers, and knows of more packets.
LEMMA MoreGiven ==
  ASSUME NEW u \in Tunnels(Peers), NEW N \in SUBSET Datagrams, NEW d, NEW given \in Nat,
         NEW sent, Good(u, N, d, given, sent)
  PROVE  Good(u, N, d, given + 1, sent) /\ Fresh(u, N, given + 1, given + 1)
<1>1. \A m \in N : IsData(m, u.me) => m.packet \in Nat
  BY DEF Datagrams, Inits, Resps, Datas, IsData
<1>2. \A i \in 1..Len(u.queue) : u.queue[i] \in Nat
  BY DEF Tunnels
<1>3. PacketsOnce(u, N, given + 1)
  BY <1>1, <1>2 DEF Good, PacketsOnce
<1>4. Fresh(u, N, given + 1, given + 1)
  BY <1>1, <1>2 DEF Good, PacketsOnce, Fresh
<1> QED
  BY <1>3, <1>4 DEF Good

\* A new tunnel of a peer that generated keys before and has sent datagrams.
LEMMA NewFacts ==
  ASSUME NEW u \in Tunnels(Peers), NEW N, NEW d, NEW given, NEW sent, NEW n \in Nat,
         Good(u, N, d, given, sent)
  PROVE  LET v == NewTunn(u.me, u.ephs, n)
         IN  v \in Tunnels(Peers) /\ v.me = u.me /\ Good(v, N, d, given, sent)
<1> DEFINE v == NewTunn(u.me, u.ephs, n)
<1>1. u.me \in Peers /\ u.ephs \in Nat /\ 0 \in Nat /\ <<>> \in Seq(Nat)
  BY DEF Tunnels
<1>2. None \in HandshakeStates /\ ~IsInitSent(None)
  BY DEF HandshakeStates, IsInitSent, None
<1>3. [i \in Slots |-> NoSession] \in [Slots -> Sessions(Peers) \union {NoSession}]
  OBVIOUS
<1>4. [i \in Slots |-> n] \in [Slots -> Nat] /\ [x \in TimerNames |-> n] \in [TimerNames -> Nat]
  OBVIOUS
<1>5. [index |-> 0, eph |-> 0] \in [index : Nat, eph : Nat] /\ FALSE \in BOOLEAN
  OBVIOUS
<1>6. v \in Tunnels(Peers)
  BY <1>1, <1>2, <1>3, <1>4, <1>5, Zenon DEF NewTunn, Tunnels, zero
<1>7. Shrunk(u, v)
  BY <1>2 DEF NewTunn, Shrunk
<1>8. v.me = u.me
  BY DEF NewTunn
<1> HIDE DEF v
<1>9. Good(v, N, d, given, sent)
  BY <1>6, <1>7, ShrunkGood
<1> QED
  BY <1>6, <1>8, <1>9 DEF v

\* The initial state satisfies the inductive invariant.
LEMMA InitIInv == Init => IInv
<1> SUFFICES ASSUME Init PROVE IInv
  OBVIOUS
<1> USE DEF Init
<1>1. None \in HandshakeStates /\ ~IsInitSent(None)
  BY DEF HandshakeStates, IsInitSent, None
<1>2. ASSUME NEW p \in Peers
      PROVE  /\ NewTunn(p, 0, 0) \in Tunnels(Peers) /\ NewTunn(p, 0, 0).me = p
             /\ Good(NewTunn(p, 0, 0), {}, <<>>, 0, 0)
  <2> DEFINE v == NewTunn(p, 0, 0)
  <2>1. [i \in Slots |-> NoSession] \in [Slots -> Sessions(Peers) \union {NoSession}]
    OBVIOUS
  <2>2. [i \in Slots |-> 0] \in [Slots -> Nat] /\ [x \in TimerNames |-> 0] \in [TimerNames -> Nat]
    OBVIOUS
  <2>3. [index |-> 0, eph |-> 0] \in [index : Nat, eph : Nat] /\ FALSE \in BOOLEAN
    OBVIOUS
  <2>4. 0 \in Nat /\ <<>> \in Seq(Nat)
    OBVIOUS
  <2>5. v \in Tunnels(Peers)
    BY <1>1, <2>1, <2>2, <2>3, <2>4, Zenon DEF NewTunn, Tunnels, zero
  <2>6. /\ v.me = p /\ v.state = None /\ v.previous = None /\ v.queue = <<>>
        /\ v.sessions = [i \in Slots |-> NoSession]
    BY DEF NewTunn
  <2> HIDE DEF v
  <2>7. /\ EphsDiffer(v, {}) /\ NoncesUsed(v, {}) /\ AwaitedWereSent(v, {})
        /\ SessionsExchanged(v, {}) /\ DeliveredWereSent(v, {}, <<>>) /\ PacketsOnce(v, {}, 0)
    BY <1>1, <2>6 DEF EphsDiffer, NoncesUsed, AwaitedWereSent, SessionsExchanged,
                      DeliveredWereSent, PacketsOnce
  <2>8. NoncesCounted(v, {}, 0)
    <3>1. Nonces(v.me, {}) = {}
      BY DEF Nonces
    <3> QED
      BY <3>1, FS_EmptySet DEF NoncesCounted
  <2> QED
    BY <2>5, <2>6, <2>7, <2>8 DEF Good, v
<1>3. TypeOK
  <2>1. tunn \in [Peers -> Tunnels(Peers)] /\ \A p \in Peers : tunn[p].me = p
    BY <1>2
  <2>2. /\ delivered \in [Peers -> Seq(Nat)] /\ net \in SUBSET Datagrams /\ now \in Nat
        /\ flushing \in [Peers -> Nat] /\ submitted \in [Peers -> Nat]
        /\ sealed \in [Peers -> Nat] /\ restarts \in [Peers -> Nat]
    OBVIOUS
  <2> QED
    BY <2>1, <2>2 DEF TypeOK
<1> QED
  BY <1>2, <1>3 DEF IInv

\* What a method keeps, the step of the peer that performs it keeps.
LEMMA PerformKeeps ==
  ASSUME IInv, NEW p \in Peers, NEW r, NEW given \in Nat,
         Kept(tunn[p], net, delivered[p], given, sealed[p], r), Perform(p, r),
         submitted' = [submitted EXCEPT ![p] = given],
         flushing' \in [Peers -> Nat], now' = now, restarts' = restarts
  PROVE  IInv'
<1> USE DEF IInv
<1>t. /\ tunn \in [Peers -> Tunnels(Peers)] /\ tunn[p].me = p /\ net \in SUBSET Datagrams
      /\ delivered \in [Peers -> Seq(Nat)] /\ sealed \in [Peers -> Nat]
      /\ submitted \in [Peers -> Nat]
  BY DEF TypeOK
<1>1. /\ tunn' = [tunn EXCEPT ![p] = r.t] /\ r.t \in Tunnels(Peers) /\ r.t.me = p
      /\ net' = net \union ToSet(r.out)
      /\ sealed' = [sealed EXCEPT ![p] =
                      @ + Cardinality({i \in DOMAIN r.out : r.out[i].type = "data"})]
      /\ delivered' = IF r.up = NoPacket THEN delivered
                      ELSE [delivered EXCEPT ![p] = Append(@, r.up)]
  BY <1>t DEF Perform, Kept
<1>2. /\ r.out = <<>> => ToSet(r.out) = {} /\ {i \in DOMAIN r.out : r.out[i].type = "data"} = {}
      /\ \A m : r.out = <<m>> =>
           /\ ToSet(r.out) = {m}
           /\ {i \in DOMAIN r.out : r.out[i].type = "data"} = IF m.type = "data" THEN {1} ELSE {}
  BY OutFacts
<1>3. Cardinality({}) = 0 /\ Cardinality({1}) = 1
  BY FS_EmptySet, FS_Singleton
<1>4. /\ tunn' \in [Peers -> Tunnels(Peers)] /\ \A q \in Peers : tunn'[q].me = q
      /\ submitted' \in [Peers -> Nat] /\ now' \in Nat /\ restarts' \in [Peers -> Nat]
  BY <1>1, <1>t DEF TypeOK
<1>5. /\ tunn'[p] = r.t /\ submitted'[p] = given
      /\ \A q \in Peers \ {p} :
           /\ tunn'[q] = tunn[q] /\ submitted'[q] = submitted[q] /\ sealed'[q] = sealed[q]
           /\ delivered'[q] = delivered[q]
           /\ Good(tunn[q], net, delivered[q], submitted[q], sealed[q])
  BY <1>1, <1>t
<1>6. CASE r.out = <<>>
  <2>1. net' = net /\ sealed' = sealed
    BY <1>1, <1>2, <1>3, <1>6, <1>t
  <2>2. CASE r.up = NoPacket /\ Good(r.t, net, delivered[p], given, sealed[p])
    <3>1. delivered' = delivered
      BY <1>1, <2>2
    <3>2. TypeOK'
      BY <1>4, <1>t, <2>1, <3>1 DEF TypeOK
    <3> QED
      BY <1>5, <2>1, <2>2, <3>1, <3>2
  <2>3. CASE r.up \in Nat /\ Good(r.t, net, Append(delivered[p], r.up), given, sealed[p])
    <3>1. r.up # NoPacket
      BY <2>3 DEF NoPacket
    <3>2. delivered' = [delivered EXCEPT ![p] = Append(@, r.up)]
      BY <1>1, <3>1
    <3>3. Append(delivered[p], r.up) \in Seq(Nat)
      BY <1>t, <2>3
    <3>4. delivered' \in [Peers -> Seq(Nat)] /\ delivered'[p] = Append(delivered[p], r.up)
      BY <1>t, <3>2, <3>3
    <3>5. TypeOK'
      BY <1>4, <1>t, <2>1, <3>4 DEF TypeOK
    <3> QED
      BY <1>5, <2>1, <2>3, <3>4, <3>5
  <2>4. r.out # <<>> => FALSE
    BY <1>6
  <2>5. \A m : <<m>> # <<>>
    OBVIOUS
  <2> QED
    BY <1>6, <2>2, <2>3, <2>5 DEF Kept
<1>7. ASSUME NEW m \in Datagrams, m.from = p, r.out = <<m>>, r.up = NoPacket,
             Good(r.t, net \union {m}, delivered[p], given,
                  IF m.type = "data" THEN sealed[p] + 1 ELSE sealed[p])
      PROVE  IInv'
  <2>1. net' = net \union {m} /\ delivered' = delivered
    BY <1>1, <1>2, <1>7
  <2>2. /\ sealed'[p] = IF m.type = "data" THEN sealed[p] + 1 ELSE sealed[p]
        /\ sealed' \in [Peers -> Nat]
    <3> DEFINE k == Cardinality({i \in DOMAIN r.out : r.out[i].type = "data"})
    <3>1. k = IF m.type = "data" THEN 1 ELSE 0
      BY <1>2, <1>3, <1>7
    <3>2. sealed' = [sealed EXCEPT ![p] = @ + k] /\ sealed[p] \in Nat
      BY <1>1, <1>t
    <3> HIDE DEF k
    <3> QED
      BY <1>t, <3>1, <3>2
  <2>3. TypeOK'
    BY <1>4, <1>t, <2>1, <2>2 DEF TypeOK
  <2>4. ASSUME NEW q \in Peers \ {p}
        PROVE  Good(tunn[q], net \union {m}, delivered[q], submitted[q], sealed[q])
    <3>1. tunn[q] \in Tunnels(Peers) /\ m.from # tunn[q].me
      BY <1>7, <1>t DEF TypeOK
    <3> QED
      BY <1>5, <3>1, OthersGood
  <2>5. Good(tunn'[p], net', delivered'[p], submitted'[p], sealed'[p])
    BY <1>5, <1>7, <2>1, <2>2
  <2>6. \A q \in Peers \ {p} :
          Good(tunn'[q], net', delivered'[q], submitted'[q], sealed'[q])
    BY <1>5, <2>1, <2>4
  <2> QED
    BY <2>3, <2>5, <2>6
<1> QED
  BY <1>6, <1>7, <1>t DEF Kept

\* Every step preserves the inductive invariant.
LEMMA NextIInv == IInv /\ [Next]_vars => IInv'
<1> SUFFICES ASSUME IInv, [Next]_vars PROVE IInv'
  OBVIOUS
<1> USE DEF IInv
<1>t. \A p \in Peers : /\ tunn[p] \in Tunnels(Peers) /\ tunn[p].me = p
                       /\ submitted[p] \in Nat /\ sealed[p] \in Nat /\ delivered[p] \in Seq(Nat)
                       /\ flushing[p] \in Nat
                       /\ Good(tunn[p], net, delivered[p], submitted[p], sealed[p])
  BY DEF TypeOK
<1>n. net \in SUBSET Datagrams /\ now \in Nat
  BY DEF TypeOK
<1>1. CASE Tick
  BY <1>1 DEF Tick, TypeOK
<1>2. ASSUME NEW p \in Peers, Encapsulate(p) PROVE IInv'
  <2> DEFINE given == submitted[p] + 1
             r == encapsulate(tunn[p], given, now)
  <2>1. given \in Nat /\ Good(tunn[p], net, delivered[p], given, sealed[p])
          /\ Fresh(tunn[p], net, given, given)
    <3>1. /\ tunn[p] \in Tunnels(Peers) /\ submitted[p] \in Nat
          /\ Good(tunn[p], net, delivered[p], submitted[p], sealed[p])
      BY <1>t
    <3>2. /\ Good(tunn[p], net, delivered[p], submitted[p] + 1, sealed[p])
          /\ Fresh(tunn[p], net, submitted[p] + 1, submitted[p] + 1)
      BY <3>1, <1>n, MoreGiven
    <3> QED
      BY <3>1, <3>2
  <2>2. Perform(p, r) /\ submitted' = [submitted EXCEPT ![p] = given]
          /\ UNCHANGED <<flushing, now, restarts>>
    BY <1>2 DEF Encapsulate, TypeOK
  <2> HIDE DEF given
  <2>3. Kept(tunn[p], net, delivered[p], given, sealed[p], r)
    BY <1>t, <1>n, <2>1, EncapsulateKept
  <2> HIDE DEF r
  <2> QED
    BY <2>1, <2>2, <2>3, PerformKeeps DEF TypeOK
<1>3. ASSUME NEW p \in Peers, NEW m \in net, Deliver(p, m) PROVE IInv'
  <2> DEFINE r == decapsulate(tunn[p], m, now)
  <2>1. /\ m.from # p /\ Perform(p, r) /\ UNCHANGED <<now, submitted, restarts>>
        /\ flushing' \in [Peers -> Nat]
    BY <1>3 DEF Deliver, TypeOK
  <2>2. m.from \in Peers
    BY <1>n DEF Datagrams, Inits, Resps, Datas
  <2>3. DistinctPackets(net, m.from)
    BY <1>t, <2>2 DEF Good, PacketsOnce, DistinctPackets
  <2>4. Kept(tunn[p], net, delivered[p], submitted[p], sealed[p], r)
    BY <1>t, <1>n, <2>1, <2>3, DecapsulateKept
  <2>5. submitted' = [submitted EXCEPT ![p] = submitted[p]]
    BY <2>1 DEF TypeOK
  <2> HIDE DEF r
  <2> QED
    BY <1>t, <2>1, <2>4, <2>5, PerformKeeps
<1>4. ASSUME NEW p \in Peers, FlushRound(p) PROVE IInv'
  <2> DEFINE r == decapsulate(tunn[p], Repeat, now)
  <2>1. /\ Perform(p, r) /\ UNCHANGED <<now, submitted, restarts>>
        /\ flushing' \in [Peers -> Nat]
    BY <1>4, <1>t DEF FlushRound, TypeOK
  <2>2. Kept(tunn[p], net, delivered[p], submitted[p], sealed[p], r)
    BY <1>t, <1>n, FlushKept DEF decapsulate
  <2>3. submitted' = [submitted EXCEPT ![p] = submitted[p]]
    BY <2>1 DEF TypeOK
  <2> HIDE DEF r
  <2> QED
    BY <1>t, <2>1, <2>2, <2>3, PerformKeeps
<1>5. ASSUME NEW p \in Peers, UpdateTimers(p) PROVE IInv'
  <2> DEFINE r == update_timers(tunn[p], now)
  <2>1. Perform(p, r) /\ UNCHANGED <<flushing, now, submitted, restarts>>
    BY <1>5 DEF UpdateTimers
  <2>2. Kept(tunn[p], net, delivered[p], submitted[p], sealed[p], r)
    BY <1>t, <1>n, UpdateKept
  <2>3. submitted' = [submitted EXCEPT ![p] = submitted[p]] /\ flushing' \in [Peers -> Nat]
    BY <2>1 DEF TypeOK
  <2> HIDE DEF r
  <2> QED
    BY <1>t, <2>1, <2>2, <2>3, PerformKeeps
<1>6. ASSUME NEW p \in Peers, Restart(p) PROVE IInv'
  <2> DEFINE v == NewTunn(p, tunn[p].ephs, now)
  <2>1. /\ tunn' = [tunn EXCEPT ![p] = v] /\ restarts' \in [Peers -> Nat]
        /\ UNCHANGED <<flushing, net, now, submitted, delivered, sealed>>
    BY <1>6 DEF Restart, TypeOK
  <2>2. v \in Tunnels(Peers) /\ v.me = p
          /\ Good(v, net, delivered[p], submitted[p], sealed[p])
    <3>1. /\ tunn[p] \in Tunnels(Peers) /\ tunn[p].me = p /\ now \in Nat
          /\ Good(tunn[p], net, delivered[p], submitted[p], sealed[p])
      BY <1>t, <1>n
    <3>2. LET w == NewTunn(tunn[p].me, tunn[p].ephs, now)
          IN  /\ w \in Tunnels(Peers) /\ w.me = tunn[p].me
              /\ Good(w, net, delivered[p], submitted[p], sealed[p])
      BY ONLY <3>1, NewFacts
    <3> QED
      BY ONLY <3>1, <3>2
  <2> HIDE DEF v
  <2>3. TypeOK'
    BY <2>1, <2>2 DEF TypeOK
  <2> QED
    BY <1>t, <2>1, <2>2, <2>3 DEF TypeOK
<1>7. CASE UNCHANGED vars
  BY <1>7 DEF vars, TypeOK
<1> QED
  BY <1>1, <1>2, <1>3, <1>4, <1>5, <1>6, <1>7 DEF Next

\* The inductive invariant of the two ends.
THEOREM Invariance == Spec => []IInv
  BY InitIInv, NextIInv, PTL DEF Spec

(***************************************************************************)
(* The properties.                                                         *)
(***************************************************************************)

\* As many keys and counters were used as packets were sealed.
LEMMA NoncesAreUnique == IInv => NonceUnique
<1> SUFFICES ASSUME IInv, NEW p \in Peers
             PROVE  Cardinality({<<m.key, m.counter>> : m \in DataSent(p)}) = sealed[p]
  BY DEF NonceUnique
<1>1. NoncesCounted(tunn[p], net, sealed[p]) /\ tunn[p].me = p
  BY DEF IInv, Good, TypeOK
<1>2. {<<m.key, m.counter>> : m \in DataSent(p)} = Nonces(p, net)
  BY DEF Nonces, DataSent, IsData
<1> QED
  BY <1>1, <1>2 DEF NoncesCounted

\* NonceUnique: no key ever encrypts two packets under one counter.
THEOREM NoncesUnique == Spec => []NonceUnique
  BY Invariance, NoncesAreUnique, PTL

\* What was delivered was sent, and each of it once.
LEMMA DeliveriesAreUnique == IInv => DeliveredOnce
<1> SUFFICES ASSUME IInv, NEW p \in Peers, NEW q \in Peers, p # q
             PROVE  /\ IsInjective(delivered[q])
                    /\ ToSet(delivered[q]) \subseteq 1..submitted[p]
  BY DEF DeliveredOnce
<1> DEFINE d == delivered[q]
<1>1. d \in Seq(Nat) /\ submitted[p] \in Nat /\ tunn[q].me = q /\ tunn[p].me = p
  BY DEF IInv, TypeOK
<1>2. DOMAIN d = 1..Len(d)
  BY <1>1
<1>3. DeliveredWereSent(tunn[q], net, d) /\ PacketsOnce(tunn[p], net, submitted[p])
  BY DEF IInv, Good
<1> HIDE DEF d
<1>4. IsInjective(d)
  BY <1>2, <1>3 DEF DeliveredWereSent, IsInjective
<1>5. ASSUME NEW k \in 1..Len(d) PROVE d[k] \in 1..submitted[p]
  <2>1. d[k] \in Nat /\ d[k] # Keepalive
    BY <1>1, <1>3 DEF DeliveredWereSent
  <2>2. PICK m \in net : Accepted(tunn[q], m) /\ m.packet = d[k]
    BY <1>3 DEF DeliveredWereSent
  <2>3. m.from \in Peers
    BY DEF IInv, TypeOK, Datagrams, Inits, Resps, Datas
  <2>4. IsData(m, p)
    BY <2>2, <2>3, <1>1, PairAssumption DEF Accepted, IsData, PairAssumption
  <2>5. m.packet <= submitted[p]
    BY <2>4, <1>1, <1>3 DEF PacketsOnce
  <2> QED
    BY <2>1, <2>2, <2>5, <1>1 DEF Keepalive
<1>6. ToSet(d) \subseteq 1..submitted[p]
  BY <1>2, <1>5 DEF ToSet
<1> QED
  BY <1>4, <1>6 DEF d

\* DeliveredOnce: whatever the network duplicates or reorders, each packet comes out
\* of the other interface at most once, and none that was not handed to the tunnel.
THEOREM DeliveriesUnique == Spec => []DeliveredOnce
  BY Invariance, DeliveriesAreUnique, PTL

\* The initiation and the response of a key determine both of its sessions.
LEMMA KeysDoAgree == IInv => KeyAgreement
<1> SUFFICES ASSUME IInv, NEW p \in Peers, NEW q \in Peers, NEW i \in Live(p), NEW j \in Live(q),
                    tunn[p].sessions[i].key = tunn[q].sessions[j].key
             PROVE  \/ p = q /\ i = j
                    \/ /\ p # q
                       /\ tunn[p].sessions[i].peer = tunn[q].sessions[j].local
                       /\ tunn[q].sessions[j].peer = tunn[p].sessions[i].local
  BY DEF KeyAgreement
<1> DEFINE s == tunn[p].sessions[i]
           r == tunn[q].sessions[j]
<1>1. /\ i \in Slots /\ j \in Slots /\ s # NoSession /\ r # NoSession
  BY DEF Live
<1>2. /\ \A x \in Peers : /\ tunn[x] \in Tunnels(Peers) /\ tunn[x].me = x
                          /\ EphsDiffer(tunn[x], net) /\ SessionsExchanged(tunn[x], net)
      /\ net \in SUBSET Datagrams
  BY DEF IInv, TypeOK, Good
<1>3. CASE p = q
  BY <1>1, <1>2, <1>3, UniqueKey
<1>4. CASE p # q
  <2>1. Exchanged(p, s, net) /\ Exchanged(q, r, net) /\ s.key = r.key
    BY <1>1, <1>2 DEF SessionsExchanged
  <2> HIDE DEF s, r
  <2>2. \A m \in net : m.from \in Peers
    BY <1>2 DEF Datagrams, Inits, Resps, Datas
  <2>3. \A m, n \in net : IsHandshake(m, m.from) /\ IsHandshake(n, m.from) /\ m.eph = n.eph => m = n
    BY <1>2, <2>2 DEF EphsDiffer
  <2>4. PICK m \in net, n \in net :
          /\ m.type = "init" /\ m.from = s.key.initiator /\ m.eph = s.key.init
          /\ n.type = "resp" /\ n.from # m.from /\ n.eph = s.key.resp
          /\ \/ p = m.from /\ s.local = m.sender_idx /\ s.peer = n.sender_idx
             \/ p = n.from /\ s.local = n.sender_idx /\ s.peer = m.sender_idx
    BY <2>1 DEF Exchanged
  <2>5. PICK x \in net, y \in net :
          /\ x.type = "init" /\ x.from = s.key.initiator /\ x.eph = s.key.init
          /\ y.type = "resp" /\ y.from # x.from /\ y.eph = s.key.resp
          /\ \/ q = x.from /\ r.local = x.sender_idx /\ r.peer = y.sender_idx
             \/ q = y.from /\ r.local = y.sender_idx /\ r.peer = x.sender_idx
    BY <2>1 DEF Exchanged
  <2>6. m = x
    BY <2>3, <2>4, <2>5 DEF IsHandshake
  <2>7. n.from = y.from
    BY <2>2, <2>4, <2>5, <2>6, PairAssumption DEF PairAssumption
  <2>8. n = y
    BY <2>3, <2>4, <2>5, <2>7 DEF IsHandshake
  <2>9. s.peer = r.local /\ r.peer = s.local
    BY <2>4, <2>5, <2>6, <2>8, <1>4
  <2> QED
    BY <2>9, <1>4 DEF s, r
<1> QED
  BY <1>3, <1>4

\* KeyAgreement: two sessions with one key are the two ends of one tunnel, and each
\* names the index the other receives on.
THEOREM KeysAgree == Spec => []KeyAgreement
  BY Invariance, KeysDoAgree, PTL

(***************************************************************************)
(* The queue.                                                              *)
(***************************************************************************)
\* After a method with tunnel v, from u: packets that wait are pursued, or all is
\* as before.
Retries(u, v) ==
  IsInitSent(v.state) \/ v.queue = <<>> \/ (v.state = u.state /\ v.queue = u.queue)

\* format_handshake_initiation leaves an initiation that is retransmitted.
LEMMA InitiationRetries ==
  ASSUME NEW u \in Tunnels(Peers), NEW f \in BOOLEAN, NEW n \in Nat
  PROVE  IsInitSent(format_handshake_initiation(u, f, n).t.state)
<1> DEFINE r == format_handshake_initiation(u, f, n)
<1>1. \/ r.t = u /\ IsInitSent(u.state)
      \/ Started(u, r.t, n)
  BY InitiationFacts
<1> HIDE DEF r
<1>2. IsInitSent(r.t.state)
  BY <1>1 DEF Started, InitSent, IsInitSent
<1> QED
  BY <1>2 DEF r

\* encapsulate queues a packet only while an initiation is out.
LEMMA EncapsulateRetries ==
  ASSUME NEW u \in Tunnels(Peers), NEW packet \in Nat, NEW n \in Nat
  PROVE  LET r == encapsulate(u, packet, n)
         IN  IsInitSent(r.t.state) \/ (r.out # <<>> /\ Retries(u, r.t))
<1> DEFINE r == encapsulate(u, packet, n)
<1>1. CASE HasSession(u)
  <2> DEFINE slot == Slot(u.current)
             e == Sealed(u, slot)
             s == timer_tick(e, "TimeLastPacketSent")
             v == IF packet = Keepalive THEN s ELSE timer_tick(s, "TimeLastDataPacketSent")
  <2>1. r.t = v /\ r.out = <<Data(u, slot, packet)>>
    BY <1>1 DEF encapsulate, Result
  <2>2. slot \in Slots /\ u.sessions[slot] # NoSession
    BY <1>1, SlotType DEF HasSession, CurrentSession, Tunnels
  <2> HIDE DEF slot
  <2>3. e \in Tunnels(Peers) /\ SealedBy(u, e, slot)
    BY <2>2, SealedFacts
  <2> HIDE DEF e
  <2>4. s \in Tunnels(Peers) /\ SameCore(e, s)
    BY <2>3, TickFacts DEF TimerNames
  <2> HIDE DEF s
  <2>5. v \in Tunnels(Peers) /\ SameCore(s, v)
    BY <2>4, TickFacts DEF TimerNames, SameCore
  <2> HIDE DEF v
  <2> QED
    BY <2>1, <2>3, <2>4, <2>5 DEF Retries, SealedBy, SameCore
<1>2. CASE ~HasSession(u)
  <2> DEFINE q == queue_packet(u, packet)
  <2>1. q \in Tunnels(Peers)
    BY QueueType
  <2>2. r = format_handshake_initiation(q, FALSE, n)
    BY <1>2 DEF encapsulate
  <2> QED
    BY <2>1, <2>2, InitiationRetries
<1> QED
  BY <1>1, <1>2

\* A datagram is ignored, or answered, or leaves the queue and the handshake alone.
LEMMA DecapsulateRetries ==
  ASSUME NEW u \in Tunnels(Peers), NEW m \in Datagrams, NEW n \in Nat
  PROVE  LET r == decapsulate(u, m, n)
         IN  r.out # <<>> \/ Retries(u, r.t)
<1> DEFINE r == decapsulate(u, m, n)
<1>1. m.type \in {"init", "resp", "data"}
  BY DEF Datagrams, Inits, Resps, Datas
<1>2. r = handle_verified_packet(u, m)
  BY <1>1 DEF decapsulate, Repeat
<1>3. CASE m.type = "init"
  <2>1. r = handle_handshake_init(u, m)
    BY <1>2, <1>3 DEF handle_verified_packet
  <2>2. r = Ignored(u) \/ \E v : r = Result(v, <<Resp2(u, m)>>)
    BY <2>1, Zenon DEF handle_handshake_init
  <2> QED
    BY <2>2 DEF Ignored, Result, Retries
<1>4. CASE m.type = "resp"
  <2>1. r = handle_handshake_response(u, m)
    BY <1>2, <1>4 DEF handle_verified_packet
  <2>2. r = Ignored(u) \/ \E v, k : r = Result(v, <<k>>)
    BY <2>1, Zenon DEF handle_handshake_response
  <2> QED
    BY <2>2 DEF Ignored, Result, Retries
<1>5. CASE m.type = "data"
  <2>1. r = handle_data(u, m)
    BY <1>2, <1>5 DEF handle_verified_packet
  <2>2. m \in Datas
    BY <1>5 DEF Datagrams, Inits, Resps
  <2>3. CASE Opens(u, u.sessions[Slot(m.receiver_idx)], m)
    <3>1. OpenedBy(u, handle_data(u, m).t, Slot(m.receiver_idx), m)
      BY <2>2, <2>3, DataFacts
    <3> QED
      BY <2>1, <3>1 DEF OpenedBy, Retries
  <2>4. CASE ~Opens(u, u.sessions[Slot(m.receiver_idx)], m)
    BY <2>1, <2>4 DEF handle_data, Ignored, Result, Retries
  <2> QED
    BY <2>3, <2>4
<1> QED
  BY <1>1, <1>3, <1>4, <1>5

\* A round of the flush loop sends, has nothing to send, or leaves an initiation out.
LEMMA FlushRetries ==
  ASSUME NEW u \in Tunnels(Peers), NEW n \in Nat
  PROVE  LET r == decapsulate(u, Repeat, n)
         IN  r.out # <<>> \/ r.t.queue = <<>> \/ IsInitSent(r.t.state)
<1> DEFINE r == decapsulate(u, Repeat, n)
           v == [u EXCEPT !.queue = Tail(@)]
<1>1. CASE u.queue = <<>>
  BY <1>1 DEF decapsulate, send_queued_packet, Ignored, Result
<1>2. CASE u.queue # <<>>
  <2>1. r = encapsulate(v, Head(u.queue), n)
    BY <1>2 DEF decapsulate, send_queued_packet
  <2>2. u.queue \in Seq(Nat)
    BY DEF Tunnels
  <2>3. Tail(u.queue) \in Seq(Nat) /\ Head(u.queue) \in Nat
    BY <1>2, <2>2
  <2>4. v \in Tunnels(Peers)
    BY <2>3 DEF Tunnels
  <2> HIDE DEF v
  <2> QED
    BY <2>1, <2>3, <2>4, EncapsulateRetries
<1> QED
  BY <1>1, <1>2

\* update_timers leaves no packet behind without an initiation.
LEMMA UpdateRetries ==
  ASSUME NEW u \in Tunnels(Peers), NEW n \in Nat
  PROVE  Retries(u, update_timers(u, n).t)
<1>1. PICK c \in Tunnels(Peers) :
        /\ Aged(u, c)
        /\ \/ update_timers(u, n) = Ignored(c)
           \/ update_timers(u, n) = Ignored(give_up(c, n))
           \/ update_timers(u, n) = idle_timers(c, n)
           \/ update_timers(u, n) = format_handshake_initiation(c, TRUE, n)
  BY UpdateFacts
<1>2. \A w : Ignored(w).t = w
  BY DEF Ignored, Result
<1>3. Retries(c, c) /\ c.state = u.state /\ c.queue = u.queue
  BY <1>1 DEF Retries, Aged
<1>4. Retries(c, give_up(c, n))
  <2>1. give_up(c, n).queue = <<>>
    BY DEF give_up, clear_all, clear, Tunnels
  <2> QED
    BY <2>1 DEF Retries
<1>5. Retries(c, format_handshake_initiation(c, TRUE, n).t)
  BY InitiationRetries DEF Retries
<1>6. Retries(c, idle_timers(c, n).t)
  <2>1. PICK v \in Tunnels(Peers) :
          /\ SameCore(c, v)
          /\ \/ idle_timers(c, n) = format_handshake_initiation(v, TRUE, n)
             \/ idle_timers(c, n) = encapsulate(v, Keepalive, n)
             \/ idle_timers(c, n) = Ignored(v)
    BY IdleFacts
  <2>2. Retries(v, format_handshake_initiation(v, TRUE, n).t)
    BY InitiationRetries DEF Retries
  <2>3. Retries(v, encapsulate(v, Keepalive, n).t)
    BY EncapsulateRetries DEF Retries, Keepalive
  <2> QED
    BY <2>1, <2>2, <2>3, <1>2 DEF Retries, SameCore
<1> QED
  BY <1>1, <1>2, <1>3, <1>4, <1>5, <1>6 DEF Retries

\* Every step keeps the packets that wait pursued.
LEMMA NextRetries == IInv /\ QueuedIsRetried /\ [Next]_vars => QueuedIsRetried'
<1> SUFFICES ASSUME IInv, QueuedIsRetried, [Next]_vars PROVE QueuedIsRetried'
  OBVIOUS
<1> DEFINE Q(u, k) == u.queue # <<>> => IsInitSent(u.state) \/ k > 0
<1>t. /\ tunn \in [Peers -> Tunnels(Peers)] /\ flushing \in [Peers -> Nat]
      /\ net \in SUBSET Datagrams /\ now \in Nat
      /\ submitted \in [Peers -> Nat]
  BY DEF IInv, TypeOK
<1>q. \A p \in Peers : Q(tunn[p], flushing[p])
  BY DEF QueuedIsRetried
<1>1. ASSUME NEW p \in Peers, NEW r, Perform(p, r), NEW k \in Nat,
             flushing' = [flushing EXCEPT ![p] = k], Q(r.t, k)
      PROVE  QueuedIsRetried'
  BY <1>1, <1>t, <1>q DEF Perform, QueuedIsRetried
<1>2. \A p \in Peers : flushing = [flushing EXCEPT ![p] = flushing[p]]
  BY <1>t
<1>3. ASSUME NEW p \in Peers, NEW v, Retries(tunn[p], v) PROVE Q(v, flushing[p])
  BY <1>3, <1>q DEF Retries
<1>4. CASE Tick
  BY <1>4, <1>q DEF Tick, QueuedIsRetried
<1>5. ASSUME NEW p \in Peers, Encapsulate(p) PROVE QueuedIsRetried'
  <2> DEFINE r == encapsulate(tunn[p], submitted[p] + 1, now)
  <2>1. Perform(p, r) /\ flushing' = flushing
    BY <1>5 DEF Encapsulate
  <2>2. Retries(tunn[p], r.t)
    <3>1. tunn[p] \in Tunnels(Peers) /\ submitted[p] + 1 \in Nat
      BY <1>t
    <3> QED
      BY <3>1, <1>t, EncapsulateRetries DEF Retries
  <2> HIDE DEF r
  <2>3. Q(r.t, flushing[p])
    BY <2>2, <1>3
  <2> QED
    BY <2>1, <2>3, <1>1, <1>2, <1>t
<1>6. ASSUME NEW p \in Peers, NEW m \in net, Deliver(p, m) PROVE QueuedIsRetried'
  <2> DEFINE r == decapsulate(tunn[p], m, now)
             k == IF r.out = <<>> THEN flushing[p] ELSE flushing[p] + 1
  <2>1. Perform(p, r) /\ flushing' = [flushing EXCEPT ![p] = k]
    BY <1>6, <1>2 DEF Deliver
  <2>2. r.out # <<>> \/ Retries(tunn[p], r.t)
    <3>1. tunn[p] \in Tunnels(Peers) /\ m \in Datagrams
      BY <1>t
    <3> QED
      BY <3>1, <1>t, DecapsulateRetries
  <2> HIDE DEF r
  <2>3. Q(r.t, k) /\ k \in Nat
    BY <2>2, <1>3, <1>t
  <2> HIDE DEF k
  <2> QED
    BY <2>1, <2>3, <1>1
<1>7. ASSUME NEW p \in Peers, FlushRound(p) PROVE QueuedIsRetried'
  <2> DEFINE r == decapsulate(tunn[p], Repeat, now)
             k == IF r.out = <<>> THEN flushing[p] - 1 ELSE flushing[p]
  <2>1. /\ Perform(p, r) /\ flushing' = [flushing EXCEPT ![p] = k]
        /\ flushing[p] > 0
    BY <1>7, <1>2 DEF FlushRound
  <2>2. r.out # <<>> \/ r.t.queue = <<>> \/ IsInitSent(r.t.state)
    <3>1. tunn[p] \in Tunnels(Peers)
      BY <1>t
    <3> QED
      BY <3>1, <1>t, FlushRetries
  <2> HIDE DEF r
  <2>3. Q(r.t, k) /\ k \in Nat
    BY <2>1, <2>2, <1>t
  <2> QED
    BY <2>1, <2>3, <1>1
<1>8. ASSUME NEW p \in Peers, UpdateTimers(p) PROVE QueuedIsRetried'
  <2> DEFINE r == update_timers(tunn[p], now)
  <2>1. Perform(p, r) /\ flushing' = flushing
    BY <1>8 DEF UpdateTimers
  <2>2. Retries(tunn[p], r.t)
    BY <1>t, UpdateRetries
  <2> HIDE DEF r
  <2>3. Q(r.t, flushing[p])
    BY <2>2, <1>3
  <2> QED
    BY <2>1, <2>3, <1>1, <1>2, <1>t
<1>9. ASSUME NEW p \in Peers, Restart(p) PROVE QueuedIsRetried'
  <2> DEFINE v == NewTunn(p, tunn[p].ephs, now)
  <2>1. tunn' = [tunn EXCEPT ![p] = v] /\ flushing' = flushing
    BY <1>9 DEF Restart
  <2>2. v.queue = <<>>
    BY DEF NewTunn
  <2> HIDE DEF v
  <2> QED
    BY <2>1, <2>2, <1>t, <1>q DEF QueuedIsRetried
<1>10. CASE UNCHANGED vars
  BY <1>10, <1>q DEF vars, QueuedIsRetried
<1> QED
  BY <1>4, <1>5, <1>6, <1>7, <1>8, <1>9, <1>10 DEF Next

\* QueuedIsRetried: packets that wait for a session are pursued by an initiation that
\* is retransmitted, or a handler is about to flush them.
THEOREM QueuedAreRetried == Spec => []QueuedIsRetried
<1>1. Init => QueuedIsRetried
  BY DEF Init, QueuedIsRetried, NewTunn
<1> QED
  BY <1>1, Invariance, NextRetries, PTL DEF Spec
=============================================================================
