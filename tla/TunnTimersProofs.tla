-------------------------- MODULE TunnTimersProofs --------------------------
(***************************************************************************)
(* Proofs about the timers of a tunnel, for any durations: whatever the    *)
(* peer and the interface do, and whenever.  The properties speak of when  *)
(* things happened, the timers of the last tick before that.  So the       *)
(* invariant says, for each timer, how far it may be from the instant it   *)
(* stands for, and which durations update_timers left it within.           *)
(***************************************************************************)
EXTENDS TunnTimers, FiniteSetTheorems, TLAPS

Ends == {Us, Them}
Tunns == Tunnels(Ends)

LogType ==
  [heard : Nat, sent : Nat, unanswered : Nat, owed : Nat, attempt : Nat, born : [Slots -> Nat]]

TypeOK ==
  /\ t \in Tunns /\ t.me = Us
  /\ flushing \in BOOLEAN
  /\ now \in Nat /\ peer_ephs \in Nat /\ events \in Nat
  /\ log \in LogType

(***************************************************************************)
(* The invariant, for a tunnel u with log l at the instant n.              *)
(***************************************************************************)
\* The tunnel's clock is the last tick or the one before, and nothing is later.
Clocked(u, n) ==
  /\ n - 1 <= u.time.TimeCurrent /\ u.time.TimeCurrent <= n
  /\ \A x \in TimerNames : u.time[x] <= u.time.TimeCurrent
  /\ \A i \in Slots : u.session_time[i] <= u.time.TimeCurrent

Alive(u) == {i \in Slots : u.sessions[i] # NoSession}

\* What ExpiredIsEmpty says.
GaveUpAll(u) == is_expired(u) => Alive(u) = {} /\ u.queue = <<>> /\ ~IsInitSent(u.previous)

\* The peer generated its ephemeral key of each session, so the next key is new.
KeysUsed(u, ephs) ==
  \A i \in Alive(u) :
    LET key == u.sessions[i].key
    IN  IF key.initiator = Us THEN key.resp <= ephs ELSE key.init <= ephs

\* No session is older than its time says, and none was too old at the last tick.
Young(u, l) ==
  \A i \in Alive(u) :
    /\ u.session_time[i] <= l.born[i]
    /\ u.time.TimeCurrent - u.session_time[i] <= REJECT_AFTER_TIME

\* An attempt is as old as its timers say.
Attempting(u, l) ==
  is_in_progress(u) =>
    u.time.TimeLastHandshakeStarted <= l.attempt /\ u.state.time_sent <= l.sent

\* The timers of what was sent.
SentSince(u, l) ==
  ~is_expired(u) =>
    u.time.TimePersistentKeepalive <= l.sent /\ u.time.TimeLastPacketSent <= l.sent

\* The timers of what was heard: too late only before there is a session.
HeardSince(u, l) ==
  u.time.TimeLastPacketReceived <= l.heard \/ (Alive(u) = {} /\ l.unanswered = 0)

\* The timers of data that is unanswered, and of data that is to be acknowledged.
Awaiting(u, l) ==
  l.unanswered # 0 =>
    ~is_expired(u) /\ u.time.TimeLastDataPacketSent >= l.unanswered - 1

Owing(u, l) ==
  l.owed # 0 =>
    ~is_expired(u) /\ u.time.TimeLastDataPacketReceived >= l.owed - 1

\* What update_timers saw to at the last tick.
Bounded(u, l) ==
  LET since(time) == u.time.TimeCurrent - time
  IN  /\ is_in_progress(u) =>
           /\ since(u.time.TimeLastHandshakeStarted) < REKEY_ATTEMPT_TIME
           /\ since(u.state.time_sent) < REKEY_TIMEOUT
      /\ PERSISTENT_KEEPALIVE > 0 /\ ~is_expired(u) =>
           \/ since(l.sent) < PERSISTENT_KEEPALIVE
           \/ is_in_progress(u) /\ since(l.sent) < REKEY_TIMEOUT

NotLater(l, n) == l.heard <= n /\ l.sent <= n

\* What holds of the times whether or not update_timers has run at this tick.
Timely(u, n, ephs, l) ==
  /\ Clocked(u, n) /\ GaveUpAll(u) /\ KeysUsed(u, ephs) /\ Young(u, l)
  /\ Attempting(u, l) /\ SentSince(u, l) /\ HeardSince(u, l) /\ NotLater(l, n)
  /\ Awaiting(u, l) /\ Owing(u, l)

\* Whoever has to be noticed is still wanted.
Wanting(u, l) ==
  /\ l.unanswered # 0 => is_in_progress(u) \/ u.want_handshake
  /\ l.owed # 0 => u.want_keepalive

IInv ==
  /\ TypeOK
  /\ Timely(t, now, peer_ephs, log)
  /\ Wanting(t, log) /\ Bounded(t, log)

(***************************************************************************)
(* The operators of Tunn.                                                  *)
(***************************************************************************)
\* Every session index has its slot.
LEMMA SlotType == \A i \in Nat : Slot(i) \in Slots /\ i % N_SESSIONS \in Slots
  BY TunnAssumption DEF TunnAssumption, Slot, Slots

\* The next session index.
LEMMA IndexType == \A u \in Tunns : inc_index(u) \in Nat
  BY TunnAssumption, SMTT(30) DEF TunnAssumption, inc_index, Tunns, Tunnels

\* An outgoing handshake has an index, a key and a time.
LEMMA StateType ==
  \A hs \in HandshakeStates : IsInitSent(hs) =>
    hs \in [kind : {"InitSent"}, local : Nat, eph : Nat, time_sent : Nat]
  BY DEF HandshakeStates, IsInitSent, None, Expired

\* The handshake states differ.
LEMMA StatesDiffer ==
  /\ None \in HandshakeStates /\ Expired \in HandshakeStates
  /\ ~IsInitSent(None) /\ ~IsInitSent(Expired) /\ None # Expired
  /\ \A hs : IsInitSent(hs) => hs # Expired /\ hs # None
  BY DEF HandshakeStates, IsInitSent, None, Expired

\* The same tunnel but for its timers.
SameButTimes(u, v) ==
  /\ v.me = u.me /\ v.ephs = u.ephs /\ v.sessions = u.sessions /\ v.queue = u.queue
  /\ v.session_time = u.session_time /\ v.state = u.state /\ v.previous = u.previous

\* Exactly the timers of S were ticked.
Ticked(u, v, S) ==
  v.time = [x \in TimerNames |-> IF x \in S THEN u.time.TimeCurrent ELSE u.time[x]]

\* Ticks add up: TimeCurrent stays.
LEMMA TickedTwice ==
  ASSUME NEW u \in Tunns, NEW v, NEW w, NEW S, NEW R, Ticked(u, v, S), Ticked(v, w, R),
         "TimeCurrent" \notin S
  PROVE  Ticked(u, w, S \union R)
<1>1. "TimeCurrent" \in TimerNames
  BY DEF TimerNames
<1>2. v.time.TimeCurrent = u.time.TimeCurrent
  BY <1>1 DEF Ticked
<1>3. \A x \in TimerNames :
        w.time[x] = IF x \in S \union R THEN u.time.TimeCurrent ELSE u.time[x]
  BY <1>2 DEF Ticked
<1> QED
  BY <1>3 DEF Ticked

\* timer_tick sets one timer, and what is wanted after it.
LEMMA TickFacts ==
  ASSUME NEW u \in Tunns, NEW name \in TimerNames
  PROVE  LET v == timer_tick(u, name)
         IN  /\ v \in Tunns /\ SameButTimes(u, v) /\ Ticked(u, v, {name})
             /\ name = "TimeLastPacketSent" => v.want_handshake /\ ~v.want_keepalive
             /\ name = "TimeLastPacketReceived" => v.want_keepalive
             /\ name \notin {"TimeLastPacketSent", "TimeLastPacketReceived"} =>
                  /\ v.want_handshake = u.want_handshake
                  /\ v.want_keepalive = u.want_keepalive
<1> DEFINE v == timer_tick(u, name)
<1>1. u.time.TimeCurrent \in Nat /\ u.time \in [TimerNames -> Nat]
  BY DEF Tunns, Tunnels, TimerNames
<1>2. v \in Tunns
  BY <1>1 DEF timer_tick, Tunns, Tunnels
<1>3. SameButTimes(u, v)
  BY DEF timer_tick, Tunns, Tunnels, SameButTimes
<1>4. v.time = [u.time EXCEPT ![name] = u.time.TimeCurrent]
  BY DEF timer_tick, Tunns, Tunnels
<1>5. Ticked(u, v, {name})
  <2> HIDE DEF v
  <2> QED
    BY <1>1, <1>4 DEF Ticked
<1>6. /\ name = "TimeLastPacketSent" => v.want_handshake /\ ~v.want_keepalive
      /\ name = "TimeLastPacketReceived" => v.want_keepalive
  BY DEF timer_tick, Tunns, Tunnels
<1>7. name \notin {"TimeLastPacketSent", "TimeLastPacketReceived"} =>
        v.want_handshake = u.want_handshake /\ v.want_keepalive = u.want_keepalive
  BY DEF timer_tick, Tunns, Tunnels
<1> QED
  BY <1>2, <1>3, <1>5, <1>6, <1>7

\* timer_tick_session_established also gives the session its time.
LEMMA EstablishedFacts ==
  ASSUME NEW u \in Tunns, NEW b \in BOOLEAN, NEW index \in Nat
  PROVE  LET v == timer_tick_session_established(u, b, index)
         IN  /\ v \in Tunns /\ Ticked(u, v, {"TimeSessionEstablished"})
             /\ v.me = u.me /\ v.sessions = u.sessions /\ v.queue = u.queue
             /\ v.state = u.state /\ v.previous = u.previous
             /\ v.session_time = [u.session_time EXCEPT ![index % N_SESSIONS] = u.time.TimeCurrent]
             /\ v.want_handshake = u.want_handshake /\ v.want_keepalive = u.want_keepalive
<1> DEFINE e == timer_tick(u, "TimeSessionEstablished")
           v == timer_tick_session_established(u, b, index)
<1>1. /\ e \in Tunns /\ SameButTimes(u, e) /\ Ticked(u, e, {"TimeSessionEstablished"})
      /\ e.want_handshake = u.want_handshake /\ e.want_keepalive = u.want_keepalive
  BY TickFacts DEF TimerNames
<1>2. u.time.TimeCurrent \in Nat
  BY DEF Tunns, Tunnels, TimerNames
<1>3. v = [e EXCEPT !.session_time[index % N_SESSIONS] = u.time.TimeCurrent,
                    !.is_initiator = b]
  BY DEF timer_tick_session_established
<1> HIDE DEF e, v
<1>4. [e.session_time EXCEPT ![index % N_SESSIONS] = u.time.TimeCurrent] \in [Slots -> Nat]
  BY <1>1, <1>2 DEF Tunns, Tunnels
<1>5. v \in Tunns
  BY <1>1, <1>3, <1>4 DEF Tunns, Tunnels
<1>6. /\ v.me = e.me /\ v.sessions = e.sessions /\ v.queue = e.queue
      /\ v.state = e.state /\ v.previous = e.previous /\ v.time = e.time
      /\ v.session_time = [e.session_time EXCEPT ![index % N_SESSIONS] = u.time.TimeCurrent]
      /\ v.want_handshake = e.want_handshake /\ v.want_keepalive = e.want_keepalive
  BY <1>1, <1>3 DEF Tunns, Tunnels
<1>7. Ticked(u, v, {"TimeSessionEstablished"})
  BY <1>1, <1>6 DEF Ticked
<1> QED
  BY <1>1, <1>5, <1>6, <1>7 DEF SameButTimes, v

\* set_current_session changes nothing else.
LEMMA CurrentFacts ==
  ASSUME NEW u \in Tunns, NEW new \in Nat
  PROVE  LET v == set_current_session(u, new)
         IN  /\ v \in Tunns /\ SameButTimes(u, v) /\ v.time = u.time
             /\ v.want_handshake = u.want_handshake /\ v.want_keepalive = u.want_keepalive
  BY DEF set_current_session, Tunns, Tunnels, SameButTimes

\* Timers::clear sets every timer.
LEMMA ClearFacts ==
  ASSUME NEW u \in Tunns, NEW n \in Nat
  PROVE  /\ clear(u, n) \in Tunns /\ SameButTimes(u, clear(u, n))
         /\ clear(u, n).time = [x \in TimerNames |-> n]
  BY DEF clear, Tunns, Tunnels, SameButTimes

\* A message that is formatted leaves timers, sessions and handshakes.
LEMMA FormattedFacts ==
  ASSUME NEW u \in Tunns
  PROVE  LET v == Formatted(u)
         IN  /\ v \in Tunns /\ v.me = u.me /\ v.sessions = u.sessions /\ v.queue = u.queue
             /\ v.time = u.time /\ v.session_time = u.session_time
             /\ v.state = u.state /\ v.previous = u.previous
<1>1. inc_index(u) \in Nat /\ u.ephs + 1 \in Nat
  BY IndexType, SMTT(30) DEF Tunns, Tunnels
<1>2. [index |-> inc_index(u), eph |-> u.ephs + 1] \in [index : Nat, eph : Nat]
  BY <1>1
<1>3. Formatted(u) \in Tunns
  BY <1>1, <1>2 DEF Formatted, Tunns, Tunnels
<1> QED
  BY <1>3 DEF Formatted, Tunns, Tunnels

\* An initiation is made: the timers of an expired tunnel start anew.
Started(u, v, n) ==
  /\ v.me = u.me /\ v.sessions = u.sessions /\ v.session_time = u.session_time
  /\ v.queue = u.queue /\ v.previous = u.state
  /\ IsInitSent(v.state) /\ v.state.time_sent = n
  /\ \/ is_expired(u) /\ v.time = [x \in TimerNames |-> n]
     \/ /\ ~is_expired(u)
        /\ Ticked(u, v, IF is_in_progress(u) THEN {"TimeLastPacketSent"}
                        ELSE {"TimeLastHandshakeStarted", "TimeLastPacketSent"})

\* format_handshake_initiation does nothing while one is out, or starts one.
LEMMA InitiationFacts ==
  ASSUME NEW u \in Tunns, NEW f \in BOOLEAN, NEW n \in Nat
  PROVE  LET r == format_handshake_initiation(u, f, n)
         IN  \/ r = Ignored(u) /\ is_in_progress(u) /\ ~f
             \/ /\ r = Result(r.t, <<Init1(u)>>)
                /\ r.t \in Tunns /\ Started(u, r.t, n)
<1> DEFINE c == IF is_expired(u) THEN clear(u, n) ELSE u
           g == Formatted(c)
           h == [g EXCEPT !.previous = u.state,
                          !.state = InitSent(inc_index(u), u.ephs + 1, n)]
           s == IF is_in_progress(u) THEN h ELSE timer_tick(h, "TimeLastHandshakeStarted")
           v == timer_tick(s, "TimeLastPacketSent")
           r == format_handshake_initiation(u, f, n)
<1>1. CASE is_in_progress(u) /\ ~f
  BY <1>1 DEF format_handshake_initiation
<1>2. CASE ~(is_in_progress(u) /\ ~f)
  <2>1. r = Result(v, <<Init1(u)>>)
    BY <1>2 DEF format_handshake_initiation
  <2>2. /\ c \in Tunns /\ SameButTimes(u, c)
        /\ c.time = IF is_expired(u) THEN [x \in TimerNames |-> n] ELSE u.time
    BY ClearFacts DEF SameButTimes
  <2> HIDE DEF c
  <2>3. /\ g \in Tunns /\ g.me = u.me /\ g.sessions = u.sessions /\ g.queue = u.queue
        /\ g.time = c.time /\ g.session_time = u.session_time
    BY <2>2, FormattedFacts DEF SameButTimes
  <2> HIDE DEF g
  <2>4. /\ h \in Tunns /\ h.me = u.me /\ h.sessions = u.sessions /\ h.queue = u.queue
        /\ h.time = c.time /\ h.session_time = u.session_time /\ h.previous = u.state
        /\ IsInitSent(h.state) /\ h.state.time_sent = n
    <3>1. /\ InitSent(inc_index(u), u.ephs + 1, n) \in HandshakeStates
          /\ IsInitSent(InitSent(inc_index(u), u.ephs + 1, n))
          /\ InitSent(inc_index(u), u.ephs + 1, n).time_sent = n
      <4>1. inc_index(u) \in Nat
        BY IndexType
      <4>2. u.ephs + 1 \in Nat
        BY DEF Tunns, Tunnels
      <4> QED
        BY <4>1, <4>2 DEF HandshakeStates, InitSent, IsInitSent
    <3>2. u.state \in HandshakeStates
      BY DEF Tunns, Tunnels
    <3>3. h \in Tunns
      BY <2>3, <3>1, <3>2 DEF Tunns, Tunnels
    <3> QED
      BY <2>3, <3>1, <3>3 DEF Tunns, Tunnels
  <2> HIDE DEF h
  <2>5. /\ s \in Tunns /\ SameButTimes(h, s)
        /\ Ticked(h, s, IF is_in_progress(u) THEN {} ELSE {"TimeLastHandshakeStarted"})
    <3>1. Ticked(h, h, {})
      BY <2>4 DEF Ticked, Tunns, Tunnels
    <3>2. CASE is_in_progress(u)
      BY <2>4, <3>1, <3>2 DEF SameButTimes
    <3>3. CASE ~is_in_progress(u)
      BY <2>4, <3>3, TickFacts DEF TimerNames
    <3> QED
      BY <3>2, <3>3
  <2> HIDE DEF s
  <2>6. v \in Tunns /\ SameButTimes(s, v) /\ Ticked(s, v, {"TimeLastPacketSent"})
    BY <2>5, TickFacts DEF TimerNames
  <2> HIDE DEF v
  <2>7. Ticked(h, v, IF is_in_progress(u) THEN {"TimeLastPacketSent"}
                     ELSE {"TimeLastHandshakeStarted", "TimeLastPacketSent"})
    <3> DEFINE S == IF is_in_progress(u) THEN {} ELSE {"TimeLastHandshakeStarted"}
    <3>1. Ticked(h, v, S \union {"TimeLastPacketSent"})
      BY <2>4, <2>5, <2>6, TickedTwice
    <3>2. S \union {"TimeLastPacketSent"} = IF is_in_progress(u) THEN {"TimeLastPacketSent"}
                     ELSE {"TimeLastHandshakeStarted", "TimeLastPacketSent"}
      OBVIOUS
    <3> QED
      BY <3>1, <3>2
  <2>8. \/ is_expired(u) /\ v.time = [x \in TimerNames |-> n]
        \/ /\ ~is_expired(u)
           /\ Ticked(u, v, IF is_in_progress(u) THEN {"TimeLastPacketSent"}
                           ELSE {"TimeLastHandshakeStarted", "TimeLastPacketSent"})
    BY <2>2, <2>4, <2>7 DEF Ticked, TimerNames
  <2>9. Started(u, v, n)
    BY <2>4, <2>5, <2>6, <2>8 DEF Started, SameButTimes
  <2> QED
    BY <2>1, <2>6, <2>9 DEF Result
<1> QED
  BY <1>1, <1>2

\* A session sealed a datagram: sessions, keys and handshakes stay.
Spoke(u, v, S) ==
  /\ v.me = u.me /\ v.session_time = u.session_time /\ v.queue = u.queue
  /\ v.state = u.state /\ v.previous = u.previous
  /\ Alive(v) = Alive(u) /\ \A i \in Alive(u) : v.sessions[i].key = u.sessions[i].key
  /\ Ticked(u, v, S)

\* format_packet_data takes a counter of one session.
LEMMA SealedFacts ==
  ASSUME NEW u \in Tunns, NEW slot \in Slots, u.sessions[slot] # NoSession
  PROVE  LET v == Sealed(u, slot)
         IN  /\ v \in Tunns /\ Spoke(u, v, {}) /\ v.time = u.time
             /\ \A j \in Slots : j # slot => v.sessions[j] = u.sessions[j]
<1> DEFINE v == Sealed(u, slot)
           s == u.sessions[slot]
           w == [s EXCEPT !.counter = @ + 1]
           ss == [u.sessions EXCEPT ![slot] = w]
<1>1. s \in Sessions(Ends) /\ u.sessions \in [Slots -> Sessions(Ends) \union {NoSession}]
  BY DEF Tunns, Tunnels
<1>2. w \in Sessions(Ends) /\ w.key = s.key
  <2> HIDE DEF s
  <2> QED
    BY <1>1 DEF Sessions
<1>3. w # NoSession
  BY <1>2 DEF NoSession, Sessions
<1>4. [u.sessions EXCEPT ![slot].counter = @ + 1] = ss
  BY <1>1
<1>5. /\ ss \in [Slots -> Sessions(Ends) \union {NoSession}]
      /\ ss[slot] = w /\ \A j \in Slots : j # slot => ss[j] = u.sessions[j]
  <2> HIDE DEF w
  <2> QED
    BY <1>1, <1>2
<1>6. v = [u EXCEPT !.sessions = ss]
  BY <1>4 DEF Sealed, Tunns, Tunnels
<1> HIDE DEF ss, v, w
<1>7. v \in Tunns
  BY <1>5, <1>6 DEF Tunns, Tunnels
<1>8. /\ v.me = u.me /\ v.session_time = u.session_time /\ v.queue = u.queue
      /\ v.state = u.state /\ v.previous = u.previous /\ v.time = u.time /\ v.sessions = ss
  BY <1>6 DEF Tunns, Tunnels
<1>9. Alive(v) = Alive(u)
  BY <1>3, <1>5, <1>8 DEF Alive
<1>10. \A i \in Alive(u) : v.sessions[i].key = u.sessions[i].key
  BY <1>2, <1>5, <1>8 DEF Alive
<1>11. Ticked(u, v, {})
  BY <1>8 DEF Ticked, Tunns, Tunnels
<1> QED
  BY <1>5, <1>7, <1>8, <1>9, <1>10, <1>11 DEF Spoke, v

\* Ticks after such a step.
LEMMA SpokeTicked ==
  ASSUME NEW u \in Tunns, NEW v \in Tunns, NEW w, NEW S, NEW R,
         Spoke(u, v, S), SameButTimes(v, w), Ticked(v, w, R), "TimeCurrent" \notin S
  PROVE  Spoke(u, w, S \union R)
<1>1. Ticked(u, w, S \union R)
  BY TickedTwice DEF Spoke
<1> QED
  BY <1>1 DEF Spoke, SameButTimes, Alive

SentTimers(packet) ==
  IF packet = Keepalive THEN {"TimeLastPacketSent"}
  ELSE {"TimeLastPacketSent", "TimeLastDataPacketSent"}

\* The tunnel is the same, but for the queue.
SameButQueue(u, v) ==
  /\ v.me = u.me /\ v.sessions = u.sessions /\ v.session_time = u.session_time
  /\ v.state = u.state /\ v.previous = u.previous /\ v.time = u.time
  /\ v.want_handshake = u.want_handshake /\ v.want_keepalive = u.want_keepalive

\* queue_packet changes the queue only.
LEMMA QueueFacts ==
  ASSUME NEW u \in Tunns, NEW packet \in Nat
  PROVE  queue_packet(u, packet) \in Tunns /\ SameButQueue(u, queue_packet(u, packet))
<1> DEFINE q == Append(u.queue, packet)
<1>1. q \in Seq(Nat)
  BY DEF Tunns, Tunnels
<1>2. queue_packet(u, packet) \in {u, [u EXCEPT !.queue = q]}
  BY DEF queue_packet
<1> HIDE DEF q
<1>3. [u EXCEPT !.queue = q] \in Tunns /\ SameButQueue(u, [u EXCEPT !.queue = q])
  BY <1>1 DEF Tunns, Tunnels, SameButQueue
<1> QED
  BY <1>2, <1>3 DEF SameButQueue

\* The first packet leaves the queue.
LEMMA DequeueFacts ==
  ASSUME NEW u \in Tunns, u.queue # <<>>
  PROVE  LET v == [u EXCEPT !.queue = Tail(@)]
         IN  v \in Tunns /\ SameButQueue(u, v) /\ Head(u.queue) \in Nat
<1>1. u.queue \in Seq(Nat)
  BY DEF Tunns, Tunnels
<1>2. Tail(u.queue) \in Seq(Nat) /\ Head(u.queue) \in Nat
  BY <1>1
<1> QED
  BY <1>2 DEF Tunns, Tunnels, SameButQueue

\* encapsulate seals the packet, or queues it and makes an initiation unless one is out.
LEMMA EncapsulateFacts ==
  ASSUME NEW u \in Tunns, NEW packet \in Nat, NEW n \in Nat
  PROVE  LET r == encapsulate(u, packet, n)
         IN  /\ r.t \in Tunns
             /\ \/ /\ HasSession(u) /\ Alive(u) # {}
                   /\ \E slot \in Slots : r = Result(r.t, <<Data(u, slot, packet)>>)
                   /\ Spoke(u, r.t, SentTimers(packet)) /\ r.t.want_handshake
                \/ r = Ignored(r.t) /\ is_in_progress(u) /\ SameButQueue(u, r.t)
                \/ \E q \in Tunns : /\ SameButQueue(u, q) /\ Started(q, r.t, n)
                                    /\ r = Result(r.t, <<Init1(q)>>)
<1> DEFINE r == encapsulate(u, packet, n)
<1>1. CASE HasSession(u)
  <2> DEFINE slot == Slot(u.current)
             e == Sealed(u, slot)
             s == timer_tick(e, "TimeLastPacketSent")
             v == IF packet = Keepalive THEN s ELSE timer_tick(s, "TimeLastDataPacketSent")
  <2>1. r = Result(v, <<Data(u, slot, packet)>>)
    BY <1>1 DEF encapsulate
  <2>2. slot \in Slots /\ u.sessions[slot] # NoSession
    BY <1>1, SlotType DEF HasSession, CurrentSession, Tunns, Tunnels
  <2> HIDE DEF slot
  <2>3. e \in Tunns /\ Spoke(u, e, {})
    BY <2>2, SealedFacts
  <2> HIDE DEF e
  <2>4. s \in Tunns /\ SameButTimes(e, s) /\ Ticked(e, s, {"TimeLastPacketSent"})
          /\ s.want_handshake
    BY <2>3, TickFacts DEF TimerNames
  <2> HIDE DEF s
  <2>5. Spoke(u, s, {"TimeLastPacketSent"})
    <3>1. Spoke(u, s, {} \union {"TimeLastPacketSent"})
      BY <2>3, <2>4, SpokeTicked
    <3>2. {} \union {"TimeLastPacketSent"} = {"TimeLastPacketSent"}
      OBVIOUS
    <3> QED
      BY <3>1, <3>2
  <2>6. v \in Tunns /\ Spoke(u, v, SentTimers(packet)) /\ v.want_handshake
    <3>1. CASE packet = Keepalive
      BY <2>4, <2>5, <3>1 DEF SentTimers
    <3>2. CASE packet # Keepalive
      <4> DEFINE w == timer_tick(s, "TimeLastDataPacketSent")
      <4>1. w \in Tunns /\ SameButTimes(s, w) /\ Ticked(s, w, {"TimeLastDataPacketSent"})
              /\ w.want_handshake
        BY <2>4, TickFacts DEF TimerNames
      <4>2. v = w
        BY <3>2
      <4> HIDE DEF w, v
      <4>3. Spoke(u, w, {"TimeLastPacketSent"} \union {"TimeLastDataPacketSent"})
        BY <2>4, <2>5, <4>1, SpokeTicked
      <4>4. {"TimeLastPacketSent"} \union {"TimeLastDataPacketSent"} = SentTimers(packet)
        BY <3>2 DEF SentTimers
      <4> QED
        BY <4>1, <4>2, <4>3, <4>4
    <3> QED
      BY <3>1, <3>2
  <2> HIDE DEF v
  <2>7. r.t = v /\ Alive(u) # {}
    BY <2>1, <2>2 DEF Result, Alive
  <2> HIDE DEF r
  <2> QED
    BY <1>1, <2>1, <2>2, <2>6, <2>7 DEF r
<1>2. CASE ~HasSession(u)
  <2> DEFINE q == queue_packet(u, packet)
  <2>1. r = format_handshake_initiation(q, FALSE, n)
    BY <1>2 DEF encapsulate
  <2>2. q \in Tunns /\ SameButQueue(u, q)
    BY QueueFacts
  <2> HIDE DEF q
  <2>3. \/ r = Ignored(q) /\ is_in_progress(q)
        \/ /\ r = Result(r.t, <<Init1(q)>>)
           /\ r.t \in Tunns /\ Started(q, r.t, n)
    BY <2>1, <2>2, InitiationFacts
  <2> HIDE DEF r
  <2>4. CASE r = Ignored(q) /\ is_in_progress(q)
    <3>1. r.t = q
      BY <2>4 DEF Ignored, Result
    <3> QED
      BY <2>2, <2>4, <3>1 DEF r, SameButQueue, is_in_progress
  <2> QED
    BY <2>2, <2>3, <2>4 DEF r
<1> QED
  BY <1>1, <1>2

(***************************************************************************)
(* Steps.                                                                  *)
(***************************************************************************)
\* The duration constants are positive.
LEMMA Durations ==
  /\ \A x \in {REKEY_AFTER_TIME, REJECT_AFTER_TIME, REKEY_ATTEMPT_TIME, REKEY_TIMEOUT,
               KEEPALIVE_TIMEOUT, COOKIE_EXPIRATION_TIME} : x \in Nat /\ x > 0
  /\ PERSISTENT_KEEPALIVE \in Nat
  BY TunnAssumption DEF TunnAssumption

\* What a step leaves to its method: the rest changes as little as this.
Rest ==
  /\ now' = now /\ flushing' \in BOOLEAN /\ events' \in Nat
  /\ peer_ephs' \in Nat /\ peer_ephs <= peer_ephs'

\* What Perform writes in the log.
LEMMA LogFacts ==
  ASSUME TypeOK, NEW r, NEW heard \in BOOLEAN, Perform(r, heard)
  PROVE  /\ t' = r.t /\ log' \in LogType
         /\ log'.heard = IF heard THEN now ELSE log.heard
         /\ log'.sent = IF r.out # <<>> THEN now ELSE log.sent
         /\ r.out = <<>> =>
              log'.unanswered = IF is_expired(r.t) \/ heard THEN 0 ELSE log.unanswered
         /\ \A m : r.out = <<m>> =>
              log'.unanswered = IF is_expired(r.t) THEN 0 ELSE IF IsPacket(m) THEN now
                                ELSE IF heard THEN 0 ELSE log.unanswered
         /\ log'.owed = IF is_expired(r.t) \/ r.out # <<>> THEN 0
                        ELSE IF r.up # NoPacket THEN now ELSE log.owed
         /\ log'.attempt = IF ~is_in_progress(t) THEN now ELSE log.attempt
         /\ \A i \in Slots :
              log'.born[i] = IF SessionKey(r.t, i) # SessionKey(t, i) THEN now ELSE log.born[i]
<1> DEFINE data == \E i \in 1..Len(r.out) : IsPacket(r.out[i])
           born == [i \in Slots |->
                      IF SessionKey(r.t, i) # SessionKey(t, i) THEN now ELSE log.born[i]]
           l == [heard |-> IF heard THEN now ELSE log.heard,
                 sent |-> IF r.out # <<>> THEN now ELSE log.sent,
                 unanswered |-> IF is_expired(r.t) THEN 0
                                ELSE IF data THEN now ELSE IF heard THEN 0 ELSE log.unanswered,
                 owed |-> IF is_expired(r.t) \/ r.out # <<>> THEN 0
                          ELSE IF r.up # NoPacket THEN now ELSE log.owed,
                 attempt |-> IF ~is_in_progress(t) THEN now ELSE log.attempt,
                 born |-> born]
<1>1. t' = r.t /\ log' = l
  BY DEF Perform
<1>2. now \in Nat /\ log \in LogType
  BY DEF TypeOK
<1>3. born \in [Slots -> Nat]
  BY <1>2 DEF LogType
<1>4. /\ r.out = <<>> => ~data
      /\ \A m : r.out = <<m>> => (data <=> IsPacket(m))
  <2>1. \A m : Len(<<m>>) = 1 /\ <<m>>[1] = m
    OBVIOUS
  <2>2. Len(<<>>) = 0
    OBVIOUS
  <2> QED
    BY <2>1, <2>2
<1> HIDE DEF data
<1>5. l \in LogType
  <2> HIDE DEF born
  <2> QED
    BY <1>2, <1>3 DEF LogType
<1> QED
  BY <1>1, <1>4, <1>5

\* A tunnel that t has become in the course of a method, before anything was sent:
\* sessions may have gone and the clock may have been set.
From(c) ==
  /\ c \in Tunns /\ c.me = Us /\ c.state = t.state
  /\ \A i \in Slots : c.sessions[i] \in {t.sessions[i], NoSession}
  /\ Timely(c, now, peer_ephs, log)

\* Sessions that keep their keys keep their times of birth in the log.
LEMMA BornFacts ==
  ASSUME TypeOK, NEW c, From(c), NEW v, Alive(v) = Alive(c),
         \A i \in Alive(c) : v.sessions[i].key = c.sessions[i].key
  PROVE  \A i \in Alive(v) : SessionKey(v, i) = SessionKey(t, i)
  BY DEF From, Alive, SessionKey

\* The step sends nothing, hears nothing and leaves handshakes, sessions and timers.
LEMMA NothingKeeps ==
  ASSUME TypeOK, Rest, NEW c, From(c), NEW v \in Tunns, NEW r, r = Ignored(v), Perform(r, FALSE),
         v.me = Us, v.state = c.state, v.sessions = c.sessions, v.time = c.time,
         v.session_time = c.session_time, GaveUpAll(v), Wanting(v, log), Bounded(v, log)
  PROVE  IInv'
<1>1. r.t = v /\ r.out = <<>> /\ r.up = NoPacket
  BY DEF Ignored, Result
<1> HIDE DEF Perform
<1>2. /\ t' = v /\ log' \in LogType /\ now' = now
      /\ log'.heard = log.heard /\ log'.sent = log.sent
      /\ log'.unanswered = IF is_expired(v) THEN 0 ELSE log.unanswered
      /\ log'.owed = IF is_expired(v) THEN 0 ELSE log.owed
      /\ log'.attempt = IF ~is_in_progress(t) THEN now ELSE log.attempt
      /\ \A i \in Slots :
           log'.born[i] = IF SessionKey(v, i) # SessionKey(t, i) THEN now ELSE log.born[i]
  BY <1>1, LogFacts, ZenonT(60) DEF Rest
<1>3. Alive(v) = Alive(c) /\ \A i \in Alive(v) : log'.born[i] = log.born[i]
  BY <1>2, BornFacts DEF Alive
<1>4. TypeOK'
  BY <1>2 DEF TypeOK, Rest
<1>5. is_in_progress(v) => is_in_progress(t)
  BY DEF is_in_progress, From
<1>t. /\ peer_ephs \in Nat /\ peer_ephs' \in Nat /\ peer_ephs <= peer_ephs'
      /\ \A i \in Alive(c) : c.sessions[i].key.init \in Nat /\ c.sessions[i].key.resp \in Nat
  BY DEF TypeOK, Rest, From, Alive, Tunns, Tunnels, Sessions, Keys
<1>6. Clocked(v, now) /\ NotLater(log', now)
  BY <1>2 DEF From, Timely, Clocked, NotLater
<1>7. KeysUsed(v, peer_ephs')
  BY <1>3, <1>t DEF From, Timely, KeysUsed
<1>8. Young(v, log')
  BY <1>3 DEF From, Timely, Young
<1>9. Attempting(v, log') /\ SentSince(v, log')
  BY <1>2, <1>5 DEF From, Timely, Attempting, SentSince, is_in_progress, is_expired
<1>10. HeardSince(v, log')
  BY <1>2, <1>3 DEF From, Timely, HeardSince
<1>11. Awaiting(v, log') /\ Owing(v, log')
  BY <1>2 DEF From, Timely, Awaiting, Owing, is_expired
<1>12. Wanting(v, log') /\ Bounded(v, log')
  BY <1>2 DEF Wanting, Bounded
<1> QED
  BY <1>2, <1>4, <1>6, <1>7, <1>8, <1>9, <1>10, <1>11, <1>12 DEF IInv, Timely

\* The times after a tick of timers that exist.
LEMMA TickedTimes ==
  ASSUME NEW u \in Tunns, NEW v, NEW S, Ticked(u, v, S)
  PROVE  /\ \A x \in TimerNames : v.time[x] = IF x \in S THEN u.time.TimeCurrent ELSE u.time[x]
         /\ v.time.TimeCurrent = u.time.TimeCurrent
         /\ u.time.TimeCurrent \in Nat /\ \A x \in TimerNames : u.time[x] \in Nat
  BY DEF Ticked, TimerNames, Tunns, Tunnels

\* An initiation is made; what was wanted is being pursued.
LEMMA StartedKeeps ==
  ASSUME TypeOK, Rest, NEW c, From(c), NEW q \in Tunns, NEW v \in Tunns, NEW r, NEW S,
         r = Result(v, <<Init1(q)>>), Perform(r, FALSE), Started(q, v, now),
         q.me = c.me, q.state = c.state, q.sessions = c.sessions, q.session_time = c.session_time,
         Ticked(c, q, S), S \in SUBSET {"TimePersistentKeepalive"},
         is_in_progress(c) =>
           c.time.TimeCurrent - c.time.TimeLastHandshakeStarted < REKEY_ATTEMPT_TIME
  PROVE  IInv'
<1>1. r.t = v /\ r.out = <<Init1(q)>> /\ r.up = NoPacket
  BY DEF Result
<1>2. ~IsPacket(Init1(q)) /\ r.out # <<>>
  BY <1>1 DEF IsPacket, Init1
<1>s. IsInitSent(v.state) /\ v.state.time_sent = now /\ v.sessions = c.sessions
        /\ v.session_time = c.session_time /\ v.me = Us
  BY DEF Started, From
<1>3. ~is_expired(v) /\ is_in_progress(v)
  BY <1>s, StatesDiffer DEF is_expired, is_in_progress
<1> HIDE DEF Perform
<1>4. /\ t' = v /\ log' \in LogType /\ now' = now
      /\ log'.heard = log.heard /\ log'.sent = now
      /\ log'.unanswered = log.unanswered /\ log'.owed = 0
      /\ log'.attempt = IF ~is_in_progress(t) THEN now ELSE log.attempt
      /\ \A i \in Slots :
           log'.born[i] = IF SessionKey(v, i) # SessionKey(t, i) THEN now ELSE log.born[i]
  BY <1>1, <1>2, <1>3, LogFacts, ZenonT(40) DEF Rest
<1>5. Alive(v) = Alive(c) /\ \A i \in Alive(v) : log'.born[i] = log.born[i]
  BY <1>4, <1>s, BornFacts DEF Alive
<1>6. TypeOK'
  BY <1>4, <1>s DEF TypeOK, Rest
<1>t. /\ peer_ephs \in Nat /\ peer_ephs' \in Nat /\ peer_ephs <= peer_ephs' /\ now \in Nat
      /\ \A i \in Alive(c) : c.sessions[i].key.init \in Nat /\ c.sessions[i].key.resp \in Nat
  BY DEF TypeOK, Rest, From, Alive, Tunns, Tunnels, Sessions, Keys
<1>q. /\ \A x \in TimerNames :
           q.time[x] = IF x \in S THEN c.time.TimeCurrent ELSE c.time[x]
      /\ q.time.TimeCurrent = c.time.TimeCurrent
      /\ c.time.TimeCurrent \in Nat /\ \A x \in TimerNames : c.time[x] \in Nat
  BY TickedTimes DEF From
<1>e. CASE is_expired(c)
  <2>1. \A x \in TimerNames : v.time[x] = now
    BY <1>e DEF Started, is_expired
  <2>2. v.time.TimeCurrent = now /\ v.time.TimeLastHandshakeStarted = now
          /\ v.time.TimeLastPacketReceived = now /\ v.time.TimePersistentKeepalive = now
          /\ v.time.TimeLastPacketSent = now
    BY <2>1 DEF TimerNames
  <2>3. Alive(v) = {} /\ log.unanswered = 0
    BY <1>5, <1>e DEF From, Timely, GaveUpAll, Awaiting
  <2>4. ~is_in_progress(t)
    BY <1>e, StatesDiffer DEF From, is_expired, is_in_progress
  <2>5. Clocked(v, now)
    <3>1. /\ c.time.TimeCurrent <= now
          /\ \A i \in Slots : c.session_time[i] <= c.time.TimeCurrent
      BY DEF From, Timely, Clocked
    <3>2. \A i \in Slots : c.session_time[i] \in Nat
      BY DEF From, Tunns, Tunnels
    <3>3. \A i \in Slots : c.session_time[i] <= now
      BY <1>q, <1>t, <3>1, <3>2
    <3>4. now - 1 <= now /\ now <= now
      BY <1>t
    <3> QED
      BY <1>s, <2>1, <2>2, <3>3, <3>4 DEF Clocked
  <2>6. /\ NotLater(log', now) /\ KeysUsed(v, peer_ephs') /\ Young(v, log') /\ GaveUpAll(v)
        /\ HeardSince(v, log') /\ Awaiting(v, log') /\ Owing(v, log') /\ Wanting(v, log')
    BY <1>3, <1>4, <1>t, <2>3 DEF From, Timely, NotLater, KeysUsed, Young, GaveUpAll, HeardSince,
         Awaiting, Owing, Wanting
  <2>7. Attempting(v, log') /\ SentSince(v, log')
    BY <1>s, <1>4, <1>t, <2>2, <2>4 DEF Attempting, SentSince
  <2>8. Bounded(v, log')
    BY <1>s, <1>3, <1>4, <1>t, <2>2, Durations DEF Bounded
  <2> QED
    BY <1>4, <1>6, <2>5, <2>6, <2>7, <2>8 DEF IInv, Timely
<1>p. CASE ~is_expired(c)
  <2> DEFINE R == IF is_in_progress(q) THEN {"TimeLastPacketSent"}
                  ELSE {"TimeLastHandshakeStarted", "TimeLastPacketSent"}
  <2>1. Ticked(q, v, R)
    BY <1>p DEF Started, is_expired
  <2>2. /\ \A x \in TimerNames :
             v.time[x] = IF x \in R THEN q.time.TimeCurrent ELSE q.time[x]
        /\ v.time.TimeCurrent = q.time.TimeCurrent
    BY <2>1, TickedTimes
  <2>3. /\ v.time.TimeLastPacketSent = c.time.TimeCurrent
        /\ v.time.TimePersistentKeepalive \in
             {c.time.TimeCurrent, c.time.TimePersistentKeepalive}
        /\ v.time.TimeLastPacketReceived = c.time.TimeLastPacketReceived
        /\ v.time.TimeLastDataPacketSent = c.time.TimeLastDataPacketSent
        /\ v.time.TimeLastHandshakeStarted =
             IF is_in_progress(c) THEN c.time.TimeLastHandshakeStarted ELSE c.time.TimeCurrent
        /\ v.time.TimeCurrent = c.time.TimeCurrent
    BY <1>q, <2>2 DEF TimerNames, is_in_progress
  <2>4. /\ c.time.TimeCurrent <= now /\ now - 1 <= c.time.TimeCurrent
        /\ \A x \in TimerNames : c.time[x] <= c.time.TimeCurrent
    BY DEF From, Timely, Clocked
  <2>n. {"TimeCurrent", "TimeLastHandshakeStarted", "TimeLastPacketReceived",
         "TimeLastPacketSent", "TimeLastDataPacketSent", "TimePersistentKeepalive"}
          \subseteq TimerNames
    BY DEF TimerNames
  <2>5. Clocked(v, now)
    <3>1. \A x \in TimerNames : v.time[x] <= v.time.TimeCurrent
      BY <1>q, <2>2, <2>4
    <3> QED
      BY <1>s, <2>3, <2>4, <3>1 DEF From, Timely, Clocked
  <2>6. KeysUsed(v, peer_ephs')
    BY <1>5, <1>s, <1>t DEF From, Timely, KeysUsed
  <2>7. Young(v, log')
    BY <1>5, <1>s, <2>3 DEF From, Timely, Young
  <2>8. Attempting(v, log')
    <3>1. is_in_progress(t) <=> is_in_progress(c)
      BY DEF From, is_in_progress
    <3> QED
      BY <1>s, <1>4, <1>t, <2>3, <2>4, <3>1 DEF From, Timely, Attempting
  <2>9. SentSince(v, log') /\ HeardSince(v, log') /\ Awaiting(v, log')
    <3>1. c.time.TimePersistentKeepalive <= now
      BY <1>q, <1>t, <2>4, <2>n
    <3> QED
      BY <1>3, <1>4, <1>5, <2>3, <2>4, <3>1 DEF From, Timely, SentSince, HeardSince, Awaiting
  <2>10. NotLater(log', now) /\ GaveUpAll(v) /\ Owing(v, log') /\ Wanting(v, log')
    BY <1>3, <1>4, <1>t DEF From, Timely, NotLater, GaveUpAll, Owing, Wanting
  <2>11. Bounded(v, log')
    BY <1>s, <1>3, <1>4, <1>t, <1>q, <2>3, <2>4, Durations DEF Bounded
  <2> QED
    BY <1>4, <1>6, <2>5, <2>6, <2>7, <2>8, <2>9, <2>10, <2>11 DEF IInv, Timely
<1> QED
  BY <1>e, <1>p

\* The numbers of a tunnel that t has become, and their order.
LEMMA FromFacts ==
  ASSUME TypeOK, NEW c, From(c)
  PROVE  /\ now \in Nat /\ peer_ephs \in Nat /\ log \in LogType
         /\ log.heard \in Nat /\ log.sent \in Nat /\ log.unanswered \in Nat /\ log.owed \in Nat
         /\ log.attempt \in Nat /\ log.born \in [Slots -> Nat]
         /\ \A x \in TimerNames : c.time[x] \in Nat /\ c.time[x] <= c.time.TimeCurrent
         /\ c.time.TimeCurrent \in Nat
         /\ c.time.TimeCurrent <= now /\ now - 1 <= c.time.TimeCurrent
         /\ \A i \in Slots : c.session_time[i] \in Nat /\ c.session_time[i] <= c.time.TimeCurrent
         /\ \A i \in Alive(c) : c.sessions[i].key \in Keys(Ends)
         /\ is_in_progress(c) => c.state.time_sent \in Nat
<1>1. now \in Nat /\ peer_ephs \in Nat /\ log \in LogType
  BY DEF TypeOK
<1>2. /\ log.heard \in Nat /\ log.sent \in Nat /\ log.unanswered \in Nat /\ log.owed \in Nat
      /\ log.attempt \in Nat /\ log.born \in [Slots -> Nat]
  BY <1>1 DEF LogType
<1>3. c \in Tunns /\ Clocked(c, now)
  BY DEF From, Timely
<1>4. /\ \A x \in TimerNames : c.time[x] \in Nat
      /\ \A i \in Slots : c.session_time[i] \in Nat
  BY <1>3 DEF Tunns, Tunnels
<1>5. c.time.TimeCurrent \in Nat
  BY <1>4 DEF TimerNames
<1>6. \A i \in Alive(c) : c.sessions[i].key \in Keys(Ends)
  BY <1>3 DEF Alive, Tunns, Tunnels, Sessions
<1>7. is_in_progress(c) => c.state.time_sent \in Nat
  BY <1>3, StateType DEF is_in_progress, Tunns, Tunnels
<1> QED
  BY <1>1, <1>2, <1>3, <1>4, <1>5, <1>6, <1>7 DEF Clocked

\* The timers that the properties speak of are timers.
LEMMA TimerNamesFacts ==
  {"TimeCurrent", "TimeLastHandshakeStarted", "TimeLastPacketReceived", "TimeLastPacketSent",
   "TimeLastDataPacketSent", "TimeLastDataPacketReceived", "TimePersistentKeepalive"}
    \subseteq TimerNames
  BY DEF TimerNames

\* Ticks keep the clock: no timer is later than the last tick.
LEMMA TickedClocked ==
  ASSUME TypeOK, NEW c, From(c), NEW v, NEW S, Ticked(c, v, S),
         \A i \in Slots : v.session_time[i] \in {c.session_time[i], c.time.TimeCurrent}
  PROVE  Clocked(v, now)
<1>1. /\ \A x \in TimerNames : v.time[x] = IF x \in S THEN c.time.TimeCurrent ELSE c.time[x]
      /\ v.time.TimeCurrent = c.time.TimeCurrent
  BY TickedTimes DEF From
<1>2. \A x \in TimerNames : v.time[x] <= v.time.TimeCurrent
  BY <1>1, FromFacts
<1>3. \A i \in Slots : v.session_time[i] <= v.time.TimeCurrent
  BY <1>1, FromFacts
<1> QED
  BY <1>1, <1>2, <1>3, FromFacts DEF Clocked

\* The attempt in progress, if there is one, is not over yet.
Unfinished(u) ==
  is_in_progress(u) =>
    /\ u.time.TimeCurrent - u.time.TimeLastHandshakeStarted < REKEY_ATTEMPT_TIME
    /\ u.time.TimeCurrent - u.state.time_sent < REKEY_TIMEOUT

\* A session sealed a datagram.
LEMMA SpokeKeeps ==
  ASSUME TypeOK, Rest, NEW c, From(c), NEW v \in Tunns, NEW r, NEW m, NEW S,
         r = Result(v, <<m>>), m.type = "data", Perform(r, FALSE), Alive(c) # {},
         Spoke(c, v, S), "TimeLastPacketSent" \in S,
         S \subseteq {"TimeLastPacketSent", "TimeLastDataPacketSent", "TimePersistentKeepalive"},
         m.packet # Keepalive => "TimeLastDataPacketSent" \in S,
         v.want_handshake, Unfinished(c)
  PROVE  IInv'
<1>1. r.t = v /\ r.out = <<m>> /\ r.out # <<>> /\ r.up = NoPacket
  BY DEF Result
<1>2. v.me = Us /\ v.state = t.state /\ v.state = c.state /\ v.session_time = c.session_time
  BY DEF Spoke, From
<1>3. ~is_expired(c) /\ ~is_expired(v)
  BY <1>2 DEF From, Timely, GaveUpAll, is_expired
<1>4. /\ is_in_progress(v) <=> is_in_progress(t)
      /\ is_in_progress(v) <=> is_in_progress(c)
  BY <1>2 DEF is_in_progress
<1> HIDE DEF Perform
<1>5. /\ t' = v /\ log' \in LogType /\ now' = now
      /\ log'.heard = log.heard /\ log'.sent = now /\ log'.owed = 0
      /\ log'.unanswered = IF IsPacket(m) THEN now ELSE log.unanswered
      /\ log'.attempt = IF ~is_in_progress(t) THEN now ELSE log.attempt
      /\ \A i \in Slots :
           log'.born[i] = IF SessionKey(v, i) # SessionKey(t, i) THEN now ELSE log.born[i]
  <2>1. FALSE \in BOOLEAN /\ Perform(r, FALSE)
    OBVIOUS
  <2>2. log'.unanswered = IF is_expired(r.t) THEN 0 ELSE IF IsPacket(m) THEN now
                          ELSE IF FALSE THEN 0 ELSE log.unanswered
    BY <1>1, <2>1, LogFacts, ZenonT(40)
  <2>3. /\ t' = r.t /\ log' \in LogType /\ log'.heard = log.heard
        /\ log'.sent = IF r.out # <<>> THEN now ELSE log.sent
        /\ log'.attempt = IF ~is_in_progress(t) THEN now ELSE log.attempt
    BY <2>1, LogFacts
  <2>4. log'.owed = IF is_expired(r.t) \/ r.out # <<>> THEN 0
                    ELSE IF r.up # NoPacket THEN now ELSE log.owed
    BY <2>1, LogFacts
  <2>5. \A i \in Slots :
          log'.born[i] = IF SessionKey(r.t, i) # SessionKey(t, i) THEN now ELSE log.born[i]
    BY <2>1, LogFacts
  <2> QED
    BY <1>1, <1>3, <2>2, <2>3, <2>4, <2>5 DEF Rest
<1>6. /\ Alive(v) = Alive(c) /\ \A i \in Alive(c) : v.sessions[i].key = c.sessions[i].key
      /\ Alive(c) \subseteq Slots
  BY DEF Spoke, Alive
<1>7. \A i \in Alive(v) : log'.born[i] = log.born[i]
  BY <1>5, <1>6, BornFacts
<1>8. TypeOK'
  BY <1>2, <1>5 DEF TypeOK, Rest
<1>9. /\ v.time.TimeLastPacketSent = c.time.TimeCurrent
      /\ v.time.TimePersistentKeepalive \in
           {c.time.TimeCurrent, c.time.TimePersistentKeepalive}
      /\ v.time.TimeLastPacketReceived = c.time.TimeLastPacketReceived
      /\ v.time.TimeLastDataPacketSent \in
           {c.time.TimeCurrent, c.time.TimeLastDataPacketSent}
      /\ m.packet # Keepalive => v.time.TimeLastDataPacketSent = c.time.TimeCurrent
      /\ v.time.TimeLastHandshakeStarted = c.time.TimeLastHandshakeStarted
      /\ v.time.TimeCurrent = c.time.TimeCurrent
  <2>1. /\ \A x \in TimerNames : v.time[x] = IF x \in S THEN c.time.TimeCurrent ELSE c.time[x]
        /\ v.time.TimeCurrent = c.time.TimeCurrent
    BY TickedTimes DEF From, Spoke
  <2> QED
    BY <2>1, TimerNamesFacts
<1>10. /\ peer_ephs' \in Nat /\ peer_ephs <= peer_ephs'
       /\ \A i \in Alive(c) : c.sessions[i].key.init \in Nat /\ c.sessions[i].key.resp \in Nat
  BY FromFacts DEF Rest, Keys
<1>11. Clocked(v, now)
  BY <1>2, TickedClocked DEF Spoke
<1>12. KeysUsed(v, peer_ephs')
  BY <1>6, <1>10, FromFacts DEF From, Timely, KeysUsed
<1>13. Young(v, log')
  BY <1>2, <1>6, <1>7, <1>9 DEF From, Timely, Young
<1>14. Attempting(v, log')
  BY <1>2, <1>4, <1>5, <1>9, FromFacts DEF From, Timely, Attempting, NotLater
<1>15. SentSince(v, log') /\ HeardSince(v, log')
  <2>1. c.time.TimePersistentKeepalive <= now
    BY FromFacts, TimerNamesFacts
  <2>2. c.time.TimeLastPacketReceived <= log.heard
    BY DEF From, Timely, HeardSince
  <2> QED
    BY <1>5, <1>9, <2>1, <2>2, FromFacts DEF SentSince, HeardSince
<1>16. Awaiting(v, log')
  <2>1. log'.unanswered # 0 => v.time.TimeLastDataPacketSent >= log'.unanswered - 1
    <3>1. CASE IsPacket(m)
      BY <1>5, <1>9, <3>1, FromFacts DEF IsPacket
    <3>2. CASE ~IsPacket(m)
      <4>1. /\ log.unanswered # 0 => c.time.TimeLastDataPacketSent >= log.unanswered - 1
            /\ c.time.TimeLastDataPacketSent <= c.time.TimeCurrent
            /\ c.time.TimeLastDataPacketSent \in Nat
        BY FromFacts, TimerNamesFacts DEF From, Timely, Awaiting
      <4> QED
        BY <1>5, <1>9, <3>2, <4>1, FromFacts
    <3> QED
      BY <3>1, <3>2
  <2> QED
    BY <1>3, <2>1 DEF Awaiting
<1>17. NotLater(log', now) /\ GaveUpAll(v) /\ Owing(v, log') /\ Wanting(v, log')
  BY <1>3, <1>5, FromFacts DEF From, Timely, NotLater, GaveUpAll, Owing, Wanting
<1>18. Bounded(v, log')
  <2>1. is_in_progress(v) =>
          /\ v.time.TimeCurrent - v.time.TimeLastHandshakeStarted < REKEY_ATTEMPT_TIME
          /\ v.time.TimeCurrent - v.state.time_sent < REKEY_TIMEOUT
    BY <1>2, <1>4, <1>9 DEF Unfinished
  <2>2. PERSISTENT_KEEPALIVE > 0 => v.time.TimeCurrent - log'.sent < PERSISTENT_KEEPALIVE
    BY <1>5, <1>9, FromFacts, Durations
  <2> QED
    BY <2>1, <2>2 DEF Bounded
<1> QED
  BY <1>5, <1>8, <1>11, <1>12, <1>13, <1>14, <1>15, <1>16, <1>17, <1>18 DEF IInv, Timely

\* Between its methods the tunnel is one that t has become.
LEMMA FromSelf == IInv => TypeOK /\ From(t) /\ Unfinished(t)
  BY DEF IInv, TypeOK, From, Unfinished, Bounded

\* A datagram was heard and nothing is sent: handshakes and sessions stay.
LEMMA HeardKeeps ==
  ASSUME IInv, Rest, NEW v \in Tunns, NEW r, NEW S,
         r.t = v, r.out = <<>>, Perform(r, TRUE),
         v.me = Us, v.state = t.state, v.previous = t.previous, v.queue = t.queue,
         v.session_time = t.session_time,
         Alive(v) = Alive(t), \A i \in Alive(t) : v.sessions[i].key = t.sessions[i].key,
         Ticked(t, v, S), "TimeLastPacketReceived" \in S,
         S \subseteq {"TimeLastPacketReceived", "TimeLastDataPacketReceived",
                      "TimeCookieReceived"},
         v.want_keepalive,
         r.up # NoPacket => "TimeLastDataPacketReceived" \in S /\ ~is_expired(t)
  PROVE  IInv'
<1>1. TypeOK /\ From(t) /\ Unfinished(t)
  BY FromSelf
<1>2. /\ is_in_progress(v) <=> is_in_progress(t)
      /\ is_expired(v) <=> is_expired(t)
  BY DEF is_in_progress, is_expired
<1> HIDE DEF Perform
<1>3. /\ t' = v /\ log' \in LogType /\ now' = now
      /\ log'.heard = now /\ log'.sent = log.sent /\ log'.unanswered = 0
      /\ log'.owed = IF is_expired(t) THEN 0 ELSE IF r.up # NoPacket THEN now ELSE log.owed
      /\ log'.attempt = IF ~is_in_progress(t) THEN now ELSE log.attempt
      /\ \A i \in Slots :
           log'.born[i] = IF SessionKey(v, i) # SessionKey(t, i) THEN now ELSE log.born[i]
  <2>1. TRUE \in BOOLEAN
    OBVIOUS
  <2>2. /\ t' = r.t /\ log' \in LogType /\ log'.heard = now
        /\ log'.sent = IF r.out # <<>> THEN now ELSE log.sent
        /\ log'.attempt = IF ~is_in_progress(t) THEN now ELSE log.attempt
    BY <1>1, <2>1, LogFacts
  <2>3. log'.owed = IF is_expired(r.t) \/ r.out # <<>> THEN 0
                    ELSE IF r.up # NoPacket THEN now ELSE log.owed
    BY <1>1, <2>1, LogFacts
  <2>4. \A i \in Slots :
          log'.born[i] = IF SessionKey(r.t, i) # SessionKey(t, i) THEN now ELSE log.born[i]
    BY <1>1, <2>1, LogFacts
  <2>5. log'.unanswered = IF is_expired(r.t) \/ TRUE THEN 0 ELSE log.unanswered
    BY <1>1, <2>1, LogFacts
  <2> QED
    BY <1>2, <2>2, <2>3, <2>4, <2>5 DEF Rest
<1>4. Alive(t) \subseteq Slots /\ \A i \in Alive(v) : log'.born[i] = log.born[i]
  BY <1>1, <1>3, BornFacts DEF Alive
<1>5. TypeOK'
  BY <1>1, <1>3 DEF TypeOK, Rest
<1>6. /\ v.time.TimeLastPacketReceived = t.time.TimeCurrent
      /\ v.time.TimePersistentKeepalive = t.time.TimePersistentKeepalive
      /\ v.time.TimeLastPacketSent = t.time.TimeLastPacketSent
      /\ v.time.TimeLastDataPacketReceived \in
           {t.time.TimeCurrent, t.time.TimeLastDataPacketReceived}
      /\ r.up # NoPacket => v.time.TimeLastDataPacketReceived = t.time.TimeCurrent
      /\ v.time.TimeLastHandshakeStarted = t.time.TimeLastHandshakeStarted
      /\ v.time.TimeCurrent = t.time.TimeCurrent
  <2>1. /\ \A x \in TimerNames : v.time[x] = IF x \in S THEN t.time.TimeCurrent ELSE t.time[x]
        /\ v.time.TimeCurrent = t.time.TimeCurrent
    BY <1>1, TickedTimes DEF From
  <2> QED
    BY <2>1, TimerNamesFacts
<1>7. Clocked(v, now)
  BY <1>1, TickedClocked
<1>8. KeysUsed(v, peer_ephs')
  <2>1. /\ peer_ephs' \in Nat /\ peer_ephs <= peer_ephs' /\ peer_ephs \in Nat
        /\ \A i \in Alive(t) : t.sessions[i].key.init \in Nat /\ t.sessions[i].key.resp \in Nat
    BY <1>1, FromFacts DEF Rest, Keys
  <2> QED
    BY <1>1, <1>4, <2>1, SMTT(30) DEF From, Timely, KeysUsed
<1>9. Young(v, log')
  BY <1>1, <1>4, <1>6 DEF From, Timely, Young
<1>10. Attempting(v, log') /\ SentSince(v, log')
  BY <1>1, <1>2, <1>3, <1>6 DEF From, Timely, Attempting, SentSince
<1>11. HeardSince(v, log')
  BY <1>1, <1>3, <1>6, FromFacts DEF HeardSince
<1>12. Awaiting(v, log') /\ NotLater(log', now)
  BY <1>1, <1>3, FromFacts DEF From, Timely, NotLater, Awaiting
<1>13. GaveUpAll(v)
  BY <1>1, <1>2 DEF From, Timely, GaveUpAll
<1>14. Owing(v, log')
  <2>1. /\ t.time.TimeLastDataPacketReceived \in Nat
        /\ t.time.TimeLastDataPacketReceived <= t.time.TimeCurrent
    BY <1>1, FromFacts, TimerNamesFacts
  <2>2. CASE r.up # NoPacket
    BY <1>1, <1>2, <1>3, <1>6, <2>2, FromFacts DEF Owing
  <2>3. CASE r.up = NoPacket
    BY <1>1, <1>2, <1>3, <1>6, <2>1, <2>3, FromFacts, SMTT(30) DEF From, Timely, Owing
  <2> QED
    BY <2>2, <2>3
<1>15. Wanting(v, log')
  BY <1>3 DEF Wanting
<1>16. Bounded(v, log')
  BY <1>2, <1>3, <1>6 DEF IInv, Bounded
<1> QED
  BY <1>3, <1>5, <1>7, <1>8, <1>9, <1>10, <1>11, <1>12, <1>13, <1>14, <1>15, <1>16
    DEF IInv, Timely

\* A session of a new key takes a slot, and a datagram that is not data is sent.
LEMMA NewSessionKeeps ==
  ASSUME IInv, Rest, peer_ephs' = peer_ephs + 1, NEW v \in Tunns, NEW r, NEW m, NEW S,
         NEW i \in Slots, r = Result(v, <<m>>), ~IsPacket(m), Perform(r, TRUE),
         v.me = Us, v.state \in {None, t.state}, ~is_expired(v),
         v.sessions[i] # NoSession, \A j \in Slots \ {i} : v.sessions[j] = t.sessions[j],
         LET key == v.sessions[i].key
         IN  IF key.initiator = Us THEN key.resp = peer_ephs + 1 ELSE key.init = peer_ephs + 1,
         v.session_time = [t.session_time EXCEPT ![i] = t.time.TimeCurrent],
         Ticked(t, v, S), "TimeLastPacketReceived" \in S,
         S \subseteq {"TimeLastPacketReceived", "TimeLastPacketSent", "TimeSessionEstablished"}
  PROVE  IInv'
<1>1. TypeOK /\ From(t) /\ Unfinished(t)
  BY FromSelf
<1>2. is_in_progress(v) => v.state = t.state /\ is_in_progress(t)
  BY StatesDiffer DEF is_in_progress
<1> HIDE DEF Perform
<1>3. /\ t' = v /\ log' \in LogType /\ now' = now
      /\ log'.heard = now /\ log'.sent = now /\ log'.unanswered = 0 /\ log'.owed = 0
      /\ log'.attempt = IF ~is_in_progress(t) THEN now ELSE log.attempt
      /\ \A j \in Slots :
           log'.born[j] = IF SessionKey(v, j) # SessionKey(t, j) THEN now ELSE log.born[j]
  <2>1. TRUE \in BOOLEAN /\ r.t = v /\ r.out = <<m>> /\ r.out # <<>>
    BY DEF Result
  <2>2. /\ t' = r.t /\ log' \in LogType /\ log'.heard = now
        /\ log'.sent = IF r.out # <<>> THEN now ELSE log.sent
        /\ log'.attempt = IF ~is_in_progress(t) THEN now ELSE log.attempt
    BY <1>1, <2>1, LogFacts
  <2>3. log'.owed = IF is_expired(r.t) \/ r.out # <<>> THEN 0
                    ELSE IF r.up # NoPacket THEN now ELSE log.owed
    BY <1>1, <2>1, LogFacts
  <2>4. \A j \in Slots :
          log'.born[j] = IF SessionKey(r.t, j) # SessionKey(t, j) THEN now ELSE log.born[j]
    BY <1>1, <2>1, LogFacts
  <2>5. log'.unanswered = IF is_expired(r.t) THEN 0 ELSE IF IsPacket(m) THEN now
                          ELSE IF TRUE THEN 0 ELSE log.unanswered
    BY <1>1, <2>1, LogFacts
  <2> QED
    BY <2>1, <2>2, <2>3, <2>4, <2>5 DEF Rest
<1>4. Alive(v) \subseteq Slots /\ Alive(v) \subseteq Alive(t) \union {i}
  BY DEF Alive
<1>5. TypeOK'
  BY <1>1, <1>3 DEF TypeOK, Rest
<1>6. /\ v.time.TimeLastPacketReceived = t.time.TimeCurrent
      /\ v.time.TimePersistentKeepalive = t.time.TimePersistentKeepalive
      /\ v.time.TimeLastPacketSent \in {t.time.TimeCurrent, t.time.TimeLastPacketSent}
      /\ v.time.TimeLastHandshakeStarted = t.time.TimeLastHandshakeStarted
      /\ v.time.TimeCurrent = t.time.TimeCurrent
  <2>1. /\ \A x \in TimerNames : v.time[x] = IF x \in S THEN t.time.TimeCurrent ELSE t.time[x]
        /\ v.time.TimeCurrent = t.time.TimeCurrent
    BY <1>1, TickedTimes DEF From
  <2> QED
    BY <2>1, TimerNamesFacts
<1>7. /\ v.session_time[i] = t.time.TimeCurrent
      /\ \A j \in Slots \ {i} : v.session_time[j] = t.session_time[j]
  BY DEF Tunns, Tunnels, TypeOK, IInv
<1>8. Clocked(v, now)
  BY <1>1, <1>7, TickedClocked
<1>k. \A j \in Alive(t) : t.sessions[j].key.init \in Nat /\ t.sessions[j].key.resp \in Nat
  BY <1>1, FromFacts DEF Keys
<1>9. KeysUsed(v, peer_ephs')
  <2> SUFFICES ASSUME NEW j \in Alive(v)
               PROVE  LET key == v.sessions[j].key
                      IN  IF key.initiator = Us THEN key.resp <= peer_ephs'
                          ELSE key.init <= peer_ephs'
    BY DEF KeysUsed
  <2>1. CASE j = i
    BY <1>1, <2>1, FromFacts
  <2>2. CASE j # i
    <3>1. j \in Alive(t) /\ v.sessions[j] = t.sessions[j]
      BY <1>4, <2>2
    <3> QED
      BY <1>1, <1>k, <3>1, FromFacts DEF From, Timely, KeysUsed
  <2> QED
    BY <2>1, <2>2
<1>10. SessionKey(v, i) # SessionKey(t, i)
  <2>1. CASE i \in Alive(t)
    <3>1. /\ SessionKey(v, i) = v.sessions[i].key /\ SessionKey(t, i) = t.sessions[i].key
          /\ v.sessions[i].key = t.sessions[i].key =>
               IF t.sessions[i].key.initiator = Us THEN t.sessions[i].key.resp = peer_ephs + 1
               ELSE t.sessions[i].key.init = peer_ephs + 1
      BY <2>1 DEF SessionKey, Alive
    <3>2. IF t.sessions[i].key.initiator = Us THEN t.sessions[i].key.resp <= peer_ephs
          ELSE t.sessions[i].key.init <= peer_ephs
      BY <1>1, <2>1 DEF From, Timely, KeysUsed
    <3> QED
      BY <1>1, <1>k, <2>1, <3>1, <3>2, FromFacts
  <2>2. CASE i \notin Alive(t)
    <3>1. v.sessions[i].key \in Keys(Ends)
      BY <1>1 DEF Tunns, Tunnels, Sessions
    <3>2. v.sessions[i].key # NoSession
      BY <3>1 DEF Keys, NoSession
    <3> QED
      BY <2>2, <3>2 DEF SessionKey, Alive
  <2> QED
    BY <2>1, <2>2
<1>11. Young(v, log')
  <2> SUFFICES ASSUME NEW j \in Alive(v)
               PROVE  /\ v.session_time[j] <= log'.born[j]
                      /\ v.time.TimeCurrent - v.session_time[j] <= REJECT_AFTER_TIME
    BY DEF Young
  <2>1. CASE j = i
    BY <1>1, <1>3, <1>6, <1>7, <1>10, <2>1, FromFacts, Durations
  <2>2. CASE j # i
    <3>1. j \in Alive(t) /\ v.sessions[j] = t.sessions[j] /\ j \in Slots
      BY <1>4, <2>2
    <3>2. log'.born[j] = log.born[j]
      BY <1>3, <3>1 DEF SessionKey
    <3> QED
      BY <1>1, <1>6, <1>7, <2>2, <3>1, <3>2 DEF From, Timely, Young
  <2> QED
    BY <2>1, <2>2
<1>12. Attempting(v, log')
  <2>1. is_in_progress(t) =>
          t.time.TimeLastHandshakeStarted <= log.attempt /\ t.state.time_sent <= now
    BY <1>1, FromFacts DEF From, Timely, Attempting, NotLater
  <2> QED
    BY <1>2, <1>3, <1>6, <2>1 DEF Attempting
<1>13. SentSince(v, log') /\ HeardSince(v, log')
  <2>1. /\ t.time.TimePersistentKeepalive <= now /\ t.time.TimeLastPacketSent <= now
    BY <1>1, FromFacts, TimerNamesFacts
  <2> QED
    BY <1>1, <1>3, <1>6, <2>1, FromFacts DEF SentSince, HeardSince
<1>14. /\ NotLater(log', now) /\ GaveUpAll(v) /\ Awaiting(v, log') /\ Owing(v, log')
       /\ Wanting(v, log')
  BY <1>1, <1>3, FromFacts DEF NotLater, GaveUpAll, Awaiting, Owing, Wanting
<1>15. Bounded(v, log')
  BY <1>1, <1>2, <1>3, <1>6, FromFacts, Durations DEF Unfinished, Bounded
<1> QED
  BY <1>3, <1>5, <1>8, <1>9, <1>11, <1>12, <1>13, <1>14, <1>15 DEF IInv, Timely

\* The tunnel gives up.
LEMMA GiveUpKeeps ==
  ASSUME TypeOK, Rest, NEW c, From(c), NEW r, r = Ignored(give_up(c, now)), Perform(r, FALSE)
  PROVE  IInv'
<1> DEFINE v == give_up(c, now)
<1>1. /\ v \in Tunns /\ v.me = Us /\ v.state = Expired /\ v.previous = Expired
      /\ v.sessions = [i \in Slots |-> NoSession] /\ v.queue = <<>>
      /\ v.session_time = c.session_time /\ v.time = [x \in TimerNames |-> now]
  <2> DEFINE w == [c EXCEPT !.previous = Expired, !.state = Expired]
             k == [w EXCEPT !.sessions = [i \in Slots |-> NoSession], !.queue = <<>>]
  <2>1. w \in Tunns /\ w.me = Us /\ w.state = Expired /\ w.previous = Expired
          /\ w.session_time = c.session_time
    BY StatesDiffer DEF From, Tunns, Tunnels
  <2> HIDE DEF w
  <2>2. /\ k \in Tunns /\ k.me = Us /\ k.state = Expired /\ k.previous = Expired
        /\ k.sessions = [i \in Slots |-> NoSession] /\ k.queue = <<>>
        /\ k.session_time = c.session_time
    <3>1. /\ <<>> \in Seq(Nat)
          /\ [i \in Slots |-> NoSession] \in [Slots -> Sessions(Ends) \union {NoSession}]
      OBVIOUS
    <3> QED
      BY <2>1, <3>1 DEF Tunns, Tunnels
  <2> HIDE DEF k
  <2>3. v = clear(k, now)
    BY DEF give_up, clear_all, k, w
  <2> HIDE DEF v
  <2> QED
    BY <2>2, <2>3, ClearFacts DEF TypeOK, SameButTimes
<1> HIDE DEF v
<1>2. r.t = v /\ r.out = <<>> /\ r.up = NoPacket
  BY DEF v, Ignored, Result
<1>3. is_expired(v) /\ ~is_in_progress(v) /\ Alive(v) = {} /\ ~IsInitSent(v.previous)
  BY <1>1, StatesDiffer DEF is_expired, is_in_progress, Alive
<1> HIDE DEF Perform
<1>4. /\ t' = v /\ log' \in LogType /\ now' = now
      /\ log'.heard = log.heard /\ log'.sent = log.sent
      /\ log'.unanswered = 0 /\ log'.owed = 0
  <2>1. FALSE \in BOOLEAN /\ Perform(r, FALSE)
    OBVIOUS
  <2> QED
    BY <1>2, <1>3, <2>1, LogFacts DEF Rest
<1>5. TypeOK'
  BY <1>1, <1>4 DEF TypeOK, Rest
<1>6. v.time.TimeCurrent = now /\ \A x \in TimerNames : v.time[x] = now
  BY <1>1, TimerNamesFacts
<1>7. Clocked(v, now)
  <2>1. \A i \in Slots : v.session_time[i] <= now
    BY <1>1, FromFacts
  <2> QED
    BY <1>6, <2>1, FromFacts DEF Clocked
<1>8. /\ GaveUpAll(v) /\ KeysUsed(v, peer_ephs') /\ Young(v, log') /\ Attempting(v, log')
      /\ SentSince(v, log') /\ HeardSince(v, log') /\ Awaiting(v, log') /\ Owing(v, log')
      /\ Wanting(v, log') /\ Bounded(v, log') /\ NotLater(log', now)
  BY <1>1, <1>3, <1>4 DEF GaveUpAll, KeysUsed, Young, Attempting, SentSince, HeardSince,
       Awaiting, Owing, Wanting, Bounded, NotLater, From, Timely
<1> QED
  BY <1>4, <1>5, <1>7, <1>8 DEF IInv, Timely

(***************************************************************************)
(* Packets, and datagrams of the peer.                                     *)
(***************************************************************************)
\* A packet is encapsulated: one of the interface, or one from the queue.
LEMMA EncapsulatedKeeps ==
  ASSUME IInv, Rest, NEW p \in Tunns, SameButQueue(t, p), GaveUpAll(p), NEW packet \in Nat,
         Perform(encapsulate(p, packet, now), FALSE)
  PROVE  IInv'
<1> DEFINE r == encapsulate(p, packet, now)
<1> HIDE DEF r
<1>1. TypeOK /\ From(t) /\ Unfinished(t) /\ Perform(r, FALSE) /\ now \in Nat
  BY FromSelf DEF r, TypeOK
<1>2. /\ p.me = Us /\ p.sessions = t.sessions /\ p.session_time = t.session_time
      /\ p.state = t.state /\ p.time = t.time
      /\ p.want_handshake = t.want_handshake /\ p.want_keepalive = t.want_keepalive
  BY <1>1 DEF SameButQueue, From
<1>3. From(p) /\ Unfinished(p)
  <2>1. Alive(p) = Alive(t) /\ (is_expired(p) <=> is_expired(t))
          /\ (is_in_progress(p) <=> is_in_progress(t))
    BY <1>2 DEF Alive, is_expired, is_in_progress
  <2>2. Timely(p, now, peer_ephs, log)
    BY <1>1, <1>2, <2>1 DEF From, Timely, Clocked, KeysUsed, Young, Attempting, SentSince,
         HeardSince, NotLater, Awaiting, Owing
  <2> QED
    BY <1>1, <1>2, <2>1, <2>2 DEF From, Unfinished
<1>4. /\ r.t \in Tunns
      /\ \/ /\ Alive(p) # {} /\ \E slot \in Slots : r = Result(r.t, <<Data(p, slot, packet)>>)
            /\ Spoke(p, r.t, SentTimers(packet)) /\ r.t.want_handshake
         \/ r = Ignored(r.t) /\ is_in_progress(p) /\ SameButQueue(p, r.t)
         \/ \E q \in Tunns : /\ SameButQueue(p, q) /\ Started(q, r.t, now)
                             /\ r = Result(r.t, <<Init1(q)>>)
  BY <1>1, EncapsulateFacts DEF r
<1> DEFINE v == r.t
<1> HIDE DEF v
<1>5. ASSUME NEW slot \in Slots, r = Result(v, <<Data(p, slot, packet)>>), Alive(p) # {},
             Spoke(p, v, SentTimers(packet)), v.want_handshake
      PROVE  IInv'
  <2>1. Data(p, slot, packet).type = "data" /\ Data(p, slot, packet).packet = packet
    BY DEF Data
  <2>2. /\ "TimeLastPacketSent" \in SentTimers(packet)
        /\ SentTimers(packet) \subseteq
             {"TimeLastPacketSent", "TimeLastDataPacketSent", "TimePersistentKeepalive"}
        /\ packet # Keepalive => "TimeLastDataPacketSent" \in SentTimers(packet)
    BY DEF SentTimers
  <2> QED
    BY <1>1, <1>3, <1>4, <1>5, <2>1, <2>2, SpokeKeeps DEF v
<1>6. ASSUME r = Ignored(v), is_in_progress(p), SameButQueue(p, v)
      PROVE  IInv'
  <2>1. /\ v.me = Us /\ v.state = p.state /\ v.sessions = p.sessions /\ v.time = p.time
        /\ v.session_time = p.session_time
        /\ v.want_handshake = p.want_handshake /\ v.want_keepalive = p.want_keepalive
    BY <1>2, <1>6 DEF SameButQueue
  <2>2. is_in_progress(v) /\ ~is_expired(v) /\ is_in_progress(t) /\ ~is_expired(t)
    BY <1>2, <1>6, <2>1, StatesDiffer DEF is_in_progress, is_expired
  <2>3. GaveUpAll(v) /\ Wanting(v, log) /\ Bounded(v, log)
    BY <1>2, <2>1, <2>2 DEF GaveUpAll, Wanting, Bounded, IInv
  <2> QED
    BY <1>1, <1>3, <1>4, <1>6, <2>1, <2>3, NothingKeeps DEF v
<1>7. ASSUME NEW q \in Tunns, SameButQueue(p, q), Started(q, v, now),
             r = Result(v, <<Init1(q)>>)
      PROVE  IInv'
  <2>1. /\ q.me = p.me /\ q.state = p.state /\ q.sessions = p.sessions
        /\ q.session_time = p.session_time /\ q.time = p.time
    BY <1>7 DEF SameButQueue
  <2>2. Ticked(p, q, {}) /\ {} \in SUBSET {"TimePersistentKeepalive"}
    BY <2>1 DEF Ticked, Tunns, Tunnels
  <2> QED
    BY <1>1, <1>3, <1>4, <1>7, <2>1, <2>2, StartedKeeps DEF v, Unfinished
<1> QED
  BY <1>4, <1>5, <1>6, <1>7 DEF v

\* A datagram that is ignored changes nothing.
LEMMA IgnoredKeeps ==
  ASSUME IInv, Rest, Perform(Ignored(t), FALSE)
  PROVE  IInv'
  BY FromSelf, NothingKeeps DEF IInv, TypeOK, From, Timely

\* A session of the key took the slot i.
Established(u, v, i, key, S) ==
  /\ v.me = u.me /\ v.sessions[i] # NoSession /\ v.sessions[i].key = key
  /\ \A j \in Slots \ {i} : v.sessions[j] = u.sessions[j]
  /\ v.session_time = [u.session_time EXCEPT ![i] = u.time.TimeCurrent]
  /\ Ticked(u, v, S)

\* A session takes a slot.
LEMMA StoredFacts ==
  ASSUME NEW u \in Tunns, NEW index \in Nat, NEW peer \in Nat, NEW key \in Keys(Ends)
  PROVE  LET i == Slot(index)
             v == [u EXCEPT !.sessions[i] = Session(index, peer, key)]
         IN  /\ v \in Tunns /\ i \in Slots /\ v.me = u.me /\ v.queue = u.queue
             /\ v.sessions[i] # NoSession /\ v.sessions[i].key = key
             /\ \A j \in Slots \ {i} : v.sessions[j] = u.sessions[j]
             /\ v.session_time = u.session_time /\ v.time = u.time
             /\ v.state = u.state /\ v.previous = u.previous
<1> DEFINE i == Slot(index)
           s == Session(index, peer, key)
           ss == [u.sessions EXCEPT ![i] = s]
<1>1. i \in Slots
  BY SlotType
<1>2. s \in Sessions(Ends) /\ s.key = key
  <2>1. {} \in {S \in SUBSET Nat : IsFiniteSet(S)}
    BY FS_EmptySet
  <2> QED
    BY <2>1 DEF Session, Sessions
<1>3. s # NoSession
  BY <1>2 DEF Sessions, NoSession
<1>4. u.sessions \in [Slots -> Sessions(Ends) \union {NoSession}]
  BY DEF Tunns, Tunnels
<1> HIDE DEF i, s
<1>5. /\ ss \in [Slots -> Sessions(Ends) \union {NoSession}]
      /\ ss[i] = s /\ \A j \in Slots \ {i} : ss[j] = u.sessions[j]
  BY <1>1, <1>2, <1>4
<1> HIDE DEF ss
<1>6. [u EXCEPT !.sessions[i] = s] = [u EXCEPT !.sessions = ss]
  BY DEF ss, Tunns, Tunnels
<1>7. [u EXCEPT !.sessions = ss] \in Tunns
  BY <1>5 DEF Tunns, Tunnels
<1>8. LET v == [u EXCEPT !.sessions = ss]
      IN  /\ v.me = u.me /\ v.queue = u.queue /\ v.sessions = ss
          /\ v.session_time = u.session_time /\ v.time = u.time
          /\ v.state = u.state /\ v.previous = u.previous
  BY DEF Tunns, Tunnels
<1> QED
  BY <1>1, <1>2, <1>3, <1>5, <1>6, <1>7, <1>8 DEF i, s

\* An initiation that is answered.
LEMMA InitFacts ==
  ASSUME NEW u \in Tunns, NEW m, m.from \in Ends, m.eph \in Nat, m.sender_idx \in Nat,
         m.timestamp \in Nat
  PROVE  LET r == handle_handshake_init(u, m)
         IN  \/ r = Ignored(u)
             \/ /\ r = Result(r.t, <<Resp2(u, m)>>)
                /\ r.t \in Tunns /\ r.t.state = None
                /\ \E i \in Slots :
                     Established(u, r.t, i,
                       [initiator |-> m.from, init |-> m.eph, resp |-> u.ephs + 1],
                       {"TimeLastPacketReceived", "TimeLastPacketSent",
                        "TimeSessionEstablished"})
<1> DEFINE index == inc_index(u)
           key == [initiator |-> m.from, init |-> m.eph, resp |-> u.ephs + 1]
           f == Formatted(u)
           h == [f EXCEPT !.last_ts = m.timestamp, !.previous = u.state, !.state = None]
           s == [h EXCEPT !.sessions[Slot(index)] = Session(index, m.sender_idx, key)]
           a == timer_tick(s, "TimeLastPacketReceived")
           b == timer_tick(a, "TimeLastPacketSent")
           v == timer_tick_session_established(b, FALSE, index)
           r == handle_handshake_init(u, m)
<1>1. CASE ~after(m.timestamp, u.last_ts)
  BY <1>1 DEF handle_handshake_init
<1>2. CASE after(m.timestamp, u.last_ts)
  <2>1. r = Result(v, <<Resp2(u, m)>>)
    BY <1>2 DEF handle_handshake_init
  <2>2. index \in Nat
    BY IndexType
  <2>3. key \in Keys(Ends)
    <3>1. u.ephs + 1 \in Nat
      BY DEF Tunns, Tunnels
    <3> QED
      BY <3>1 DEF Keys
  <2>4. /\ f \in Tunns /\ f.me = u.me /\ f.sessions = u.sessions
        /\ f.time = u.time /\ f.session_time = u.session_time
    BY FormattedFacts
  <2> HIDE DEF r, index, key, f
  <2>5. /\ h \in Tunns /\ h.me = u.me /\ h.sessions = u.sessions /\ h.state = None
        /\ h.time = u.time /\ h.session_time = u.session_time
    <3>1. u.state \in HandshakeStates
      BY DEF Tunns, Tunnels
    <3> QED
      BY <2>4, <3>1, StatesDiffer DEF Tunns, Tunnels
  <2> HIDE DEF h
  <2> DEFINE i == Slot(index)
  <2>6. /\ s \in Tunns /\ i \in Slots /\ s.me = u.me /\ s.state = None
        /\ s.sessions[i] # NoSession /\ s.sessions[i].key = key
        /\ \A j \in Slots \ {i} : s.sessions[j] = u.sessions[j]
        /\ s.session_time = u.session_time /\ s.time = u.time
    BY <2>2, <2>3, <2>5, StoredFacts
  <2> HIDE DEF s
  <2>7. a \in Tunns /\ SameButTimes(s, a) /\ Ticked(s, a, {"TimeLastPacketReceived"})
    BY <2>6, TickFacts DEF TimerNames
  <2> HIDE DEF a
  <2>8. b \in Tunns /\ SameButTimes(a, b) /\ Ticked(a, b, {"TimeLastPacketSent"})
    BY <2>7, TickFacts DEF TimerNames
  <2> HIDE DEF b
  <2>9. /\ v \in Tunns /\ Ticked(b, v, {"TimeSessionEstablished"})
        /\ v.me = b.me /\ v.sessions = b.sessions /\ v.state = b.state
        /\ v.session_time = [b.session_time EXCEPT ![index % N_SESSIONS] = b.time.TimeCurrent]
    BY <2>2, <2>8, EstablishedFacts
  <2> HIDE DEF v
  <2>10. Ticked(s, b, {"TimeLastPacketReceived"} \union {"TimeLastPacketSent"})
    BY <2>6, <2>7, <2>8, TickedTwice
  <2>11. Ticked(s, v, ({"TimeLastPacketReceived"} \union {"TimeLastPacketSent"})
                        \union {"TimeSessionEstablished"})
    BY <2>6, <2>8, <2>9, <2>10, TickedTwice
  <2>12. Ticked(u, v, {"TimeLastPacketReceived", "TimeLastPacketSent",
                       "TimeSessionEstablished"})
    <3>1. ({"TimeLastPacketReceived"} \union {"TimeLastPacketSent"})
             \union {"TimeSessionEstablished"}
           = {"TimeLastPacketReceived", "TimeLastPacketSent", "TimeSessionEstablished"}
      OBVIOUS
    <3> QED
      BY <2>6, <2>11, <3>1 DEF Ticked
  <2>13. b.time.TimeCurrent = u.time.TimeCurrent
    BY <2>6, <2>10 DEF Ticked, TimerNames
  <2>14. Established(u, v, i, key, {"TimeLastPacketReceived", "TimeLastPacketSent",
                                    "TimeSessionEstablished"})
    BY <2>6, <2>7, <2>8, <2>9, <2>12, <2>13 DEF Established, SameButTimes, Slot
  <2>15. v.state = None /\ r.t = v
    BY <2>1, <2>6, <2>7, <2>8, <2>9 DEF SameButTimes, Result
  <2> HIDE DEF i
  <2> QED
    BY <2>1, <2>6, <2>9, <2>14, <2>15 DEF r, key, i
<1> QED
  BY <1>1, <1>2

\* Slots keep their own numbers.
LEMMA SlotOfSlot == \A i \in Slots : i \in Nat /\ i % N_SESSIONS = i
  BY TunnAssumption DEF TunnAssumption, Slots

\* A response that is accepted ends the handshake it answers.
LEMMA ResponseFacts ==
  ASSUME NEW u \in Tunns, u.me = Us, NEW m, m.eph \in Nat, m.sender_idx \in Nat,
         m.to \in Nat, m.receiver_idx \in Nat
  PROVE  LET r == handle_handshake_response(u, m)
         IN  \/ r = Ignored(u)
             \/ /\ r.t \in Tunns
                /\ \E d : r = Result(r.t, <<d>>) /\ ~IsPacket(d)
                /\ r.t.state = None \/ (r.t.state = u.state /\ IsInitSent(u.previous))
                /\ \E i \in Slots :
                     Established(u, r.t, i, [initiator |-> Us, init |-> m.to, resp |-> m.eph],
                                 {"TimeLastPacketReceived", "TimeSessionEstablished"})
<1> DEFINE which == Awaited(u, m)
           index == m.receiver_idx
           slot == Slot(index)
           key == [initiator |-> u.me, init |-> m.to, resp |-> m.eph]
           e == Consumed(u, which)
           h == [e EXCEPT !.sessions[slot] = Session(index, m.sender_idx, key)]
           s == Sealed(h, slot)
           a == timer_tick(s, "TimeLastPacketReceived")
           b == timer_tick_session_established(a, TRUE, slot)
           v == set_current_session(b, index)
           r == handle_handshake_response(u, m)
<1>1. CASE which = "none" \/ u[which].eph # m.to
  BY <1>1 DEF handle_handshake_response
<1>2. CASE ~(which = "none" \/ u[which].eph # m.to)
  <2>1. r = Result(v, <<Data(h, slot, Keepalive)>>)
    BY <1>2 DEF handle_handshake_response
  <2>2. \/ which = "state"
        \/ which = "previous" /\ IsInitSent(u.previous)
    BY <1>2 DEF Awaited
  <2>3. key \in Keys(Ends)
    BY DEF Keys, Ends
  <2> HIDE DEF r, key, which
  <2>4. /\ e \in Tunns /\ e.me = u.me /\ e.sessions = u.sessions
        /\ e.time = u.time /\ e.session_time = u.session_time
        /\ e.state = None \/ (e.state = u.state /\ IsInitSent(u.previous))
    <3>1. CASE which = "state"
      <4>1. e = [u EXCEPT !.state = None]
        BY <3>1 DEF Consumed
      <4> HIDE DEF e
      <4> QED
        BY <4>1, StatesDiffer DEF Tunns, Tunnels
    <3>2. CASE which = "previous" /\ IsInitSent(u.previous)
      <4>1. e = [u EXCEPT !.previous = None]
        BY <3>2 DEF Consumed
      <4> HIDE DEF e
      <4> QED
        BY <3>2, <4>1, StatesDiffer DEF Tunns, Tunnels
    <3> QED
      BY <2>2, <3>1, <3>2
  <2> HIDE DEF e
  <2>5. /\ h \in Tunns /\ slot \in Slots /\ h.me = u.me /\ h.state = e.state
        /\ h.sessions[slot] # NoSession /\ h.sessions[slot].key = key
        /\ \A j \in Slots \ {slot} : h.sessions[j] = u.sessions[j]
        /\ h.session_time = u.session_time /\ h.time = u.time
    BY <2>3, <2>4, StoredFacts
  <2>6. ~IsPacket(Data(h, slot, Keepalive))
    BY DEF Data, IsPacket
  <2> HIDE DEF h, slot
  <2>7. /\ s \in Tunns /\ Spoke(h, s, {}) /\ s.time = h.time
        /\ \A j \in Slots : j # slot => s.sessions[j] = h.sessions[j]
    BY <2>5, SealedFacts
  <2>8. s.sessions[slot] # NoSession /\ s.sessions[slot].key = key
    BY <2>5, <2>7 DEF Spoke, Alive
  <2> HIDE DEF s
  <2>9. a \in Tunns /\ SameButTimes(s, a) /\ Ticked(s, a, {"TimeLastPacketReceived"})
    BY <2>7, TickFacts DEF TimerNames
  <2> HIDE DEF a
  <2>10. slot \in Nat /\ slot % N_SESSIONS = slot
    BY <2>5, SlotOfSlot
  <2>11. /\ b \in Tunns /\ Ticked(a, b, {"TimeSessionEstablished"})
         /\ b.me = a.me /\ b.sessions = a.sessions /\ b.state = a.state
         /\ b.session_time = [a.session_time EXCEPT ![slot] = a.time.TimeCurrent]
    <3>1. TRUE \in BOOLEAN
      OBVIOUS
    <3>2. /\ b \in Tunns /\ Ticked(a, b, {"TimeSessionEstablished"})
          /\ b.me = a.me /\ b.sessions = a.sessions /\ b.state = a.state
          /\ b.session_time = [a.session_time EXCEPT ![slot % N_SESSIONS] = a.time.TimeCurrent]
      BY <2>9, <2>10, <3>1, EstablishedFacts, ZenonT(40)
    <3> QED
      BY <2>10, <3>2
  <2> HIDE DEF b
  <2>12. v \in Tunns /\ SameButTimes(b, v) /\ v.time = b.time
    BY <2>11, CurrentFacts
  <2> HIDE DEF v
  <2>13. Ticked(s, b, {"TimeLastPacketReceived"} \union {"TimeSessionEstablished"})
    BY <2>7, <2>9, <2>11, TickedTwice
  <2>14. Ticked(u, v, {"TimeLastPacketReceived", "TimeSessionEstablished"})
    <3>1. {"TimeLastPacketReceived"} \union {"TimeSessionEstablished"}
           = {"TimeLastPacketReceived", "TimeSessionEstablished"}
      OBVIOUS
    <3> QED
      BY <2>5, <2>7, <2>12, <2>13, <3>1 DEF Ticked
  <2>15. a.time.TimeCurrent = u.time.TimeCurrent
    BY <2>5, <2>7, <2>9 DEF Ticked, TimerNames
  <2>16. v.me = u.me /\ v.state = e.state
    BY <2>5, <2>7, <2>9, <2>11, <2>12 DEF SameButTimes, Spoke
  <2>17. Established(u, v, slot, key, {"TimeLastPacketReceived", "TimeSessionEstablished"})
    BY <2>5, <2>7, <2>8, <2>9, <2>11, <2>12, <2>14, <2>15, <2>16
      DEF Established, SameButTimes, Spoke
  <2>18. r.t = v /\ key = [initiator |-> Us, init |-> m.to, resp |-> m.eph]
    BY <2>1 DEF Result, key
  <2> QED
    BY <2>1, <2>4, <2>5, <2>6, <2>12, <2>16, <2>17, <2>18 DEF r
<1> QED
  BY <1>1, <1>2

\* A session takes note of a counter.
LEMMA OpenedFacts ==
  ASSUME NEW u \in Tunns, NEW slot \in Slots, u.sessions[slot] # NoSession, NEW n \in Nat
  PROVE  LET v == [u EXCEPT !.sessions[slot].received = @ \union {n}]
         IN  v \in Tunns /\ Spoke(u, v, {}) /\ v.time = u.time
<1> DEFINE s == u.sessions[slot]
           w == [s EXCEPT !.received = @ \union {n}]
           ss == [u.sessions EXCEPT ![slot] = w]
           v == [u EXCEPT !.sessions = ss]
<1>1. s \in Sessions(Ends) /\ u.sessions \in [Slots -> Sessions(Ends) \union {NoSession}]
  BY DEF Tunns, Tunnels
<1>2. w \in Sessions(Ends) /\ w.key = s.key
  <2> HIDE DEF s
  <2>1. s.received \union {n} \in SUBSET Nat /\ IsFiniteSet(s.received \union {n})
    BY <1>1, FS_AddElement DEF Sessions
  <2>2. s.received \union {n} \in {S \in SUBSET Nat : IsFiniteSet(S)}
    BY <2>1
  <2> QED
    BY <1>1, <2>2 DEF Sessions
<1>3. w # NoSession
  BY <1>2 DEF NoSession, Sessions
<1>4. [u.sessions EXCEPT ![slot].received = @ \union {n}] = ss
  BY <1>1
<1>5. /\ ss \in [Slots -> Sessions(Ends) \union {NoSession}]
      /\ ss[slot] = w /\ \A j \in Slots : j # slot => ss[j] = u.sessions[j]
  <2> HIDE DEF w
  <2> QED
    BY <1>1, <1>2
<1>6. [u EXCEPT !.sessions[slot].received = @ \union {n}] = v
  BY <1>4 DEF Tunns, Tunnels
<1> HIDE DEF ss, w
<1>7. v \in Tunns
  BY <1>5 DEF Tunns, Tunnels
<1>8. /\ v.me = u.me /\ v.session_time = u.session_time /\ v.queue = u.queue
      /\ v.state = u.state /\ v.previous = u.previous /\ v.time = u.time /\ v.sessions = ss
  BY DEF Tunns, Tunnels
<1> HIDE DEF v
<1>9. Alive(v) = Alive(u)
  BY <1>3, <1>5, <1>8 DEF Alive
<1>10. \A i \in Alive(u) : v.sessions[i].key = u.sessions[i].key
  BY <1>2, <1>5, <1>8 DEF Alive
<1>11. Ticked(u, v, {})
  BY <1>8 DEF Ticked, Tunns, Tunnels
<1> QED
  BY <1>6, <1>7, <1>8, <1>9, <1>10, <1>11 DEF Spoke

\* Data that opens is heard; a packet that is whole goes up.
LEMMA DataFacts ==
  ASSUME NEW u \in Tunns, NEW m, m.receiver_idx \in Nat, m.counter \in Nat,
         m.packet \in {Keepalive, Malformed, Packet}
  PROVE  LET r == handle_data(u, m)
         IN  \/ r = Ignored(u)
             \/ /\ r.t \in Tunns /\ r.out = <<>> /\ Alive(u) # {} /\ r.t.want_keepalive
                /\ \E S \in SUBSET {"TimeLastPacketReceived", "TimeLastDataPacketReceived"} :
                     /\ Spoke(u, r.t, S) /\ "TimeLastPacketReceived" \in S
                     /\ r.up # NoPacket => "TimeLastDataPacketReceived" \in S
<1> DEFINE slot == Slot(m.receiver_idx)
           d == [u EXCEPT !.sessions[slot].received = @ \union {m.counter}]
           c == set_current_session(d, m.receiver_idx)
           k == timer_tick(c, "TimeLastPacketReceived")
           w == timer_tick(k, "TimeLastDataPacketReceived")
           r == handle_data(u, m)
<1>1. CASE ~Opens(u, u.sessions[slot], m)
  BY <1>1 DEF handle_data
<1>2. CASE Opens(u, u.sessions[slot], m)
  <2>1. r = validate_decapsulated_packet(k, m.packet)
    BY <1>2 DEF handle_data
  <2>2. slot \in Slots /\ u.sessions[slot] # NoSession /\ Alive(u) # {}
    BY <1>2, SlotType DEF Opens, Alive
  <2> HIDE DEF slot, r
  <2>3. d \in Tunns /\ Spoke(u, d, {}) /\ d.time = u.time
    BY <2>2, OpenedFacts
  <2> HIDE DEF d
  <2>4. c \in Tunns /\ SameButTimes(d, c) /\ c.time = d.time
    BY <2>3, CurrentFacts
  <2> HIDE DEF c
  <2>5. Spoke(u, c, {})
    BY <2>3, <2>4 DEF Spoke, SameButTimes, Alive, Ticked
  <2>6. /\ k \in Tunns /\ SameButTimes(c, k) /\ Ticked(c, k, {"TimeLastPacketReceived"})
        /\ k.want_keepalive
    BY <2>4, TickFacts DEF TimerNames
  <2> HIDE DEF k
  <2>7. Spoke(u, k, {"TimeLastPacketReceived"})
    <3>1. Spoke(u, k, {} \union {"TimeLastPacketReceived"})
      BY <2>4, <2>5, <2>6, SpokeTicked
    <3>2. {} \union {"TimeLastPacketReceived"} = {"TimeLastPacketReceived"}
      OBVIOUS
    <3> QED
      BY <3>1, <3>2
  <2>8. CASE m.packet \in {Keepalive, Malformed}
    <3>1. r.t = k /\ r.out = <<>> /\ r.up = NoPacket
      BY <2>1, <2>8 DEF validate_decapsulated_packet, Ignored, Result
    <3> QED
      BY <2>2, <2>6, <2>7, <3>1 DEF r
  <2>9. CASE m.packet \notin {Keepalive, Malformed}
    <3>1. r.t = w /\ r.out = <<>> /\ r.up = m.packet
      BY <2>1, <2>9 DEF validate_decapsulated_packet
    <3>2. /\ w \in Tunns /\ SameButTimes(k, w)
          /\ Ticked(k, w, {"TimeLastDataPacketReceived"}) /\ w.want_keepalive
      BY <2>6, TickFacts DEF TimerNames
    <3> HIDE DEF w
    <3>3. Spoke(u, w, {"TimeLastPacketReceived"} \union {"TimeLastDataPacketReceived"})
      BY <2>6, <2>7, <3>2, SpokeTicked
    <3> QED
      BY <2>2, <3>1, <3>2, <3>3 DEF r
  <2> QED
    BY <2>8, <2>9
<1> QED
  BY <1>1, <1>2

\* A cookie that answers the last message is heard.
LEMMA CookieFacts ==
  ASSUME NEW u \in Tunns, NEW m
  PROVE  LET r == handle_cookie_reply(u, m)
         IN  \/ r = Ignored(u)
             \/ /\ r = Ignored(r.t) /\ r.t \in Tunns /\ r.t.want_keepalive
                /\ SameButTimes(u, r.t)
                /\ Ticked(u, r.t, {"TimeLastPacketReceived", "TimeCookieReceived"})
<1> DEFINE c == [u EXCEPT !.cookie = TRUE]
           a == timer_tick(c, "TimeLastPacketReceived")
           v == timer_tick(a, "TimeCookieReceived")
           r == handle_cookie_reply(u, m)
<1>1. c \in Tunns /\ SameButTimes(u, c) /\ c.time = u.time
  BY DEF SameButTimes, Tunns, Tunnels
<1>2. r \in {Ignored(u), Ignored(v)}
  BY DEF handle_cookie_reply
<1> HIDE DEF c
<1>3. /\ a \in Tunns /\ SameButTimes(c, a) /\ Ticked(c, a, {"TimeLastPacketReceived"})
      /\ a.want_keepalive
  BY <1>1, TickFacts DEF TimerNames
<1> HIDE DEF a
<1>4. /\ v \in Tunns /\ SameButTimes(a, v) /\ Ticked(a, v, {"TimeCookieReceived"})
      /\ v.want_keepalive
  BY <1>3, TickFacts DEF TimerNames
<1> HIDE DEF v
<1>5. Ticked(c, v, {"TimeLastPacketReceived"} \union {"TimeCookieReceived"})
  BY <1>1, <1>3, <1>4, TickedTwice
<1>6. Ticked(u, v, {"TimeLastPacketReceived", "TimeCookieReceived"})
  <2>1. {"TimeLastPacketReceived"} \union {"TimeCookieReceived"}
          = {"TimeLastPacketReceived", "TimeCookieReceived"}
    OBVIOUS
  <2> QED
    BY <1>1, <1>5, <2>1 DEF Ticked
<1>7. SameButTimes(u, v)
  BY <1>1, <1>3, <1>4 DEF SameButTimes
<1> HIDE DEF r
<1>8. r = Ignored(v) => r.t = v
  BY DEF Ignored, Result
<1> QED
  BY <1>2, <1>4, <1>6, <1>7, <1>8 DEF r

\* What a datagram's arrival leaves alone.
LEMMA HearRest ==
  ASSUME IInv, NEW m, Hear(m), peer_ephs' \in {peer_ephs, peer_ephs + 1}
  PROVE  Rest
  BY DEF Hear, Event, Rest, IInv, TypeOK

\* A datagram is ignored, or it is heard.
LEMMA HearCases ==
  ASSUME NEW m, Hear(m), m.type # "repeat"
  PROVE  LET r == handle_verified_packet(t, m)
         IN  \/ r = Ignored(t) /\ Perform(Ignored(t), FALSE)
             \/ r # Ignored(t) /\ Perform(r, TRUE)
<1> DEFINE r == handle_verified_packet(t, m)
<1>1. decapsulate(t, m, now) = r
  BY DEF decapsulate, Repeat
<1>2. Perform(r, r # Ignored(t))
  BY <1>1 DEF Hear
<1> HIDE DEF r
<1>3. CASE r = Ignored(t)
  BY <1>2, <1>3 DEF Perform, r
<1>4. CASE r # Ignored(t)
  BY <1>2, <1>4 DEF Perform, r
<1> QED
  BY <1>3, <1>4

\* An initiation of the peer arrives.
LEMMA HearInitKeeps == IInv /\ HearInit => IInv'
<1> SUFFICES ASSUME IInv, HearInit
             PROVE  IInv'
  OBVIOUS
<1> DEFINE m == [type |-> "init", from |-> Them, sender_idx |-> 1, eph |-> peer_ephs + 1,
                 timestamp |-> peer_ephs + 1, mac2 |-> FALSE]
           r == handle_handshake_init(t, m)
<1>1. peer_ephs' = peer_ephs + 1 /\ Hear(m)
  BY DEF HearInit
<1>2. peer_ephs \in Nat /\ TypeOK /\ t \in Tunns /\ t.me = Us
  BY DEF IInv, TypeOK
<1>3. /\ m.type = "init" /\ m.from = Them /\ m.eph = peer_ephs + 1 /\ m.sender_idx \in Nat
      /\ m.timestamp \in Nat /\ m.eph \in Nat /\ m.from \in Ends
  BY <1>2 DEF Ends
<1> HIDE DEF m
<1>4. Rest
  BY <1>1, HearRest
<1>5. handle_verified_packet(t, m) = r
  BY <1>3 DEF handle_verified_packet
<1> HIDE DEF r
<1>6. \/ r = Ignored(t) /\ Perform(Ignored(t), FALSE)
      \/ r # Ignored(t) /\ Perform(r, TRUE)
  <2>1. m.type # "repeat"
    BY <1>3
  <2> QED
    BY <1>1, <1>5, <2>1, HearCases
<1>7. CASE r = Ignored(t) /\ Perform(Ignored(t), FALSE)
  BY <1>4, <1>7, IgnoredKeeps
<1>8. CASE r # Ignored(t) /\ Perform(r, TRUE)
  <2> DEFINE key == [initiator |-> m.from, init |-> m.eph, resp |-> t.ephs + 1]
             S == {"TimeLastPacketReceived", "TimeLastPacketSent", "TimeSessionEstablished"}
  <2>1. /\ r = Result(r.t, <<Resp2(t, m)>>) /\ r.t \in Tunns /\ r.t.state = None
        /\ \E i \in Slots : Established(t, r.t, i, key, S)
    BY <1>2, <1>3, <1>8, InitFacts DEF r
  <2>2. PICK i \in Slots : Established(t, r.t, i, key, S)
    BY <2>1
  <2>3. ~IsPacket(Resp2(t, m))
    BY DEF IsPacket, Resp2
  <2>4. key.initiator # Us /\ key.init = peer_ephs + 1
    BY <1>3 DEF Us, Them
  <2> HIDE DEF key
  <2>5. /\ r.t.me = Us /\ r.t.state \in {None, t.state} /\ ~is_expired(r.t)
        /\ r.t.sessions[i] # NoSession /\ r.t.sessions[i].key = key
        /\ \A j \in Slots \ {i} : r.t.sessions[j] = t.sessions[j]
        /\ r.t.session_time = [t.session_time EXCEPT ![i] = t.time.TimeCurrent]
        /\ Ticked(t, r.t, S)
    BY <1>2, <2>1, <2>2, StatesDiffer DEF Established, is_expired
  <2>6. LET k == r.t.sessions[i].key
        IN  IF k.initiator = Us THEN k.resp = peer_ephs + 1 ELSE k.init = peer_ephs + 1
    BY <2>4, <2>5
  <2>7. /\ "TimeLastPacketReceived" \in S
        /\ S \subseteq {"TimeLastPacketReceived", "TimeLastPacketSent",
                         "TimeSessionEstablished"}
    OBVIOUS
  <2> HIDE DEF S
  <2> DEFINE v == r.t
  <2>8. r = Result(v, <<Resp2(t, m)>>) /\ v \in Tunns /\ peer_ephs' = peer_ephs + 1
    BY <1>1, <1>2, <2>1, <2>3
  <2>9. Perform(r, TRUE)
    BY <1>8
  <2>10. IInv /\ Rest
    BY <1>4
  <2> HIDE DEF v
  <2>11. /\ v.me = Us /\ v.state \in {None, t.state} /\ ~is_expired(v)
         /\ v.sessions[i] # NoSession
         /\ \A j \in Slots \ {i} : v.sessions[j] = t.sessions[j]
         /\ v.session_time = [t.session_time EXCEPT ![i] = t.time.TimeCurrent]
         /\ Ticked(t, v, S)
    BY <2>5 DEF v
  <2>12. LET k == v.sessions[i].key
         IN  IF k.initiator = Us THEN k.resp = peer_ephs + 1 ELSE k.init = peer_ephs + 1
    BY <2>6 DEF v
  <2> QED
    BY <2>3, <2>7, <2>8, <2>9, <2>10, <2>11, <2>12, NewSessionKeeps
<1> QED
  BY <1>6, <1>7, <1>8

\* A response of the peer arrives.
LEMMA HearResponseKeeps == IInv /\ HearResponse => IInv'
<1> SUFFICES ASSUME IInv, HearResponse
             PROVE  IInv'
  OBVIOUS
<1> DEFINE msg(hs) == [type |-> "resp", from |-> Them, sender_idx |-> 1,
                       receiver_idx |-> hs.local, to |-> hs.eph, eph |-> peer_ephs + 1,
                       mac2 |-> FALSE]
<1>1. PICK hs \in {t.state, t.previous} : IsInitSent(hs) /\ Hear(msg(hs))
  BY DEF HearResponse
<1> DEFINE m == msg(hs)
           r == handle_handshake_response(t, m)
<1>2. /\ peer_ephs \in Nat /\ TypeOK /\ t \in Tunns /\ t.me = Us /\ GaveUpAll(t)
      /\ peer_ephs' = peer_ephs + 1 /\ Hear(m)
  BY <1>1 DEF IInv, TypeOK, Timely, HearResponse
<1>3. /\ m.type = "resp" /\ m.eph = peer_ephs + 1 /\ m.sender_idx \in Nat
      /\ m.eph \in Nat /\ m.to \in Nat /\ m.receiver_idx \in Nat
  <2>1. hs \in HandshakeStates
    BY <1>1, <1>2 DEF Tunns, Tunnels
  <2>2. hs.local \in Nat /\ hs.eph \in Nat
    BY <1>1, <2>1, StateType
  <2> QED
    BY <1>2, <2>2
<1> HIDE DEF m
<1>4. Rest
  BY <1>2, HearRest
<1>5. handle_verified_packet(t, m) = r
  BY <1>3 DEF handle_verified_packet
<1> HIDE DEF r
<1>6. \/ r = Ignored(t) /\ Perform(Ignored(t), FALSE)
      \/ r # Ignored(t) /\ Perform(r, TRUE)
  <2>1. m.type # "repeat"
    BY <1>3
  <2> QED
    BY <1>2, <1>5, <2>1, HearCases
<1>7. CASE r = Ignored(t) /\ Perform(Ignored(t), FALSE)
  BY <1>4, <1>7, IgnoredKeeps
<1>8. CASE r # Ignored(t) /\ Perform(r, TRUE)
  <2> DEFINE key == [initiator |-> Us, init |-> m.to, resp |-> m.eph]
             S == {"TimeLastPacketReceived", "TimeSessionEstablished"}
  <2>1. /\ r.t \in Tunns /\ \E d : r = Result(r.t, <<d>>) /\ ~IsPacket(d)
        /\ r.t.state = None \/ (r.t.state = t.state /\ IsInitSent(t.previous))
        /\ \E i \in Slots : Established(t, r.t, i, key, S)
    BY <1>2, <1>3, <1>8, ResponseFacts DEF r
  <2>2. PICK i \in Slots : Established(t, r.t, i, key, S)
    BY <2>1
  <2>3. PICK d : r = Result(r.t, <<d>>) /\ ~IsPacket(d)
    BY <2>1
  <2>4. key.initiator = Us /\ key.resp = peer_ephs + 1
    BY <1>3
  <2> HIDE DEF key
  <2>5. /\ r.t.me = Us /\ r.t.state \in {None, t.state} /\ ~is_expired(r.t)
        /\ r.t.sessions[i] # NoSession /\ r.t.sessions[i].key = key
        /\ \A j \in Slots \ {i} : r.t.sessions[j] = t.sessions[j]
        /\ r.t.session_time = [t.session_time EXCEPT ![i] = t.time.TimeCurrent]
        /\ Ticked(t, r.t, S)
    BY <1>2, <2>1, <2>2, StatesDiffer DEF Established, is_expired, GaveUpAll
  <2>6. LET k == r.t.sessions[i].key
        IN  IF k.initiator = Us THEN k.resp = peer_ephs + 1 ELSE k.init = peer_ephs + 1
    BY <2>4, <2>5
  <2>7. /\ "TimeLastPacketReceived" \in S
        /\ S \subseteq {"TimeLastPacketReceived", "TimeLastPacketSent",
                         "TimeSessionEstablished"}
    OBVIOUS
  <2> HIDE DEF S
  <2> DEFINE v == r.t
  <2>8. r = Result(v, <<d>>) /\ v \in Tunns /\ peer_ephs' = peer_ephs + 1
    BY <1>1, <1>2, <2>1, <2>3
  <2>9. Perform(r, TRUE)
    BY <1>8
  <2>10. IInv /\ Rest
    BY <1>4
  <2> HIDE DEF v
  <2>11. /\ v.me = Us /\ v.state \in {None, t.state} /\ ~is_expired(v)
         /\ v.sessions[i] # NoSession
         /\ \A j \in Slots \ {i} : v.sessions[j] = t.sessions[j]
         /\ v.session_time = [t.session_time EXCEPT ![i] = t.time.TimeCurrent]
         /\ Ticked(t, v, S)
    BY <2>5 DEF v
  <2>12. LET k == v.sessions[i].key
         IN  IF k.initiator = Us THEN k.resp = peer_ephs + 1 ELSE k.init = peer_ephs + 1
    BY <2>6 DEF v
  <2> QED
    BY <2>3, <2>7, <2>8, <2>9, <2>10, <2>11, <2>12, NewSessionKeeps
<1> QED
  BY <1>6, <1>7, <1>8

\* Data of the peer arrives.
LEMMA HearDataKeeps == IInv /\ HearData => IInv'
<1> SUFFICES ASSUME IInv, HearData
             PROVE  IInv'
  OBVIOUS
<1> DEFINE msg(i, packet) ==
             [type |-> "data", from |-> Them, receiver_idx |-> t.sessions[i].local,
              key |-> t.sessions[i].key, counter |-> Cardinality(t.sessions[i].received),
              packet |-> packet]
<1>1. PICK i \in Slots, packet \in {Keepalive, Malformed, Packet} :
        t.sessions[i] # NoSession /\ Hear(msg(i, packet))
  BY DEF HearData
<1> DEFINE m == msg(i, packet)
           r == handle_data(t, m)
<1>2. TypeOK /\ t \in Tunns /\ t.me = Us /\ GaveUpAll(t) /\ peer_ephs' = peer_ephs /\ Hear(m)
  BY <1>1 DEF IInv, TypeOK, Timely, HearData
<1>3. /\ m.type = "data" /\ m.receiver_idx \in Nat /\ m.counter \in Nat
      /\ m.packet \in {Keepalive, Malformed, Packet}
  <2>1. t.sessions[i] \in Sessions(Ends)
    BY <1>1, <1>2 DEF Tunns, Tunnels
  <2>2. t.sessions[i].local \in Nat /\ Cardinality(t.sessions[i].received) \in Nat
    BY <2>1, FS_CardinalityType DEF Sessions
  <2> QED
    BY <2>2
<1> HIDE DEF m
<1>4. Rest
  BY <1>2, HearRest
<1>5. handle_verified_packet(t, m) = r
  BY <1>3 DEF handle_verified_packet
<1> HIDE DEF r
<1>6. \/ r = Ignored(t) /\ Perform(Ignored(t), FALSE)
      \/ r # Ignored(t) /\ Perform(r, TRUE)
  <2>1. m.type # "repeat"
    BY <1>3
  <2> QED
    BY <1>2, <1>5, <2>1, HearCases
<1>7. CASE r = Ignored(t) /\ Perform(Ignored(t), FALSE)
  BY <1>4, <1>7, IgnoredKeeps
<1>8. CASE r # Ignored(t) /\ Perform(r, TRUE)
  <2>1. /\ r.t \in Tunns /\ r.out = <<>> /\ Alive(t) # {} /\ r.t.want_keepalive
        /\ \E S \in SUBSET {"TimeLastPacketReceived", "TimeLastDataPacketReceived"} :
             /\ Spoke(t, r.t, S) /\ "TimeLastPacketReceived" \in S
             /\ r.up # NoPacket => "TimeLastDataPacketReceived" \in S
    BY <1>2, <1>3, <1>8, DataFacts DEF r
  <2>2. PICK S \in SUBSET {"TimeLastPacketReceived", "TimeLastDataPacketReceived"} :
             /\ Spoke(t, r.t, S) /\ "TimeLastPacketReceived" \in S
             /\ r.up # NoPacket => "TimeLastDataPacketReceived" \in S
    BY <2>1
  <2>3. ~is_expired(t)
    BY <1>2, <2>1 DEF GaveUpAll
  <2> DEFINE v == r.t
  <2> HIDE DEF v
  <2>4. /\ r.t = v /\ v \in Tunns /\ v.want_keepalive
        /\ v.me = Us /\ v.state = t.state /\ v.previous = t.previous /\ v.queue = t.queue
        /\ v.session_time = t.session_time /\ Alive(v) = Alive(t)
        /\ \A j \in Alive(t) : v.sessions[j].key = t.sessions[j].key
        /\ Ticked(t, v, S)
    BY <1>2, <2>1, <2>2 DEF Spoke, v
  <2>5. S \subseteq {"TimeLastPacketReceived", "TimeLastDataPacketReceived",
                     "TimeCookieReceived"}
    OBVIOUS
  <2> QED
    BY <1>4, <1>8, <2>1, <2>2, <2>3, <2>4, <2>5, HeardKeeps
<1> QED
  BY <1>6, <1>7, <1>8

\* A cookie arrives.
LEMMA HearCookieKeeps == IInv /\ HearCookie => IInv'
<1> SUFFICES ASSUME IInv, HearCookie
             PROVE  IInv'
  OBVIOUS
<1> DEFINE m == [type |-> "cookie", from |-> Them, receiver_idx |-> t.mac1.index,
                 mac1 |-> t.mac1.eph]
           r == handle_cookie_reply(t, m)
<1>1. TypeOK /\ t \in Tunns /\ t.me = Us /\ peer_ephs' = peer_ephs /\ Hear(m)
  BY DEF IInv, TypeOK, HearCookie
<1>2. m.type = "cookie"
  OBVIOUS
<1> HIDE DEF m
<1>3. Rest
  BY <1>1, HearRest
<1>4. handle_verified_packet(t, m) = r
  BY <1>2 DEF handle_verified_packet
<1> HIDE DEF r
<1>5. \/ r = Ignored(t) /\ Perform(Ignored(t), FALSE)
      \/ r # Ignored(t) /\ Perform(r, TRUE)
  <2>1. m.type # "repeat"
    BY <1>2
  <2> QED
    BY <1>1, <1>4, <2>1, HearCases
<1>6. CASE r = Ignored(t) /\ Perform(Ignored(t), FALSE)
  BY <1>3, <1>6, IgnoredKeeps
<1>7. CASE r # Ignored(t) /\ Perform(r, TRUE)
  <2> DEFINE v == r.t
             S == {"TimeLastPacketReceived", "TimeCookieReceived"}
  <2>1. /\ r = Ignored(v) /\ v \in Tunns /\ v.want_keepalive /\ SameButTimes(t, v)
        /\ Ticked(t, v, S)
    BY <1>1, <1>7, CookieFacts DEF r
  <2>2. r.out = <<>> /\ r.up = NoPacket
    BY <2>1 DEF Ignored, Result
  <2> HIDE DEF v
  <2>3. /\ r.t = v /\ v.me = Us /\ v.state = t.state /\ v.previous = t.previous
        /\ v.queue = t.queue /\ v.session_time = t.session_time /\ Alive(v) = Alive(t)
        /\ \A j \in Alive(t) : v.sessions[j].key = t.sessions[j].key
    BY <1>1, <2>1 DEF SameButTimes, Alive, v
  <2>4. /\ "TimeLastPacketReceived" \in S
        /\ S \subseteq {"TimeLastPacketReceived", "TimeLastDataPacketReceived",
                        "TimeCookieReceived"}
    OBVIOUS
  <2> HIDE DEF S
  <2> QED
    BY <1>3, <1>7, <2>1, <2>2, <2>3, <2>4, HeardKeeps
<1> QED
  BY <1>5, <1>6, <1>7

\* The interface hands over a packet.
LEMMA SendKeeps == IInv /\ Send => IInv'
<1> SUFFICES ASSUME IInv, Send
             PROVE  IInv'
  OBVIOUS
<1>1. Rest /\ Perform(encapsulate(t, Packet, now), FALSE)
  <2>1. peer_ephs \in Nat /\ events \in Nat /\ flushing \in BOOLEAN
    BY DEF IInv, TypeOK
  <2>2. Rest
    BY <2>1 DEF Send, Event, Rest
  <2> QED
    BY <2>2 DEF Send
<1>2. t \in Tunns /\ SameButQueue(t, t) /\ GaveUpAll(t) /\ Packet \in Nat
  BY DEF IInv, TypeOK, Timely, SameButQueue, Packet
<1> QED
  BY <1>1, <1>2, EncapsulatedKeeps

\* A round of the flush loop.
LEMMA FlushRoundKeeps == IInv /\ FlushRound => IInv'
<1> SUFFICES ASSUME IInv, FlushRound
             PROVE  IInv'
  OBVIOUS
<1>1. Rest /\ Perform(send_queued_packet(t, now), FALSE)
  <2>1. peer_ephs \in Nat /\ events \in Nat
    BY DEF IInv, TypeOK
  <2>2. Rest
    BY <2>1 DEF FlushRound, Rest
  <2>3. Perform(decapsulate(t, Repeat, now), FALSE)
    BY DEF FlushRound
  <2>4. decapsulate(t, Repeat, now) = send_queued_packet(t, now)
    BY DEF decapsulate
  <2> QED
    BY <2>2, <2>3, <2>4
<1>2. t \in Tunns /\ GaveUpAll(t)
  BY DEF IInv, TypeOK, Timely
<1>3. CASE t.queue = <<>>
  BY <1>1, <1>3, IgnoredKeeps DEF send_queued_packet
<1>4. CASE t.queue # <<>>
  <2> DEFINE p == [t EXCEPT !.queue = Tail(@)]
  <2>1. p \in Tunns /\ SameButQueue(t, p) /\ Head(t.queue) \in Nat
    BY <1>2, <1>4, DequeueFacts
  <2>2. Perform(encapsulate(p, Head(t.queue), now), FALSE)
    BY <1>1, <1>4 DEF send_queued_packet
  <2> HIDE DEF p
  <2>3. GaveUpAll(p)
    BY <1>2, <1>4, <2>1 DEF GaveUpAll, SameButQueue, is_expired
  <2> QED
    BY <1>1, <2>1, <2>2, <2>3, EncapsulatedKeeps
<1> QED
  BY <1>3, <1>4

\* The clock ticks once update_timers has run.
LEMMA TickKeeps == IInv /\ Tick => IInv'
<1> SUFFICES ASSUME IInv, Tick
             PROVE  IInv'
  OBVIOUS
<1>1. /\ now' = now + 1 /\ t.time.TimeCurrent = now /\ now \in Nat
      /\ t' = t /\ flushing' = flushing /\ peer_ephs' = peer_ephs /\ events' = events
      /\ log' = log
  BY DEF Tick, IInv, TypeOK
<1>2. TypeOK'
  BY <1>1 DEF IInv, TypeOK
<1>3. Clocked(t, now + 1)
  BY <1>1 DEF IInv, Timely, Clocked
<1>4. NotLater(log, now + 1)
  <2>1. log.heard \in Nat /\ log.sent \in Nat
    BY DEF IInv, TypeOK, LogType
  <2> QED
    BY <1>1, <2>1 DEF IInv, Timely, NotLater
<1>5. Timely(t, now + 1, peer_ephs, log)
  BY <1>3, <1>4 DEF IInv, Timely
<1> QED
  BY <1>1, <1>2, <1>5 DEF IInv

(***************************************************************************)
(* update_timers.                                                          *)
(***************************************************************************)
\* The tunnel at this instant: sessions that are too old are gone.
Aged(v) ==
  /\ v \in Tunns /\ v.me = t.me /\ v.state = t.state /\ v.previous = t.previous
  /\ v.queue = t.queue
  /\ v.want_handshake = t.want_handshake /\ v.want_keepalive = t.want_keepalive
  /\ v.time.TimeCurrent = now
  /\ \A x \in TimerNames : x # "TimeCurrent" => v.time[x] = t.time[x]
  /\ \A i \in Slots :
       IF now - t.session_time[i] > REJECT_AFTER_TIME
       THEN v.sessions[i] = NoSession /\ v.session_time[i] = now
       ELSE v.sessions[i] = t.sessions[i] /\ v.session_time[i] = t.session_time[i]

\* What update_timers does first leaves such a tunnel, with or without its cookie.
LEMMA AgedFacts ==
  ASSUME TypeOK, NEW b \in BOOLEAN
  PROVE  LET u == update_session_timers([t EXCEPT !.time.TimeCurrent = now], now)
         IN  Aged(u) /\ Aged([u EXCEPT !.cookie = b]) /\ u.cookie \in BOOLEAN
<1> DEFINE w == [t EXCEPT !.time.TimeCurrent = now]
           old(i) == now - t.session_time[i] > REJECT_AFTER_TIME
           ss == [i \in Slots |-> IF old(i) THEN NoSession ELSE t.sessions[i]]
           st == [i \in Slots |-> IF old(i) THEN now ELSE t.session_time[i]]
           tt == [t.time EXCEPT !.TimeCurrent = now]
           z == [[t EXCEPT !.time = tt] EXCEPT !.sessions = ss, !.session_time = st]
           u == update_session_timers(w, now)
<1>1. t \in Tunns /\ now \in Nat
  BY DEF TypeOK
<1>2. w = [t EXCEPT !.time = tt]
  BY <1>1 DEF Tunns, Tunnels
<1>3. w.session_time = t.session_time /\ w.sessions = t.sessions
  BY <1>1, <1>2 DEF Tunns, Tunnels
<1>4. u = z
  BY <1>2, <1>3 DEF update_session_timers
<1>5. /\ ss \in [Slots -> Sessions(Ends) \union {NoSession}] /\ st \in [Slots -> Nat]
      /\ tt \in [TimerNames -> Nat] /\ tt.TimeCurrent = now
      /\ \A x \in TimerNames : x # "TimeCurrent" => tt[x] = t.time[x]
      /\ \A i \in Slots :
           IF now - t.session_time[i] > REJECT_AFTER_TIME
           THEN ss[i] = NoSession /\ st[i] = now
           ELSE ss[i] = t.sessions[i] /\ st[i] = t.session_time[i]
  <2>1. "TimeCurrent" \in TimerNames
    BY TimerNamesFacts
  <2> QED
    BY <1>1, <2>1 DEF Tunns, Tunnels
<1> HIDE DEF u, w, ss, st, tt
<1>6. /\ z \in Tunns /\ z.me = t.me /\ z.state = t.state /\ z.previous = t.previous
      /\ z.queue = t.queue /\ z.time = tt /\ z.sessions = ss /\ z.session_time = st
  BY <1>1, <1>5 DEF Tunns, Tunnels
<1>7. z.want_handshake = t.want_handshake /\ z.want_keepalive = t.want_keepalive
  BY <1>1 DEF Tunns, Tunnels
<1>8. Aged(z)
  BY <1>5, <1>6, <1>7 DEF Aged
<1> HIDE DEF z
<1> DEFINE c == [z EXCEPT !.cookie = b]
<1>9. /\ c \in Tunns /\ c.me = z.me /\ c.state = z.state /\ c.previous = z.previous
      /\ c.queue = z.queue /\ c.time = z.time /\ c.sessions = z.sessions
      /\ c.session_time = z.session_time
      /\ c.want_handshake = z.want_handshake /\ c.want_keepalive = z.want_keepalive
  BY <1>6 DEF Tunns, Tunnels
<1>10. Aged(c)
  <2> HIDE DEF c
  <2> QED
    BY <1>8, <1>9 DEF Aged
<1>11. z.cookie \in BOOLEAN
  BY Zenon, <1>6 DEF Tunns, Tunnels
<1> QED
  BY <1>4, <1>8, <1>10, <1>11 DEF u, w

\* The timers of such a tunnel are as timely as before.
LEMMA AgedFrom ==
  ASSUME IInv, NEW c, Aged(c)
  PROVE  From(c) /\ Wanting(c, log)
<1>1. TypeOK /\ From(t)
  BY FromSelf
<1>2. /\ c \in Tunns /\ c.me = Us /\ c.state = t.state /\ c.previous = t.previous
      /\ c.queue = t.queue /\ c.time.TimeCurrent = now
      /\ \A x \in TimerNames : x # "TimeCurrent" => c.time[x] = t.time[x]
      /\ \A i \in Slots : c.sessions[i] \in {t.sessions[i], NoSession}
      /\ \A i \in Slots : c.session_time[i] \in {t.session_time[i], now}
  BY <1>1 DEF Aged, From
<1>3. /\ \A i \in Alive(c) :
           /\ i \in Alive(t) /\ i \in Slots /\ c.sessions[i] = t.sessions[i]
           /\ c.session_time[i] = t.session_time[i]
           /\ now - c.session_time[i] <= REJECT_AFTER_TIME
  <2> SUFFICES ASSUME NEW i \in Alive(c)
               PROVE  /\ i \in Alive(t) /\ i \in Slots /\ c.sessions[i] = t.sessions[i]
                      /\ c.session_time[i] = t.session_time[i]
                      /\ now - c.session_time[i] <= REJECT_AFTER_TIME
    OBVIOUS
  <2>1. i \in Slots /\ c.sessions[i] # NoSession
    BY DEF Alive
  <2>2. ~(now - t.session_time[i] > REJECT_AFTER_TIME)
    BY <2>1 DEF Aged
  <2>3. now - t.session_time[i] <= REJECT_AFTER_TIME
    BY <1>1, <2>1, <2>2, FromFacts, Durations
  <2> QED
    BY <2>1, <2>2, <2>3 DEF Aged, Alive
<1>4. /\ c.time.TimeLastHandshakeStarted = t.time.TimeLastHandshakeStarted
      /\ c.time.TimeLastPacketReceived = t.time.TimeLastPacketReceived
      /\ c.time.TimeLastPacketSent = t.time.TimeLastPacketSent
      /\ c.time.TimeLastDataPacketSent = t.time.TimeLastDataPacketSent
      /\ c.time.TimeLastDataPacketReceived = t.time.TimeLastDataPacketReceived
      /\ c.time.TimePersistentKeepalive = t.time.TimePersistentKeepalive
  BY <1>2, TimerNamesFacts
<1>5. /\ is_expired(c) <=> is_expired(t)
      /\ is_in_progress(c) <=> is_in_progress(t)
  BY <1>2 DEF is_expired, is_in_progress
<1>6. Clocked(c, now)
  <2>1. \A x \in TimerNames : c.time[x] <= now
    BY <1>1, <1>2, FromFacts
  <2>2. \A i \in Slots : c.session_time[i] <= now
    BY <1>1, <1>2, FromFacts
  <2> QED
    BY <1>1, <1>2, <2>1, <2>2, FromFacts DEF Clocked
<1>7. GaveUpAll(c)
  BY <1>1, <1>2, <1>3, <1>5 DEF From, Timely, GaveUpAll
<1>8. KeysUsed(c, peer_ephs)
  BY <1>1, <1>3 DEF From, Timely, KeysUsed
<1>9. Young(c, log)
  BY <1>1, <1>2, <1>3 DEF From, Timely, Young
<1>10. Attempting(c, log) /\ SentSince(c, log)
  BY <1>1, <1>2, <1>4, <1>5 DEF From, Timely, Attempting, SentSince
<1>11. HeardSince(c, log)
  BY <1>1, <1>3, <1>4 DEF From, Timely, HeardSince
<1>12. Awaiting(c, log) /\ Owing(c, log)
  BY <1>1, <1>4, <1>5 DEF From, Timely, Awaiting, Owing
<1>13. Wanting(c, log)
  BY <1>5 DEF IInv, Wanting, Aged
<1>14. NotLater(log, now)
  BY <1>1 DEF From, Timely
<1> QED
  BY <1>2, <1>6, <1>7, <1>8, <1>9, <1>10, <1>11, <1>12, <1>13, <1>14 DEF From, Timely

\* The branches of update_timers.
LEMMA UpdateFacts ==
  ASSUME TypeOK
  PROVE  LET r == update_timers(t, now)
         IN  \E c : /\ Aged(c)
                    /\ \/ is_expired(c) /\ r = Ignored(c)
                       \/ r = Ignored(give_up(c, now))
                       \/ /\ ~GivesUp(c, now) /\ is_in_progress(c)
                          /\ r = Result(r.t, <<Init1(c)>>)
                          /\ r.t \in Tunns /\ Started(c, r.t, now)
                       \/ /\ ~GivesUp(c, now) /\ is_in_progress(c)
                          /\ ~(now - c.state.time_sent >= REKEY_TIMEOUT) /\ r = Ignored(c)
                       \/ ~is_expired(c) /\ ~is_in_progress(c) /\ r = idle_timers(c, now)
<1> DEFINE u == update_session_timers([t EXCEPT !.time.TimeCurrent = now], now)
           b == u.cookie /\ now - u.time.TimeCookieReceived < COOKIE_EXPIRATION_TIME
           c == [u EXCEPT !.cookie = b]
           r == update_timers(t, now)
<1>1. b \in BOOLEAN
  OBVIOUS
<1>2. Aged(u) /\ Aged(c)
  <2> HIDE DEF b
  <2> QED
    BY <1>1, AgedFacts
<1>3. r = IF is_expired(u) THEN Ignored(u)
          ELSE IF GivesUp(c, now) THEN Ignored(give_up(c, now))
          ELSE IF ~is_in_progress(c) THEN idle_timers(c, now)
          ELSE IF now - c.state.time_sent >= REKEY_TIMEOUT
          THEN format_handshake_initiation(c, TRUE, now)
          ELSE Ignored(c)
  BY DEF update_timers
<1>4. is_expired(c) <=> is_expired(u)
  BY <1>2 DEF Aged, is_expired
<1> HIDE DEF u, b, c, r
<1>5. CASE is_expired(u)
  BY <1>2, <1>3, <1>5 DEF r
<1>6. CASE ~is_expired(u) /\ GivesUp(c, now)
  BY <1>2, <1>3, <1>6 DEF r
<1>7. CASE ~is_expired(u) /\ ~GivesUp(c, now) /\ ~is_in_progress(c)
  BY <1>2, <1>3, <1>4, <1>7 DEF r
<1>8. CASE ~is_expired(u) /\ ~GivesUp(c, now) /\ is_in_progress(c)
  <2>1. CASE now - c.state.time_sent >= REKEY_TIMEOUT
    <3>1. r = format_handshake_initiation(c, TRUE, now)
      BY <1>3, <1>8, <2>1
    <3>2. c \in Tunns /\ now \in Nat /\ TRUE \in BOOLEAN
      BY <1>2 DEF Aged, TypeOK
    <3>3. r = Result(r.t, <<Init1(c)>>) /\ r.t \in Tunns /\ Started(c, r.t, now)
      BY <3>1, <3>2, InitiationFacts
    <3> QED
      BY <1>2, <1>8, <3>3 DEF r
  <2>2. CASE ~(now - c.state.time_sent >= REKEY_TIMEOUT)
    <3>1. r = Ignored(c)
      BY <1>3, <1>8, <2>2
    <3> QED
      BY <1>2, <1>8, <2>2, <3>1 DEF r
  <2> QED
    BY <2>1, <2>2
<1> QED
  BY <1>5, <1>6, <1>7, <1>8

\* The tunnel is the same, but for its queue, what it wants and the timers of S.
Idled(c, q, S) ==
  /\ q.me = c.me /\ q.state = c.state /\ q.sessions = c.sessions
  /\ q.session_time = c.session_time /\ Ticked(c, q, S)

\* The branches of idle_timers: an initiation, a keepalive, or nothing.
LEMMA IdleFacts ==
  ASSUME TypeOK, NEW c \in Tunns, ~is_in_progress(c), ~is_expired(c)
  PROVE  LET r == idle_timers(c, now)
         IN  \/ /\ \E q \in Tunns, S \in SUBSET {"TimePersistentKeepalive"} :
                     /\ Idled(c, q, S) /\ Started(q, r.t, now)
                     /\ r = Result(r.t, <<Init1(q)>>)
                /\ r.t \in Tunns
             \/ /\ ~(SilenceDue(c, now) /\ c.want_handshake)
                /\ r.t \in Tunns /\ Alive(c) # {} /\ r.t.want_handshake
                /\ \E p, slot : r = Result(r.t, <<Data(p, slot, Keepalive)>>)
                /\ \E S \in SUBSET {"TimeLastPacketSent", "TimePersistentKeepalive"} :
                     Spoke(c, r.t, S) /\ "TimeLastPacketSent" \in S
             \/ /\ ~(SilenceDue(c, now) /\ c.want_handshake)
                /\ ~(KeepaliveDue(c, now) /\ c.want_keepalive) /\ ~PersistentDue(c, now)
                /\ r = Ignored(r.t) /\ r.t \in Tunns
                /\ r.t.time = c.time /\ Idled(c, r.t, {})
                /\ r.t.previous = c.previous /\ r.t.queue = c.queue
                /\ c.want_handshake /\ ~SilenceDue(c, now) => r.t.want_handshake
                /\ c.want_keepalive /\ ~KeepaliveDue(c, now) => r.t.want_keepalive
<1> DEFINE silent == SilenceDue(c, now)
           quiet == KeepaliveDue(c, now)
           due == PersistentDue(c, now)
           rekey == RekeyDue(c, now) \/ (silent /\ c.want_handshake)
           s == [c EXCEPT !.want_handshake = @ /\ ~silent]
           k == [s EXCEPT !.want_keepalive = @ /\ ~quiet]
           p == IF due THEN timer_tick(k, "TimePersistentKeepalive") ELSE k
           r == idle_timers(c, now)
<1>1. r = IF rekey THEN format_handshake_initiation(s, TRUE, now)
          ELSE IF (quiet /\ c.want_keepalive) \/ due THEN encapsulate(p, Keepalive, now)
          ELSE Ignored(p)
  BY DEF idle_timers
<1>2. /\ s \in Tunns /\ s.me = c.me /\ s.state = c.state /\ s.sessions = c.sessions
      /\ s.session_time = c.session_time /\ s.time = c.time
      /\ s.previous = c.previous /\ s.queue = c.queue
  BY DEF Tunns, Tunnels
<1>3. /\ s.want_handshake = (c.want_handshake /\ ~silent)
      /\ s.want_keepalive = c.want_keepalive
  BY Zenon DEF Tunns, Tunnels
<1> HIDE DEF s, r
<1>4. /\ k \in Tunns /\ k.me = c.me /\ k.state = c.state /\ k.sessions = c.sessions
      /\ k.session_time = c.session_time /\ k.time = c.time
      /\ k.previous = c.previous /\ k.queue = c.queue
  BY <1>2 DEF Tunns, Tunnels
<1>5. /\ k.want_handshake = (c.want_handshake /\ ~silent)
      /\ k.want_keepalive = (c.want_keepalive /\ ~quiet)
  BY Zenon, <1>2, <1>3 DEF Tunns, Tunnels
<1> HIDE DEF k
<1>6. /\ Ticked(c, s, {}) /\ Ticked(c, k, {})
  BY <1>2, <1>4 DEF Ticked, Tunns, Tunnels
<1>7. now \in Nat /\ TRUE \in BOOLEAN /\ Keepalive \in Nat
  BY DEF TypeOK, Keepalive
<1>8. CASE rekey
  <2>1. r = format_handshake_initiation(s, TRUE, now)
    BY <1>1, <1>8
  <2>2. r = Result(r.t, <<Init1(s)>>) /\ r.t \in Tunns /\ Started(s, r.t, now)
    BY <1>2, <1>7, <2>1, InitiationFacts
  <2>3. Idled(c, s, {}) /\ {} \in SUBSET {"TimePersistentKeepalive"}
    BY <1>2, <1>6 DEF Idled
  <2> QED
    BY <1>2, <2>2, <2>3 DEF r
<1>9. CASE ~rekey /\ ((quiet /\ c.want_keepalive) \/ due)
  <2> DEFINE S == IF due THEN {"TimePersistentKeepalive"} ELSE {}
  <2>1. p \in Tunns /\ SameButTimes(k, p) /\ Ticked(c, p, S)
    <3>1. CASE due
      <4> DEFINE w == timer_tick(k, "TimePersistentKeepalive")
      <4>1. w \in Tunns /\ SameButTimes(k, w) /\ Ticked(k, w, {"TimePersistentKeepalive"})
        BY <1>4, TickFacts DEF TimerNames
      <4>2. p = w
        BY <3>1
      <4> HIDE DEF w, p
      <4>3. Ticked(c, w, {"TimePersistentKeepalive"})
        BY <1>4, <4>1 DEF Ticked
      <4> QED
        BY <3>1, <4>1, <4>2, <4>3
    <3>2. CASE ~due
      BY <1>4, <1>6, <3>2 DEF SameButTimes
    <3> QED
      BY <3>1, <3>2
  <2>2. r = encapsulate(p, Keepalive, now)
    BY <1>1, <1>9
  <2> HIDE DEF p
  <2>3. /\ p.me = c.me /\ p.state = c.state /\ p.sessions = c.sessions
        /\ p.session_time = c.session_time /\ p.queue = c.queue /\ p.previous = c.previous
        /\ Alive(p) = Alive(c) /\ ~is_in_progress(p)
    BY <1>4, <2>1 DEF SameButTimes, Alive, is_in_progress
  <2>4. S \in SUBSET {"TimePersistentKeepalive"} /\ "TimeCurrent" \notin S
    OBVIOUS
  <2> HIDE DEF S
  <2>5. /\ r.t \in Tunns
        /\ \/ /\ Alive(p) # {}
              /\ \E slot \in Slots : r = Result(r.t, <<Data(p, slot, Keepalive)>>)
              /\ Spoke(p, r.t, SentTimers(Keepalive)) /\ r.t.want_handshake
           \/ r = Ignored(r.t) /\ is_in_progress(p) /\ SameButQueue(p, r.t)
           \/ \E q \in Tunns : /\ SameButQueue(p, q) /\ Started(q, r.t, now)
                               /\ r = Result(r.t, <<Init1(q)>>)
    BY <1>7, <2>1, <2>2, EncapsulateFacts, SMTT(30)
  <2>6. ASSUME Alive(p) # {}, Spoke(p, r.t, SentTimers(Keepalive))
        PROVE  \E R \in SUBSET {"TimeLastPacketSent", "TimePersistentKeepalive"} :
                 Spoke(c, r.t, R) /\ "TimeLastPacketSent" \in R
    <3>1. Spoke(p, r.t, {"TimeLastPacketSent"})
      BY <2>6 DEF SentTimers
    <3>2. Ticked(c, r.t, S \union {"TimeLastPacketSent"})
      BY <2>1, <2>4, <3>1, TickedTwice DEF Spoke
    <3>3. Spoke(c, r.t, S \union {"TimeLastPacketSent"})
      BY <2>3, <3>1, <3>2 DEF Spoke
    <3>4. S \union {"TimeLastPacketSent"} \in
            SUBSET {"TimeLastPacketSent", "TimePersistentKeepalive"}
      BY <2>4
    <3> QED
      BY <3>3, <3>4
  <2>7. ASSUME NEW q \in Tunns, SameButQueue(p, q)
        PROVE  Idled(c, q, S)
    BY <2>1, <2>3, <2>7 DEF Idled, SameButQueue, Ticked
  <2>8. ~(silent /\ c.want_handshake)
    BY <1>9
  <2> HIDE DEF rekey, silent, quiet, due
  <2> QED
    BY <2>3, <2>4, <2>5, <2>6, <2>7, <2>8 DEF r, silent
<1>10. CASE ~rekey /\ ~((quiet /\ c.want_keepalive) \/ due)
  <2>1. r = Ignored(k)
    BY <1>1, <1>10
  <2>2. r.t = k
    BY <2>1 DEF Ignored, Result
  <2>3. Idled(c, k, {})
    BY <1>4, <1>6 DEF Idled
  <2>4. /\ c.want_handshake /\ ~silent => k.want_handshake
        /\ c.want_keepalive /\ ~quiet => k.want_keepalive
    BY <1>5
  <2>5. ~(silent /\ c.want_handshake) /\ ~(quiet /\ c.want_keepalive) /\ ~due
    BY <1>10
  <2> HIDE DEF rekey, silent, quiet, due
  <2> QED
    BY <1>4, <2>1, <2>2, <2>3, <2>4, <2>5 DEF r, silent, quiet, due
<1> QED
  BY <1>8, <1>9, <1>10

\* Whichever branch update_timers takes, everything is in time again.
LEMMA UpdateTimersKeeps == IInv /\ UpdateTimers => IInv'
<1> SUFFICES ASSUME IInv, UpdateTimers
             PROVE  IInv'
  OBVIOUS
<1> DEFINE r == update_timers(t, now)
<1>1. TypeOK /\ Perform(r, FALSE) /\ now \in Nat
  BY DEF UpdateTimers, IInv, TypeOK
<1>2. Rest
  BY DEF UpdateTimers, Rest, IInv, TypeOK
<1>3. \E c : /\ Aged(c)
             /\ \/ is_expired(c) /\ r = Ignored(c)
                \/ r = Ignored(give_up(c, now))
                \/ /\ ~GivesUp(c, now) /\ is_in_progress(c)
                   /\ r = Result(r.t, <<Init1(c)>>)
                   /\ r.t \in Tunns /\ Started(c, r.t, now)
                \/ /\ ~GivesUp(c, now) /\ is_in_progress(c)
                   /\ ~(now - c.state.time_sent >= REKEY_TIMEOUT) /\ r = Ignored(c)
                \/ ~is_expired(c) /\ ~is_in_progress(c) /\ r = idle_timers(c, now)
  BY <1>1, UpdateFacts
<1> HIDE DEF r
<1>4. PICK c : /\ Aged(c)
               /\ \/ is_expired(c) /\ r = Ignored(c)
                  \/ r = Ignored(give_up(c, now))
                  \/ /\ ~GivesUp(c, now) /\ is_in_progress(c)
                     /\ r = Result(r.t, <<Init1(c)>>)
                     /\ r.t \in Tunns /\ Started(c, r.t, now)
                  \/ /\ ~GivesUp(c, now) /\ is_in_progress(c)
                     /\ ~(now - c.state.time_sent >= REKEY_TIMEOUT) /\ r = Ignored(c)
                  \/ ~is_expired(c) /\ ~is_in_progress(c) /\ r = idle_timers(c, now)
  BY <1>3
<1>5. From(c) /\ Wanting(c, log) /\ c \in Tunns /\ c.time.TimeCurrent = now /\ GaveUpAll(c)
        /\ c.me = Us
  BY <1>4, AgedFrom DEF Aged, From, Timely
<1>6. CASE is_expired(c) /\ r = Ignored(c)
  <2>1. Bounded(c, log)
    BY <1>6, StatesDiffer DEF Bounded, is_expired, is_in_progress
  <2> QED
    BY <1>1, <1>2, <1>5, <1>6, <2>1, NothingKeeps
<1>7. CASE r = Ignored(give_up(c, now))
  BY <1>1, <1>2, <1>5, <1>7, GiveUpKeeps
<1>8. ASSUME ~GivesUp(c, now), is_in_progress(c)
      PROVE  now - c.time.TimeLastHandshakeStarted < REKEY_ATTEMPT_TIME
  <2>1. ~(now - c.time.TimeLastHandshakeStarted >= REKEY_ATTEMPT_TIME)
    BY <1>8 DEF GivesUp
  <2> QED
    BY <1>1, <1>5, <2>1, FromFacts, TimerNamesFacts, Durations
<1>9. CASE /\ ~GivesUp(c, now) /\ is_in_progress(c)
           /\ r = Result(r.t, <<Init1(c)>>) /\ r.t \in Tunns /\ Started(c, r.t, now)
  <2> DEFINE v == r.t
  <2>1. r = Result(v, <<Init1(c)>>) /\ v \in Tunns /\ Started(c, v, now)
    BY <1>9
  <2>2. Ticked(c, c, {}) /\ {} \in SUBSET {"TimePersistentKeepalive"}
    BY <1>5 DEF Ticked, Tunns, Tunnels
  <2> HIDE DEF v
  <2> QED
    BY <1>1, <1>2, <1>5, <1>8, <1>9, <2>1, <2>2, StartedKeeps
<1>10. CASE /\ ~GivesUp(c, now) /\ is_in_progress(c)
            /\ ~(now - c.state.time_sent >= REKEY_TIMEOUT) /\ r = Ignored(c)
  <2>1. now - c.state.time_sent < REKEY_TIMEOUT /\ c.state.time_sent <= log.sent
    BY <1>1, <1>5, <1>10, FromFacts, Durations DEF From, Timely, Attempting
  <2>2. now - log.sent < REKEY_TIMEOUT
    BY <1>1, <1>5, <1>10, <2>1, FromFacts, Durations
  <2>3. Bounded(c, log)
    BY <1>5, <1>8, <1>10, <2>1, <2>2 DEF Bounded
  <2> QED
    BY <1>1, <1>2, <1>5, <1>10, <2>3, NothingKeeps
<1>11. CASE ~is_expired(c) /\ ~is_in_progress(c) /\ r = idle_timers(c, now)
  <2> DEFINE v == r.t
  <2>1. ASSUME NEW q \in Tunns, NEW S \in SUBSET {"TimePersistentKeepalive"}, v \in Tunns,
               Idled(c, q, S), Started(q, v, now), r = Result(v, <<Init1(q)>>)
        PROVE  IInv'
    <3> HIDE DEF v
    <3> QED
      BY <1>1, <1>2, <1>5, <1>11, <2>1, StartedKeeps DEF Idled
  <2>2. ASSUME v \in Tunns, Alive(c) # {}, v.want_handshake, NEW p, NEW slot,
               r = Result(v, <<Data(p, slot, Keepalive)>>),
               NEW S \in SUBSET {"TimeLastPacketSent", "TimePersistentKeepalive"},
               Spoke(c, v, S), "TimeLastPacketSent" \in S
        PROVE  IInv'
    <3>1. Data(p, slot, Keepalive).type = "data" /\ Data(p, slot, Keepalive).packet = Keepalive
      BY DEF Data
    <3>2. S \subseteq {"TimeLastPacketSent", "TimeLastDataPacketSent",
                       "TimePersistentKeepalive"}
      OBVIOUS
    <3>3. Unfinished(c)
      BY <1>11 DEF Unfinished
    <3> HIDE DEF v
    <3> QED
      BY <1>1, <1>2, <1>5, <2>2, <3>1, <3>2, <3>3, SpokeKeeps
  <2>3. ASSUME ~(SilenceDue(c, now) /\ c.want_handshake),
               ~(KeepaliveDue(c, now) /\ c.want_keepalive), ~PersistentDue(c, now),
               r = Ignored(v), v \in Tunns, v.time = c.time, Idled(c, v, {}),
               v.previous = c.previous, v.queue = c.queue,
               c.want_handshake /\ ~SilenceDue(c, now) => v.want_handshake,
               c.want_keepalive /\ ~KeepaliveDue(c, now) => v.want_keepalive
        PROVE  IInv'
    <3> HIDE DEF v
    <3>1. ~is_expired(v) /\ ~is_in_progress(v)
      BY <1>11, <2>3 DEF Idled, is_expired, is_in_progress
    <3>2. Wanting(v, log)
      BY <1>5, <1>11, <2>3, <3>1 DEF Wanting
    <3>3. Bounded(v, log)
      <4>1. PERSISTENT_KEEPALIVE > 0 =>
              ~(now - c.time.TimePersistentKeepalive >= PERSISTENT_KEEPALIVE)
        BY <2>3 DEF PersistentDue
      <4>2. c.time.TimePersistentKeepalive <= log.sent
        BY <1>5, <1>11 DEF From, Timely, SentSince
      <4>3. PERSISTENT_KEEPALIVE > 0 => now - log.sent < PERSISTENT_KEEPALIVE
        BY <1>1, <1>5, <4>1, <4>2, FromFacts, TimerNamesFacts, Durations
      <4> QED
        BY <1>5, <2>3, <3>1, <4>3 DEF Bounded
    <3>4. GaveUpAll(v)
      BY <3>1 DEF GaveUpAll
    <3>5. /\ v.me = Us /\ v.state = c.state /\ v.sessions = c.sessions
          /\ v.session_time = c.session_time
      BY <1>5, <2>3 DEF Idled
    <3> QED
      BY <1>1, <1>2, <1>5, <2>3, <3>2, <3>3, <3>4, <3>5, NothingKeeps
  <2>4. \/ /\ \E q \in Tunns, S \in SUBSET {"TimePersistentKeepalive"} :
                /\ Idled(c, q, S) /\ Started(q, v, now) /\ r = Result(v, <<Init1(q)>>)
           /\ v \in Tunns
        \/ /\ v \in Tunns /\ Alive(c) # {} /\ v.want_handshake
           /\ \E p, slot : r = Result(v, <<Data(p, slot, Keepalive)>>)
           /\ \E S \in SUBSET {"TimeLastPacketSent", "TimePersistentKeepalive"} :
                Spoke(c, v, S) /\ "TimeLastPacketSent" \in S
        \/ /\ ~(SilenceDue(c, now) /\ c.want_handshake)
           /\ ~(KeepaliveDue(c, now) /\ c.want_keepalive) /\ ~PersistentDue(c, now)
           /\ r = Ignored(v) /\ v \in Tunns /\ v.time = c.time /\ Idled(c, v, {})
           /\ v.previous = c.previous /\ v.queue = c.queue
           /\ c.want_handshake /\ ~SilenceDue(c, now) => v.want_handshake
           /\ c.want_keepalive /\ ~KeepaliveDue(c, now) => v.want_keepalive
    BY <1>1, <1>5, <1>11, IdleFacts
  <2> HIDE DEF v
  <2> QED
    BY <2>1, <2>2, <2>3, <2>4
<1> QED
  BY <1>4, <1>6, <1>7, <1>9, <1>10, <1>11

(***************************************************************************)
(* The invariant.                                                          *)
(***************************************************************************)
\* A new tunnel has been in time all along.
LEMMA InitIInv == Init => IInv
<1> SUFFICES ASSUME Init
             PROVE  IInv
  OBVIOUS
<1>1. /\ t = NewTunn(Us, 0, 0) /\ flushing = FALSE /\ now = 0 /\ peer_ephs = 0 /\ events = 0
      /\ log = [heard |-> 0, sent |-> 0, unanswered |-> 0, owed |-> 0, attempt |-> 0,
                born |-> [i \in Slots |-> 0]]
  BY DEF Init
<1>2. t \in Tunns
  <2>1. /\ [i \in Slots |-> NoSession] \in [Slots -> Sessions(Ends) \union {NoSession}]
        /\ [x \in TimerNames |-> 0] \in [TimerNames -> Nat]
        /\ [i \in Slots |-> 0] \in [Slots -> Nat]
        /\ [index |-> 0, eph |-> 0] \in [index : Nat, eph : Nat]
        /\ <<>> \in Seq(Nat)
    OBVIOUS
  <2>2. None \in HandshakeStates /\ Us \in Ends /\ zero \in Nat
    BY StatesDiffer DEF Ends, zero
  <2> QED
    BY <1>1, <2>1, <2>2 DEF NewTunn, Tunns, Tunnels
<1>3. /\ t.me = Us /\ t.state = None /\ t.sessions = [i \in Slots |-> NoSession]
      /\ t.time = [x \in TimerNames |-> 0] /\ t.session_time = [i \in Slots |-> 0]
  BY <1>1 DEF NewTunn
<1>4. TypeOK
  <2>1. log \in LogType
    BY <1>1 DEF LogType
  <2> QED
    BY <1>1, <1>2, <1>3, <2>1 DEF TypeOK
<1>5. Alive(t) = {} /\ ~is_expired(t) /\ ~is_in_progress(t)
  BY <1>3, StatesDiffer DEF Alive, is_expired, is_in_progress
<1>6. t.time.TimeCurrent = 0 /\ t.time.TimePersistentKeepalive = 0
        /\ t.time.TimeLastPacketSent = 0 /\ t.time.TimeLastPacketReceived = 0
  BY <1>3, TimerNamesFacts
<1>7. Clocked(t, now)
  BY <1>1, <1>3, <1>6 DEF Clocked
<1>8. Bounded(t, log)
  BY <1>1, <1>5, <1>6, Durations DEF Bounded
<1> QED
  BY <1>1, <1>4, <1>5, <1>6, <1>7, <1>8 DEF IInv, Timely, GaveUpAll, KeysUsed, Young, Attempting,
       SentSince, HeardSince, Awaiting, Owing, NotLater, Wanting

\* Every step keeps the invariant.
LEMMA NextIInv == IInv /\ [Next]_vars => IInv'
<1> SUFFICES ASSUME IInv, [Next]_vars
             PROVE  IInv'
  OBVIOUS
<1>1. CASE Send
  BY <1>1, SendKeeps
<1>2. CASE HearResponse
  BY <1>2, HearResponseKeeps
<1>3. CASE HearInit
  BY <1>3, HearInitKeeps
<1>4. CASE HearData
  BY <1>4, HearDataKeeps
<1>5. CASE HearCookie
  BY <1>5, HearCookieKeeps
<1>6. CASE FlushRound
  BY <1>6, FlushRoundKeeps
<1>7. CASE UpdateTimers
  BY <1>7, UpdateTimersKeeps
<1>8. CASE Tick
  BY <1>8, TickKeeps
<1>9. CASE UNCHANGED vars
  BY <1>9 DEF vars, IInv, TypeOK
<1> QED
  BY <1>1, <1>2, <1>3, <1>4, <1>5, <1>6, <1>7, <1>8, <1>9 DEF Next

\* The inductive invariant of the timers (timers.rs).
THEOREM Invariance == Spec => []IInv
<1>1. Init => IInv
  BY InitIInv
<1>2. IInv /\ [Next]_vars => IInv'
  BY NextIInv
<1> QED
  BY <1>1, <1>2, PTL DEF Spec

\* ExpiredIsEmpty always holds: whatever happens, give_up left nothing behind, and
\* only a handshake, started or answered, takes a tunnel out of Expired (timers.rs:136).
THEOREM GaveUpEverything == Spec => []ExpiredIsEmpty
<1>1. IInv => ExpiredIsEmpty
  BY DEF IInv, Timely, GaveUpAll, Alive, ExpiredIsEmpty
<1> QED
  BY <1>1, Invariance, PTL

\* NoStaleSession always holds: once update_timers has run no session is older than
\* REJECT_AFTER_TIME, however its slot was used before (timers.rs:146).
THEOREM SessionsAreYoung == Spec => []NoStaleSession
<1>1. IInv => NoStaleSession
  <2> SUFFICES ASSUME IInv, Updated, NEW i \in Slots, t.sessions[i] # NoSession
               PROVE  now - log.born[i] <= REJECT_AFTER_TIME
    BY DEF NoStaleSession
  <2>1. /\ t.session_time[i] <= log.born[i]
        /\ now - t.session_time[i] <= REJECT_AFTER_TIME
    BY DEF IInv, Timely, Young, Alive, Updated
  <2> QED
    BY <2>1, FromSelf, FromFacts, Durations
<1> QED
  BY <1>1, Invariance, PTL

\* AttemptIsBounded always holds: once update_timers has run, an initiation is
\* younger than REKEY_TIMEOUT and its attempt younger than REKEY_ATTEMPT_TIME.
THEOREM AttemptsAreBounded == Spec => []AttemptIsBounded
<1>1. IInv => AttemptIsBounded
  <2> SUFFICES ASSUME IInv, Updated, is_in_progress(t)
               PROVE  /\ now - t.state.time_sent < REKEY_TIMEOUT
                      /\ now - log.attempt < REKEY_ATTEMPT_TIME
    BY DEF AttemptIsBounded
  <2>1. /\ now - t.state.time_sent < REKEY_TIMEOUT
        /\ now - t.time.TimeLastHandshakeStarted < REKEY_ATTEMPT_TIME
        /\ t.time.TimeLastHandshakeStarted <= log.attempt
    BY DEF IInv, Timely, Attempting, Bounded, Updated
  <2>2. t.time.TimeLastHandshakeStarted \in Nat
    BY FromSelf, FromFacts, TimerNamesFacts
  <2> QED
    BY <2>1, <2>2, FromSelf, FromFacts, Durations
<1> QED
  BY <1>1, Invariance, PTL

\* NeverSilent always holds: with a persistent keepalive configured, something was
\* sent within its interval, or an initiation within REKEY_TIMEOUT.
THEOREM AlwaysHeardFrom == Spec => []NeverSilent
<1>1. IInv => NeverSilent
  BY DEF IInv, Bounded, NeverSilent, Updated
<1> QED
  BY <1>1, Invariance, PTL

(***************************************************************************)
(* What update_timers notices.                                             *)
(***************************************************************************)
\* What is known when it runs: the tunnel c at this instant, and the result r.
LEMMA UpdateStep ==
  ASSUME IInv, UpdateTimers
  PROVE  \E c, r :
           /\ From(c) /\ Wanting(c, log) /\ c.time.TimeCurrent = now
           /\ t' = r.t /\ log'.sent = IF r.out # <<>> THEN now ELSE log.sent
           /\ \/ is_expired(r.t)
              \/ /\ is_in_progress(c)
                 /\ \/ \E m : r.out = <<m>>
                    \/ ~(now - c.state.time_sent >= REKEY_TIMEOUT)
                 /\ is_in_progress(r.t)
              \/ /\ ~is_in_progress(c) /\ ~is_expired(c)
                 /\ (\E m : r.out = <<m>>) \/ ~(KeepaliveDue(c, now) /\ c.want_keepalive)
                 /\ is_in_progress(r.t) \/ ~(SilenceDue(c, now) /\ c.want_handshake)
<1> DEFINE r == update_timers(t, now)
<1>1. TypeOK /\ Perform(r, FALSE) /\ FALSE \in BOOLEAN
  BY DEF UpdateTimers, IInv
<1>2. \E c : /\ Aged(c)
             /\ \/ is_expired(c) /\ r = Ignored(c)
                \/ r = Ignored(give_up(c, now))
                \/ /\ ~GivesUp(c, now) /\ is_in_progress(c)
                   /\ r = Result(r.t, <<Init1(c)>>)
                   /\ r.t \in Tunns /\ Started(c, r.t, now)
                \/ /\ ~GivesUp(c, now) /\ is_in_progress(c)
                   /\ ~(now - c.state.time_sent >= REKEY_TIMEOUT) /\ r = Ignored(c)
                \/ ~is_expired(c) /\ ~is_in_progress(c) /\ r = idle_timers(c, now)
  BY <1>1, UpdateFacts
<1> HIDE DEF r
<1>3. PICK c : /\ Aged(c)
               /\ \/ is_expired(c) /\ r = Ignored(c)
                  \/ r = Ignored(give_up(c, now))
                  \/ /\ ~GivesUp(c, now) /\ is_in_progress(c)
                     /\ r = Result(r.t, <<Init1(c)>>)
                     /\ r.t \in Tunns /\ Started(c, r.t, now)
                  \/ /\ ~GivesUp(c, now) /\ is_in_progress(c)
                     /\ ~(now - c.state.time_sent >= REKEY_TIMEOUT) /\ r = Ignored(c)
                  \/ ~is_expired(c) /\ ~is_in_progress(c) /\ r = idle_timers(c, now)
  BY <1>2
<1>4. From(c) /\ Wanting(c, log) /\ c.time.TimeCurrent = now /\ c \in Tunns
  BY <1>3, AgedFrom DEF Aged
<1>5. t' = r.t /\ log'.sent = IF r.out # <<>> THEN now ELSE log.sent
  BY <1>1, LogFacts
<1>6. CASE is_expired(c) /\ r = Ignored(c)
  <2>1. r.t = c
    BY <1>6 DEF Ignored, Result
  <2> QED
    BY <1>4, <1>5, <1>6, <2>1
<1>7. CASE r = Ignored(give_up(c, now))
  <2>1. r.t.state = Expired
    BY <1>4, <1>7 DEF Ignored, Result, give_up, clear_all, clear, Tunns, Tunnels
  <2> QED
    BY <1>4, <1>5, <2>1 DEF is_expired
<1>8. CASE /\ is_in_progress(c) /\ r = Result(r.t, <<Init1(c)>>) /\ Started(c, r.t, now)
  <2>1. r.out = <<Init1(c)>> /\ is_in_progress(r.t)
    BY <1>8 DEF Result, Started, is_in_progress
  <2> QED
    BY <1>4, <1>5, <1>8, <2>1
<1>9. CASE /\ is_in_progress(c) /\ ~(now - c.state.time_sent >= REKEY_TIMEOUT)
           /\ r = Ignored(c)
  <2>1. is_in_progress(r.t)
    BY <1>9 DEF Ignored, Result
  <2> QED
    BY <1>4, <1>5, <1>9, <2>1
<1>10. CASE ~is_expired(c) /\ ~is_in_progress(c) /\ r = idle_timers(c, now)
  <2>1. \/ \E q : Started(q, r.t, now) /\ r = Result(r.t, <<Init1(q)>>)
        \/ /\ ~(SilenceDue(c, now) /\ c.want_handshake)
           /\ \E p, slot : r = Result(r.t, <<Data(p, slot, Keepalive)>>)
        \/ /\ ~(SilenceDue(c, now) /\ c.want_handshake)
           /\ ~(KeepaliveDue(c, now) /\ c.want_keepalive)
    BY <1>1, <1>4, <1>10, IdleFacts
  <2>2. (\E m : r.out = <<m>>) \/ ~(KeepaliveDue(c, now) /\ c.want_keepalive)
    BY <2>1 DEF Result
  <2>3. is_in_progress(r.t) \/ ~(SilenceDue(c, now) /\ c.want_handshake)
    BY <2>1 DEF Started, is_in_progress
  <2> QED
    BY <1>4, <1>5, <1>10, <2>2, <2>3
<1> QED
  BY <1>3, <1>6, <1>7, <1>8, <1>9, <1>10

\* SilenceIsNoticed: TimeLastDataPacketSent is later than TimeLastPacketReceived when
\* the unanswered data is two ticks younger than what was heard, however late the
\* tunnel's clock is, and want_handshake is still set (timers.rs:262).
THEOREM SilenceNoticed == Spec => SilenceIsNoticed
<1>1. IInv /\ [Next]_vars =>
        [UpdateTimers /\ log.unanswered >= log.heard + 2
           /\ now - log.heard >= KEEPALIVE_TIMEOUT + REKEY_TIMEOUT
         => is_in_progress(t') \/ is_expired(t')]_vars
  <2> SUFFICES ASSUME IInv, UpdateTimers, log.unanswered >= log.heard + 2,
                      now - log.heard >= KEEPALIVE_TIMEOUT + REKEY_TIMEOUT
               PROVE  is_in_progress(t') \/ is_expired(t')
    OBVIOUS
  <2>1. PICK c, r :
           /\ From(c) /\ Wanting(c, log) /\ c.time.TimeCurrent = now
           /\ t' = r.t
           /\ \/ is_expired(r.t)
              \/ is_in_progress(c) /\ is_in_progress(r.t)
              \/ /\ ~is_in_progress(c) /\ ~is_expired(c)
                 /\ is_in_progress(r.t) \/ ~(SilenceDue(c, now) /\ c.want_handshake)
    BY UpdateStep
  <2>2. /\ log.unanswered \in Nat /\ log.heard \in Nat /\ now \in Nat
        /\ c.time.TimeLastPacketReceived \in Nat /\ c.time.TimeLastDataPacketSent \in Nat
    BY <2>1, FromSelf, FromFacts, TimerNamesFacts
  <2>3. log.unanswered # 0
    BY <2>2
  <2>4. /\ c.time.TimeLastPacketReceived <= log.heard
        /\ c.time.TimeLastDataPacketSent >= log.unanswered - 1
    BY <2>1, <2>3 DEF From, Timely, HeardSince, Awaiting
  <2>5. SilenceDue(c, now)
    BY <2>2, <2>4, Durations DEF SilenceDue
  <2>6. is_in_progress(c) \/ c.want_handshake
    BY <2>1, <2>3 DEF Wanting
  <2> QED
    BY <2>1, <2>5, <2>6
<1> QED
  BY <1>1, Invariance, PTL DEF Spec, SilenceIsNoticed

\* DataIsAcknowledged: what is owed keeps want_keepalive set and is later than
\* TimeLastPacketSent, and while a handshake is in progress its initiation is
\* repeated sooner than a keepalive is due (timers.rs:274).
THEOREM DataAcknowledged == Spec => DataIsAcknowledged
<1>1. IInv /\ [Next]_vars =>
        [UpdateTimers /\ log.owed >= log.sent + 2 /\ now - log.sent >= KEEPALIVE_TIMEOUT
         => log'.sent = now \/ is_expired(t')]_vars
  <2> SUFFICES ASSUME IInv, UpdateTimers, log.owed >= log.sent + 2,
                      now - log.sent >= KEEPALIVE_TIMEOUT
               PROVE  log'.sent = now \/ is_expired(t')
    OBVIOUS
  <2>1. PICK c, r :
           /\ From(c) /\ Wanting(c, log) /\ c.time.TimeCurrent = now
           /\ t' = r.t /\ log'.sent = IF r.out # <<>> THEN now ELSE log.sent
           /\ \/ is_expired(r.t)
              \/ /\ is_in_progress(c)
                 /\ \/ \E m : r.out = <<m>>
                    \/ ~(now - c.state.time_sent >= REKEY_TIMEOUT)
              \/ /\ ~is_in_progress(c) /\ ~is_expired(c)
                 /\ (\E m : r.out = <<m>>) \/ ~(KeepaliveDue(c, now) /\ c.want_keepalive)
    BY UpdateStep
  <2>2. /\ log.owed \in Nat /\ log.sent \in Nat /\ now \in Nat
        /\ c.time.TimeLastPacketSent \in Nat /\ c.time.TimeLastDataPacketReceived \in Nat
        /\ is_in_progress(c) => c.state.time_sent \in Nat
    BY <2>1, FromSelf, FromFacts, TimerNamesFacts
  <2>3. log.owed # 0
    BY <2>2
  <2>4. /\ c.time.TimeLastPacketSent <= log.sent
        /\ c.time.TimeLastDataPacketReceived >= log.owed - 1
        /\ c.want_keepalive
    BY <2>1, <2>3 DEF From, Timely, SentSince, Owing, Wanting
  <2>5. KeepaliveDue(c, now)
    BY <2>2, <2>4, Durations DEF KeepaliveDue
  <2>6. is_in_progress(c) => now - c.state.time_sent >= REKEY_TIMEOUT
    <3>1. is_in_progress(c) => c.state.time_sent <= log.sent
      BY <2>1 DEF From, Timely, Attempting
    <3> QED
      BY <2>2, <3>1, Durations, TimersAssumption DEF TimersAssumption
  <2>7. \A m : <<m>> # <<>>
    OBVIOUS
  <2> QED
    BY <2>1, <2>4, <2>5, <2>6, <2>7
<1> QED
  BY <1>1, Invariance, PTL DEF Spec, DataIsAcknowledged
=============================================================================
