-------------------------------- MODULE Tunn --------------------------------
(***************************************************************************)
(* One end of a WireGuard tunnel: TunnInner of boringtun/src/noise/mod.rs  *)
(* with its Handshake (handshake.rs) and its Timers (timers.rs).           *)
(*                                                                         *)
(* A tunnel is a record t; each method that takes &mut self is an operator *)
(* that returns [t, out, up]: the tunnel afterwards, the messages it wrote *)
(* to the network in order, and the packet it wrote to the interface (or   *)
(* NoPacket).  An Err of the code returns out = <<>> and up = NoPacket.    *)
(* Tunn wraps each of them in its RwLock (mod.rs:154): each is atomic.     *)
(*                                                                         *)
(* Cryptography is symbolic.  The n-th ephemeral key a peer generates is   *)
(* the number n, which also stands for the timestamp of the initiation     *)
(* that carries it (see stamp).  A session key is the pair of ephemerals   *)
(* it was derived from; an AEAD tag verifies exactly when both ends derive *)
(* the same key.  The window of a session's counters is the set AntiReplay *)
(* specifies; ReplayWindow implements it.  dst is as large as the          *)
(* documentation of encapsulate demands (mod.rs:170), so no method fails   *)
(* for want of room.                                                       *)
(***************************************************************************)
EXTENDS Integers, Sequences, FiniteSets

CONSTANTS
  N_SESSIONS,               \* slots of the ring of sessions (8)
  MAX_QUEUE_DEPTH,          \* packets that may wait for a session (256)
  INDEX_MOD,                \* cyclic session indices of a peer (256)
  REKEY_AFTER_TIME, REJECT_AFTER_TIME, REKEY_ATTEMPT_TIME,
  REKEY_TIMEOUT, KEEPALIVE_TIMEOUT, COOKIE_EXPIRATION_TIME,
  PERSISTENT_KEEPALIVE      \* seconds between persistent keepalives, 0 for none

(***************************************************************************)
(* "number of sessions in the ring, better keep a PoT" (mod.rs:41): the    *)
(* ring divides the 256 session indices.                                   *)
(***************************************************************************)
ASSUME TunnAssumption ==
  /\ N_SESSIONS \in Nat \ {0}
  /\ INDEX_MOD \in Nat \ {0}
  /\ INDEX_MOD % N_SESSIONS = 0
  /\ MAX_QUEUE_DEPTH \in Nat \ {0}
  /\ {REKEY_AFTER_TIME, REJECT_AFTER_TIME, REKEY_ATTEMPT_TIME, REKEY_TIMEOUT,
      KEEPALIVE_TIMEOUT, COOKIE_EXPIRATION_TIME} \subseteq Nat \ {0}
  /\ PERSISTENT_KEEPALIVE \in Nat

Keepalive == 0                      \* the empty packet
NoPacket == -1                      \* nothing was written to the interface
Malformed == -2                     \* not an IP packet, or longer than its datagram
NoSession == [local |-> -1]
Slots == 0..N_SESSIONS - 1

TimerNames ==
  {"TimeCurrent", "TimeSessionEstablished", "TimeLastHandshakeStarted",
   "TimeLastPacketReceived", "TimeLastPacketSent", "TimeLastDataPacketReceived",
   "TimeLastDataPacketSent", "TimeCookieReceived", "TimePersistentKeepalive"}

(***************************************************************************)
(* HandshakeState.  InitReceived exists only inside                        *)
(* receive_handshake_initialization.                                       *)
(***************************************************************************)
None == [kind |-> "None"]
Expired == [kind |-> "Expired"]
InitSent(local, eph, now) ==
  [kind |-> "InitSent", local |-> local, eph |-> eph, time_sent |-> now]

IsInitSent(hs) == hs.kind = "InitSent"
is_in_progress(t) == IsInitSent(t.state)
is_expired(t) == t.state = Expired

(***************************************************************************)
(* TimeStamper and Tai64N: the system time at the tunnel's creation plus a *)
(* monotonic clock since, so that a later stamp is greater, also one of a  *)
(* later tunnel (the system clock is assumed not to be set back).  The one *)
(* stamp that an initiation takes is its number; zero is before them all.  *)
(***************************************************************************)
zero == 0
stamp(t) == t.ephs + 1
after(ts, other) == ts > other

(***************************************************************************)
(* A new tunnel.  ephs counts the ephemeral keys `me' generated before it  *)
(* (a peer that is removed and added again starts a new tunnel).  The code *)
(* counts a tunnel's times from its creation; here they are instants of    *)
(* the common clock, and creation is the instant now.                      *)
(***************************************************************************)
NewTunn(me, ephs, now) ==
  [me |-> me, ephs |-> ephs, next_index |-> 0, last_ts |-> zero,
   state |-> None, previous |-> None,
   mac1 |-> [index |-> 0, eph |-> 0], cookie |-> FALSE,
   sessions |-> [i \in Slots |-> NoSession], current |-> 0, queue |-> <<>>,
   time |-> [n \in TimerNames |-> now], session_time |-> [i \in Slots |-> now],
   want_keepalive |-> FALSE, want_handshake |-> FALSE, is_initiator |-> FALSE]

(***************************************************************************)
(* The tunnels between the peers of P, for type invariants.                *)
(***************************************************************************)
Keys(P) == [initiator : P, init : Nat, resp : Nat]
Sessions(P) ==
  [local : Nat, peer : Nat, key : Keys(P), counter : Nat,
   received : {S \in SUBSET Nat : IsFiniteSet(S)}]
HandshakeStates ==
  {None, Expired} \union
    [kind : {"InitSent"}, local : Nat, eph : Nat, time_sent : Nat]

Tunnels(P) ==
  [me : P, ephs : Nat, next_index : Nat, last_ts : Nat,
   state : HandshakeStates, previous : HandshakeStates,
   mac1 : [index : Nat, eph : Nat], cookie : BOOLEAN,
   sessions : [Slots -> Sessions(P) \union {NoSession}], current : Nat,
   queue : Seq(Nat), time : [TimerNames -> Nat], session_time : [Slots -> Nat],
   want_keepalive : BOOLEAN, want_handshake : BOOLEAN, is_initiator : BOOLEAN]

Result(t, out) == [t |-> t, out |-> out, up |-> NoPacket]
Ignored(t) == Result(t, <<>>)

(***************************************************************************)
(* Timers.  timer_tick writes TimeCurrent, the time of the last call of    *)
(* update_timers, and not the time of the event.                           *)
(***************************************************************************)
timer_tick(t, name) ==
  [t EXCEPT !.time[name] = t.time.TimeCurrent,
            !.want_keepalive = IF name = "TimeLastPacketReceived" THEN TRUE
                               ELSE IF name = "TimeLastPacketSent" THEN FALSE ELSE @,
            !.want_handshake = IF name = "TimeLastPacketReceived" THEN FALSE
                               ELSE IF name = "TimeLastPacketSent" THEN TRUE ELSE @]

timer_tick_session_established(t, is_initiator, index) ==
  LET e == timer_tick(t, "TimeSessionEstablished")
  IN  [e EXCEPT !.session_time[index % N_SESSIONS] = t.time.TimeCurrent,
                !.is_initiator = is_initiator]

\* Timers::clear.
clear(t, now) ==
  [t EXCEPT !.time = [n \in TimerNames |-> now],
            !.want_handshake = FALSE, !.want_keepalive = FALSE]

clear_all(t, now) ==
  clear([t EXCEPT !.sessions = [i \in Slots |-> NoSession], !.queue = <<>>], now)

\* Mutant: the previous outgoing handshake is kept.
give_up_KeepsPrevious(t, now) == clear_all([t EXCEPT !.state = Expired], now)

\* set_expired and clear_all, as update_timers calls them.
give_up(t, now) == clear_all([t EXCEPT !.previous = Expired, !.state = Expired], now)

(***************************************************************************)
(* Sessions                                                                *)
(***************************************************************************)
Session(local, peer, key) ==
  [local |-> local, peer |-> peer, key |-> key, counter |-> 0, received |-> {}]

Slot(index) == index % N_SESSIONS
CurrentSession(t) == t.sessions[Slot(t.current)]
HasSession(t) == CurrentSession(t) # NoSession

set_current_session(t, new) ==
  IF \/ t.current = new
     \/ /\ HasSession(t)
        /\ t.session_time[Slot(new)] < t.session_time[Slot(t.current)]
  THEN t
  ELSE [t EXCEPT !.current = new]

\* format_packet_data on the session of a slot: the packet takes the session's
\* sending counter and increments it.
Data(t, slot, packet) ==
  LET s == t.sessions[slot]
  IN  [type |-> "data", from |-> t.me, receiver_idx |-> s.peer, key |-> s.key,
       counter |-> s.counter, packet |-> packet]
Sealed(t, slot) == [t EXCEPT !.sessions[slot].counter = @ + 1]

(***************************************************************************)
(* Handshake messages.  inc_index and the ephemeral key go together: every *)
(* message takes the next of both.                                         *)
(***************************************************************************)
inc_index(t) == (t.next_index + 1) % INDEX_MOD

\* What formatting either message writes: index, ephemeral, last_mac1.
Formatted(t) ==
  [t EXCEPT !.next_index = inc_index(t), !.ephs = @ + 1,
            !.mac1 = [index |-> inc_index(t), eph |-> t.ephs + 1]]

Init1(t) ==
  [type |-> "init", from |-> t.me, sender_idx |-> inc_index(t), eph |-> t.ephs + 1,
   timestamp |-> stamp(t), mac2 |-> t.cookie]

\* Mutant: the response names the index before the session's.
Resp2_StaleIndex(t, m) ==
  [type |-> "resp", from |-> t.me, sender_idx |-> t.next_index,
   receiver_idx |-> m.sender_idx, to |-> m.eph, eph |-> t.ephs + 1, mac2 |-> t.cookie]

Resp2(t, m) ==
  [type |-> "resp", from |-> t.me, sender_idx |-> inc_index(t),
   receiver_idx |-> m.sender_idx, to |-> m.eph, eph |-> t.ephs + 1, mac2 |-> t.cookie]

\* TunnInner::format_handshake_initiation.
format_handshake_initiation(t, force_resend, now) ==
  IF is_in_progress(t) /\ ~force_resend THEN Ignored(t)
  ELSE
    LET c == IF is_expired(t) THEN clear(t, now) ELSE t
        h == [Formatted(c) EXCEPT !.previous = t.state,
                                  !.state = InitSent(inc_index(t), t.ephs + 1, now)]
        s == IF is_in_progress(t) THEN h ELSE timer_tick(h, "TimeLastHandshakeStarted")
    IN  Result(timer_tick(s, "TimeLastPacketSent"), <<Init1(t)>>)

(***************************************************************************)
(* encapsulate, and the packet queue                                       *)
(***************************************************************************)
queue_packet(t, packet) ==
  IF Len(t.queue) < MAX_QUEUE_DEPTH
  THEN [t EXCEPT !.queue = Append(@, packet)] ELSE t

encapsulate(t, packet, now) ==
  IF HasSession(t)
  THEN LET slot == Slot(t.current)
           s == timer_tick(Sealed(t, slot), "TimeLastPacketSent")
       IN  Result(IF packet = Keepalive THEN s ELSE timer_tick(s, "TimeLastDataPacketSent"),
                  <<Data(t, slot, packet)>>)
  ELSE format_handshake_initiation(queue_packet(t, packet), FALSE, now)

\* decapsulate with an empty datagram.
send_queued_packet(t, now) ==
  IF t.queue = <<>> THEN Ignored(t)
  ELSE encapsulate([t EXCEPT !.queue = Tail(@)], Head(t.queue), now)

(***************************************************************************)
(* handle_verified_packet                                                  *)
(***************************************************************************)
\* receive_handshake_initialization, format_handshake_response, and the
\* session they yield, stored in its slot but not made current.
handle_handshake_init(t, m) ==
  IF ~after(m.timestamp, t.last_ts) THEN Ignored(t)
  ELSE
    LET index == inc_index(t)
        key == [initiator |-> m.from, init |-> m.eph, resp |-> t.ephs + 1]
        h == [Formatted(t) EXCEPT !.last_ts = m.timestamp,
                                  !.previous = t.state, !.state = None]
        s == [h EXCEPT !.sessions[Slot(index)] = Session(index, m.sender_idx, key)]
        r == timer_tick(timer_tick(s, "TimeLastPacketReceived"), "TimeLastPacketSent")
    IN  Result(timer_tick_session_established(r, FALSE, index), <<Resp2(t, m)>>)

\* The outgoing handshake a response belongs to: the current one first.
Awaited(t, m) ==
  IF IsInitSent(t.state) /\ t.state.local = m.receiver_idx THEN "state"
  ELSE IF IsInitSent(t.previous) /\ t.previous.local = m.receiver_idx THEN "previous"
  ELSE "none"

\* Mutant: it may be answered again.
Consumed_Kept(t, which) == t

\* The outgoing handshake that was answered is over.
Consumed(t, which) == [t EXCEPT ![which] = None]

handle_handshake_response(t, m) ==
  LET which == Awaited(t, m)
  IN  IF which = "none" THEN Ignored(t)
      ELSE IF t[which].eph # m.to THEN Ignored(t)     \* InvalidAeadTag
      ELSE
        LET index == m.receiver_idx
            slot == Slot(index)
            key == [initiator |-> t.me, init |-> m.to, resp |-> m.eph]
            h == [Consumed(t, which) EXCEPT !.sessions[slot] =
                    Session(index, m.sender_idx, key)]
            r == timer_tick(Sealed(h, slot), "TimeLastPacketReceived")
            e == timer_tick_session_established(r, TRUE, slot)
        IN  Result(set_current_session(e, index), <<Data(h, slot, Keepalive)>>)

handle_cookie_reply(t, m) ==
  IF t.mac1.eph = 0 \/ t.mac1.index # m.receiver_idx \/ t.mac1.eph # m.mac1
  THEN Ignored(t)
  ELSE Ignored(timer_tick(timer_tick([t EXCEPT !.cookie = TRUE], "TimeLastPacketReceived"),
                          "TimeCookieReceived"))

\* Mutant: the counter is not checked.
Opens_NoCounter(t, s, m) ==
  /\ s # NoSession
  /\ s.local = m.receiver_idx
  /\ s.key = m.key /\ m.from # t.me

\* receive_packet_data accepts the packet: index, counter and tag are right.
Opens(t, s, m) ==
  /\ s # NoSession
  /\ s.local = m.receiver_idx
  /\ m.counter \notin s.received
  /\ s.key = m.key /\ m.from # t.me

\* A packet that was decrypted goes to the interface.
validate_decapsulated_packet(t, packet) ==
  IF packet \in {Keepalive, Malformed} THEN Ignored(t)      \* Done, InvalidPacket
  ELSE [t |-> timer_tick(t, "TimeLastDataPacketReceived"), out |-> <<>>, up |-> packet]

handle_data(t, m) ==
  LET slot == Slot(m.receiver_idx)
  IN  IF ~Opens(t, t.sessions[slot], m) THEN Ignored(t)
      ELSE
        LET d == [t EXCEPT !.sessions[slot].received = @ \union {m.counter}]
            r == timer_tick(set_current_session(d, m.receiver_idx), "TimeLastPacketReceived")
        IN  validate_decapsulated_packet(r, m.packet)

handle_verified_packet(t, m) ==
  CASE m.type = "init" -> handle_handshake_init(t, m)
    [] m.type = "resp" -> handle_handshake_response(t, m)
    [] m.type = "cookie" -> handle_cookie_reply(t, m)
    [] m.type = "data" -> handle_data(t, m)

(***************************************************************************)
(* decapsulate.  The empty datagram is the repeated call that flushes the  *)
(* queue.  (The rate limiter lets every datagram pass here; see            *)
(* RateLimiter.)                                                           *)
(***************************************************************************)
Repeat == [type |-> "repeat"]

decapsulate(t, datagram, now) ==
  IF datagram = Repeat THEN send_queued_packet(t, now)
  ELSE handle_verified_packet(t, datagram)

(***************************************************************************)
(* update_timers                                                           *)
(***************************************************************************)
\* Mutant: all sessions have the age of the latest.
update_session_timers_OneAge(t, now) ==
  LET old(i) == now - t.time.TimeSessionEstablished > REJECT_AFTER_TIME
  IN  [t EXCEPT !.sessions = [i \in Slots |-> IF old(i) THEN NoSession ELSE t.sessions[i]],
                !.session_time = [i \in Slots |-> IF old(i) THEN now ELSE t.session_time[i]]]

update_session_timers(t, now) ==
  LET old(i) == now - t.session_time[i] > REJECT_AFTER_TIME
  IN  [t EXCEPT !.sessions = [i \in Slots |-> IF old(i) THEN NoSession ELSE t.sessions[i]],
                !.session_time = [i \in Slots |-> IF old(i) THEN now ELSE t.session_time[i]]]

\* Mutant: the attempt is measured from its last initiation.
GivesUp_FromLast(t, now) ==
  \/ now - t.time.TimeSessionEstablished >= 3 * REJECT_AFTER_TIME
  \/ is_in_progress(t) /\ now - t.state.time_sent >= REKEY_ATTEMPT_TIME

\* No keys were exchanged, or no answer came to the initiations, for too long.
GivesUp(t, now) ==
  \/ now - t.time.TimeSessionEstablished >= 3 * REJECT_AFTER_TIME
  \/ is_in_progress(t) /\ now - t.time.TimeLastHandshakeStarted >= REKEY_ATTEMPT_TIME

\* The initiator of the session in use renews it when it grows old.
RekeyDue(t, now) ==
  LET age == now - t.time.TimeSessionEstablished
      usedSince(name) == t.time.TimeSessionEstablished < t.time[name]
  IN  /\ t.is_initiator
      /\ \/ usedSince("TimeLastDataPacketSent") /\ age >= REKEY_AFTER_TIME
         \/ /\ usedSince("TimeLastDataPacketReceived")
            /\ age >= REJECT_AFTER_TIME - KEEPALIVE_TIMEOUT - REKEY_TIMEOUT

\* Mutant: the silence is measured from the last datagram sent.
SilenceDue_FromSent(t, now) ==
  /\ t.time.TimeLastDataPacketSent > t.time.TimeLastPacketReceived
  /\ now - t.time.TimeLastPacketSent >= KEEPALIVE_TIMEOUT + REKEY_TIMEOUT

\* Data was sent and nothing was heard since.
SilenceDue(t, now) ==
  /\ t.time.TimeLastDataPacketSent > t.time.TimeLastPacketReceived
  /\ now - t.time.TimeLastPacketReceived >= KEEPALIVE_TIMEOUT + REKEY_TIMEOUT

\* Mutant: one tick late.
KeepaliveDue_Late(t, now) ==
  /\ t.time.TimeLastDataPacketReceived > t.time.TimeLastPacketSent
  /\ now - t.time.TimeLastPacketSent > KEEPALIVE_TIMEOUT

\* Data was received and nothing was sent since.
KeepaliveDue(t, now) ==
  /\ t.time.TimeLastDataPacketReceived > t.time.TimeLastPacketSent
  /\ now - t.time.TimeLastPacketSent >= KEEPALIVE_TIMEOUT

\* Mutant: one tick late.
PersistentDue_Late(t, now) ==
  /\ PERSISTENT_KEEPALIVE > 0
  /\ now - t.time.TimePersistentKeepalive > PERSISTENT_KEEPALIVE

PersistentDue(t, now) ==
  /\ PERSISTENT_KEEPALIVE > 0
  /\ now - t.time.TimePersistentKeepalive >= PERSISTENT_KEEPALIVE

\* The branch of update_timers that runs when no initiation awaits an answer.
idle_timers(t, now) ==
  LET silent == SilenceDue(t, now)
      rekey == RekeyDue(t, now) \/ (silent /\ t.want_handshake)
      quiet == KeepaliveDue(t, now)
      s == [t EXCEPT !.want_handshake = @ /\ ~silent]
      k == [s EXCEPT !.want_keepalive = @ /\ ~quiet]
      p == IF PersistentDue(t, now) THEN timer_tick(k, "TimePersistentKeepalive") ELSE k
  IN  IF rekey THEN format_handshake_initiation(s, TRUE, now)
      ELSE IF (quiet /\ t.want_keepalive) \/ PersistentDue(t, now)
      THEN encapsulate(p, Keepalive, now)
      ELSE Ignored(p)

update_timers(t, now) ==
  LET u == update_session_timers([t EXCEPT !.time.TimeCurrent = now], now)
      c == [u EXCEPT !.cookie =
              @ /\ now - u.time.TimeCookieReceived < COOKIE_EXPIRATION_TIME]
  IN  IF is_expired(u) THEN Ignored(u)
      ELSE IF GivesUp(c, now) THEN Ignored(give_up(c, now))
      ELSE IF ~is_in_progress(c) THEN idle_timers(c, now)
      ELSE IF now - c.state.time_sent >= REKEY_TIMEOUT
      THEN format_handshake_initiation(c, TRUE, now)
      ELSE Ignored(c)
=============================================================================
