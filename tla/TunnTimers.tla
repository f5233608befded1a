----------------------------- MODULE TunnTimers -----------------------------
(***************************************************************************)
(* One tunnel against the clock.  The peer at the other end is free: at    *)
(* any time it may answer an outgoing handshake, start one, send data, or  *)
(* ask for a cookie, and it may stay silent for ever.  The history `log'   *)
(* notes when things really happened, on the common clock; the tunnel only *)
(* knows TimeCurrent, the time of its last call of update_timers.          *)
(***************************************************************************)
EXTENDS Tunn

CONSTANTS
  Horizon,       \* bound: the last instant
  MaxEvents      \* bound: packets and datagrams that reach the tunnel

\* timers.rs:16: 5 and 10 seconds.
ASSUME TimersAssumption == REKEY_TIMEOUT <= KEEPALIVE_TIMEOUT

VARIABLES
  t,             \* the tunnel
  flushing,      \* the handler of a datagram is in its flush loop
  now,           \* Instant::now(), in ticks
  peer_ephs,     \* ephemeral keys the peer has generated
  events,        \* packets and datagrams so far
  log            \* history

vars == <<t, flushing, now, peer_ephs, events, log>>

Us == "us"
Them == "them"
Packet == 1      \* any packet that is not a keepalive

Init ==
  /\ t = NewTunn(Us, 0, 0)
  /\ flushing = FALSE
  /\ now = 0
  /\ peer_ephs = 0
  /\ events = 0
  /\ log = [heard |-> 0,             \* last authenticated datagram received
            sent |-> 0,              \* last datagram sent
            unanswered |-> 0,        \* last data sent after it, 0 if none
            owed |-> 0,              \* last data received after it, 0 if none
            attempt |-> 0,           \* start of the handshake attempt, if in progress
            born |-> [i \in Slots |-> 0]]  \* creation of the session in a slot

IsPacket(m) == m.type = "data" /\ m.packet # Keepalive
SessionKey(u, i) == IF u.sessions[i] = NoSession THEN NoSession ELSE u.sessions[i].key

\* The tunnel performs a method with result r, having heard from its peer or not.
Perform(r, heard) ==
  LET spoke == r.out # <<>>
      data == \E i \in 1..Len(r.out) : IsPacket(r.out[i])
  IN  /\ t' = r.t
      /\ log' =
           [heard |-> IF heard THEN now ELSE log.heard,
            sent |-> IF spoke THEN now ELSE log.sent,
            unanswered |-> IF is_expired(r.t) THEN 0
                           ELSE IF data THEN now ELSE IF heard THEN 0 ELSE log.unanswered,
            owed |-> IF is_expired(r.t) \/ spoke THEN 0
                     ELSE IF r.up # NoPacket THEN now ELSE log.owed,
            attempt |-> IF ~is_in_progress(t) THEN now ELSE log.attempt,
            born |-> [i \in Slots |->
                        IF SessionKey(r.t, i) # SessionKey(t, i) THEN now ELSE log.born[i]]]

Event ==
  /\ events < MaxEvents
  /\ events' = events + 1

\* The interface hands over a packet.
Send ==
  /\ Event
  /\ Perform(encapsulate(t, Packet, now), FALSE)
  /\ UNCHANGED <<flushing, now, peer_ephs>>

\* A datagram of the peer arrives.
Hear(m) ==
  LET r == decapsulate(t, m, now)
  IN  /\ Event
      /\ ~flushing
      /\ Perform(r, r # Ignored(t))
      /\ flushing' = (r.out # <<>>)
      /\ UNCHANGED now

HearResponse ==
  /\ peer_ephs' = peer_ephs + 1
  /\ \E hs \in {t.state, t.previous} :
       /\ IsInitSent(hs)
       /\ Hear([type |-> "resp", from |-> Them, sender_idx |-> 1,
                receiver_idx |-> hs.local, to |-> hs.eph, eph |-> peer_ephs + 1,
                mac2 |-> FALSE])

HearInit ==
  /\ peer_ephs' = peer_ephs + 1
  /\ Hear([type |-> "init", from |-> Them, sender_idx |-> 1, eph |-> peer_ephs + 1,
           timestamp |-> peer_ephs + 1, mac2 |-> FALSE])

HearData ==
  /\ \E i \in Slots, packet \in {Keepalive, Malformed, Packet} :
       LET s == t.sessions[i]
       IN  /\ s # NoSession
           /\ Hear([type |-> "data", from |-> Them, receiver_idx |-> s.local,
                    key |-> s.key, counter |-> Cardinality(s.received),
                    packet |-> packet])
  /\ UNCHANGED peer_ephs

HearCookie ==
  /\ t.mac1.eph # 0
  /\ Hear([type |-> "cookie", from |-> Them, receiver_idx |-> t.mac1.index,
           mac1 |-> t.mac1.eph])
  /\ UNCHANGED peer_ephs

\* A round of the flush loop of its handler.
FlushRound ==
  LET r == decapsulate(t, Repeat, now)
  IN  /\ flushing
      /\ Perform(r, FALSE)
      /\ flushing' = (r.out # <<>>)
      /\ UNCHANGED <<now, peer_ephs, events>>

UpdateTimers ==
  /\ t.time.TimeCurrent < now
  /\ Perform(update_timers(t, now), FALSE)
  /\ UNCHANGED <<flushing, now, peer_ephs, events>>

\* The periodic event runs update_timers at least once in every tick.
Tick ==
  /\ now < Horizon
  /\ t.time.TimeCurrent = now
  /\ now' = now + 1
  /\ UNCHANGED <<t, flushing, peer_ephs, events, log>>

Next ==
  \/ Send \/ HearResponse \/ HearInit \/ HearData \/ HearCookie
  \/ FlushRound \/ UpdateTimers \/ Tick

Spec == Init /\ [][Next]_vars

(***************************************************************************)
(* Properties                                                              *)
(***************************************************************************)
\* update_timers has run at this instant.
Updated == t.time.TimeCurrent = now

\* timers.rs:262: when update_timers finds data that stays unanswered, KEEPALIVE +
\* REKEY_TIMEOUT after the last datagram was heard, it leaves a handshake in
\* progress, provided the data was sent two ticks or more after that datagram.
SilenceIsNoticed ==
  [][UpdateTimers /\ log.unanswered >= log.heard + 2
       /\ now - log.heard >= KEEPALIVE_TIMEOUT + REKEY_TIMEOUT
     => is_in_progress(t') \/ is_expired(t')]_vars

\* timers.rs:274: data that was received two ticks or more after anything was sent
\* is acknowledged by some datagram when update_timers runs KEEPALIVE after that.
DataIsAcknowledged ==
  [][UpdateTimers /\ log.owed >= log.sent + 2 /\ now - log.sent >= KEEPALIVE_TIMEOUT
     => log'.sent = now \/ is_expired(t')]_vars

\* timers.rs:284: with a persistent keepalive configured, a tunnel that has not
\* given up is never silent that long; only an initiation that awaits its answer
\* may take the place of keepalives, and it is repeated every REKEY_TIMEOUT.
NeverSilent ==
  Updated /\ PERSISTENT_KEEPALIVE > 0 /\ ~is_expired(t) =>
    \/ now - log.sent < PERSISTENT_KEEPALIVE
    \/ is_in_progress(t) /\ now - log.sent < REKEY_TIMEOUT

\* No session outlives REJECT_AFTER_TIME: none is there to encrypt or decrypt
\* with once update_timers has run at a later instant.
NoStaleSession ==
  Updated => \A i \in Slots :
    t.sessions[i] # NoSession => now - log.born[i] <= REJECT_AFTER_TIME

\* A tunnel that gave up holds no keys, no packets and no outgoing handshake.
ExpiredIsEmpty ==
  is_expired(t) =>
    /\ \A i \in Slots : t.sessions[i] = NoSession
    /\ t.queue = <<>>
    /\ ~IsInitSent(t.previous)

\* An initiation is retransmitted every REKEY_TIMEOUT, and the attempt ends, by an
\* answer or by giving up, within REKEY_ATTEMPT_TIME.
AttemptIsBounded ==
  Updated /\ is_in_progress(t) =>
    /\ now - t.state.time_sent < REKEY_TIMEOUT
    /\ now - log.attempt < REKEY_ATTEMPT_TIME
=============================================================================
