---------------------------- MODULE RateLimiter ----------------------------
(***************************************************************************)
(* The rate limiter of handshakes, boringtun/src/noise/rate_limiter.rs,    *)
(* shared by the workers of a device, and the initiators it answers with   *)
(* cookies (the cookie part of handshake.rs and timers.rs).                *)
(*                                                                         *)
(* A worker inside verify_packet is a job: the counter and the clock are   *)
(* read in steps of their own, and other workers and the periodic reset    *)
(* run in between.  A cookie is a MAC of the address and of the period     *)
(* that the secret is for; here it is that pair, with the instant it was   *)
(* handed out as history.  mac2 is the cookie it was made with.  A mac1    *)
(* names the initiation it is in.                                          *)
(***************************************************************************)
EXTENDS Integers, FiniteSets

CONSTANTS
  Workers,                  \* threads that verify datagrams
  Resetters,                \* threads that call reset_count
  Peers,                    \* initiators that answer cookie replies
  Addrs,                    \* addresses they may have
  NoAddr,                   \* a datagram whose caller gives no address
  Limit,                    \* handshakes admitted between two resets
  RESET_PERIOD, COOKIE_REFRESH,                     \* rate_limiter.rs
  REKEY_TIMEOUT, COOKIE_EXPIRATION_TIME,            \* timers.rs
  MaxTime, MaxInits, MaxOthers, MaxMoves            \* bounds

Other == "other"          \* an initiator elsewhere, and its address

ASSUME LimiterAssumption ==
  /\ Limit \in Nat
  /\ RESET_PERIOD \in Nat \ {0} /\ COOKIE_REFRESH \in Nat \ {0}
  /\ REKEY_TIMEOUT \in Nat /\ COOKIE_EXPIRATION_TIME \in Nat
  /\ {MaxTime, MaxInits, MaxOthers, MaxMoves} \subseteq Nat
  /\ NoAddr \notin Addrs /\ Other \notin Peers

\* The periods of the code are 128, 120 and 5 seconds: two retries, each a tick of the
\* timers late, fit in the life of a secret, and one in the life of a cookie, which may
\* end a tick early.
ASSUME CookieAssumption ==
  /\ 2 * (REKEY_TIMEOUT + 1) <= COOKIE_REFRESH
  /\ REKEY_TIMEOUT + 2 < COOKIE_EXPIRATION_TIME

VARIABLES
  now,          \* Instant::now(), counted from start_time
  count,        \* handshakes since the last reset
  last_reset,
  resetting,    \* by thread: the instant it read before it took the lock
  job,          \* by worker: the datagram in verify_packet
  peer,         \* by initiator: its handshake and its cookie
  net,          \* datagrams under way
  others,       \* handshakes of other initiators so far
  moves,        \* changes of an address so far
  log           \* history

limiter == <<count, last_reset, resetting>>
vars == <<now, limiter, job, peer, net, others, moves, log>>

Never == -1
NoCookie == [addr |-> NoAddr, period |-> Never, issued |-> Never]
Idle == [at |-> "idle"]

\* A cookie verifies when address and period do; the rest is history.
Same(c, d) == c.addr = d.addr /\ c.period = d.period

\* RateLimiter::new, and initiators that have sent nothing yet.
Init ==
  /\ now = 0
  /\ count = 0
  /\ last_reset = 0
  /\ resetting = [r \in Resetters |-> Never]
  /\ job = [w \in Workers |-> Idle]
  /\ peer \in [Peers -> {[addr |-> a, mac1 |-> 0, cookie |-> NoCookie, received |-> Never,
                          waiting |-> FALSE, sent |-> 0] : a \in Addrs \union {NoAddr}}]
  /\ net = {}
  /\ others = 0
  /\ moves = 0
  /\ log = [resets |-> 0,             \* how often the count was set to 0
            free |-> 0,               \* admitted without a cookie since then
            proved |-> [age |-> 0, same |-> TRUE],    \* of the last cookie that was
                                      \* accepted: age, and from its own address
            refused |-> [p \in Peers |-> 0],   \* prompt refusals in a row
            prompt |-> [p \in Peers |-> FALSE]]  \* the last initiation was refused so

Tick ==
  /\ now < MaxTime
  /\ now' = now + 1
  /\ UNCHANGED <<limiter, job, peer, net, others, moves, log>>

(***************************************************************************)
(* reset_count: the clock is read before the mutex of last_reset is taken. *)
(***************************************************************************)
ReadClock(r) ==
  /\ resetting[r] = Never
  /\ resetting' = [resetting EXCEPT ![r] = now]
  /\ UNCHANGED <<now, count, last_reset, job, peer, net, others, moves, log>>

\* Mutant: last_reset is not brought up to date.
ResetCount_Forgets(r) ==
  /\ resetting[r] # Never
  /\ resetting' = [resetting EXCEPT ![r] = Never]
  /\ IF resetting[r] - last_reset >= RESET_PERIOD
     THEN /\ count' = 0
          /\ log' = [log EXCEPT !.resets = @ + 1, !.free = 0]
     ELSE UNCHANGED <<count, log>>
  /\ UNCHANGED <<now, last_reset, job, peer, net, others, moves>>

ResetCount(r) ==
  /\ resetting[r] # Never
  /\ resetting' = [resetting EXCEPT ![r] = Never]
  /\ IF resetting[r] - last_reset >= RESET_PERIOD
     THEN /\ count' = 0
          /\ last_reset' = resetting[r]
          /\ log' = [log EXCEPT !.resets = @ + 1, !.free = 0]
     ELSE UNCHANGED <<count, last_reset, log>>
  /\ UNCHANGED <<now, job, peer, net, others, moves>>

(***************************************************************************)
(* verify_packet.  A datagram whose mac1 is wrong changes nothing, nor     *)
(* does one that is no handshake.                                          *)
(***************************************************************************)
Handshakes == {m \in net : m.type = "init"}

Receive(w) ==
  /\ job[w] = Idle
  /\ \E m \in Handshakes :
       /\ job' = [job EXCEPT ![w] = [at |-> "count", m |-> m]]
       /\ net' = net \ {m}
  /\ UNCHANGED <<now, limiter, peer, others, moves, log>>

\* A handshake of an initiator that does not answer cookie replies.
ReceiveOther(w) ==
  /\ job[w] = Idle
  /\ others < MaxOthers
  /\ others' = others + 1
  /\ job' = [job EXCEPT ![w] = [at |-> "count", m |->
       [type |-> "init", from |-> Other, addr |-> Other, mac1 |-> 0, mac2 |-> NoCookie]]]
  /\ UNCHANGED <<now, limiter, peer, net, moves, log>>

\* The handshake goes on to its tunnel, which answers it.
Answer(m) ==
  net' = IF m.from = Other THEN net
         ELSE net \union {[type |-> "resp", to |-> m.from, addr |-> m.addr, mac1 |-> m.mac1]}
NotRefused(refused, m) == [p \in Peers |-> IF p = m.from THEN 0 ELSE refused[p]]

\* The value before the increment.
is_under_load == count >= Limit

IsUnderLoad(w) ==
  /\ job[w].at = "count"
  /\ count' = count + 1
  /\ LET m == job[w].m
     IN  \/ /\ ~is_under_load
            /\ job' = [job EXCEPT ![w] = Idle]
            /\ log' = [log EXCEPT !.free = @ + 1, !.refused = NotRefused(@, m)]
            /\ Answer(m)
         \/ /\ is_under_load
            /\ job' = [job EXCEPT ![w] = IF m.addr = NoAddr THEN Idle      \* UnderLoad
                                         ELSE [at |-> "cookie", m |-> m]]
            /\ UNCHANGED <<net, log>>
  /\ UNCHANGED <<now, last_reset, resetting, peer, others, moves>>

\* Mutant: the secret never changes.
current_cookie_Constant(addr) ==
  [addr |-> addr, period |-> 0, issued |-> now]

\* Mutant: the secret changes with the clock.
current_cookie_EveryTick(addr) ==
  [addr |-> addr, period |-> now, issued |-> now]

current_cookie(addr) ==
  [addr |-> addr, period |-> now \div COOKIE_REFRESH, issued |-> now]

\* The reply is sealed for the mac1 of the handshake, under a nonce of its own.
format_cookie_reply(m, cookie) ==
  [type |-> "cookie", to |-> m.from, addr |-> m.addr, mac1 |-> m.mac1, cookie |-> cookie]

\* The clock is read, and mac2 is compared with the cookie of this instant.
CheckMac2(w) ==
  /\ job[w].at = "cookie"
  /\ job' = [job EXCEPT ![w] = Idle]
  /\ LET m == job[w].m
         cookie == current_cookie(m.addr)
     IN  \/ /\ Same(m.mac2, cookie)
            /\ log' = [log EXCEPT !.proved = [age |-> now - m.mac2.issued,
                                              same |-> m.mac2.addr = m.addr],
                                  !.refused = NotRefused(@, m)]
            /\ Answer(m)
         \/ /\ ~Same(m.mac2, cookie)
            /\ net' = IF m.from = Other THEN net
                      ELSE net \union {format_cookie_reply(m, cookie)}
            /\ UNCHANGED log
  /\ UNCHANGED <<now, limiter, peer, others, moves>>

(***************************************************************************)
(* An initiator                                                            *)
(***************************************************************************)
\* History: a refusal counts for the next initiation if it came back in the
\* instant it was asked for, and the retry follows without delay.
RefusedSoFar(p) ==
  IF log.prompt[p] /\ now <= peer[p].sent + REKEY_TIMEOUT + 1 THEN log.refused[p] ELSE 0

\* append_mac1_and_mac2: mac2 is made with the cookie, if there is one.
Send(p, cookie) ==
  LET n == peer[p].mac1 + 1
  IN  /\ n <= MaxInits
      /\ peer' = [peer EXCEPT ![p] = [@ EXCEPT !.mac1 = n, !.cookie = cookie,
                                              !.waiting = TRUE, !.sent = now]]
      /\ net' = net \union {[type |-> "init", from |-> p, addr |-> peer[p].addr,
                             mac1 |-> n, mac2 |-> cookie]}
      /\ log' = [log EXCEPT !.refused[p] = RefusedSoFar(p), !.prompt[p] = FALSE]
      /\ UNCHANGED <<now, limiter, job, others, moves>>

\* A packet, with no handshake in progress.
StartHandshake(p) ==
  /\ ~peer[p].waiting
  /\ Send(p, peer[p].cookie)

\* update_timers: clear an old cookie, and send again what is not answered.  The stamp
\* of the cookie is the last update_timers, up to a tick before the cookie came.
UpdateTimers(p) ==
  \E early \in {0, 1} :
    LET old == /\ peer[p].cookie # NoCookie
               /\ now - peer[p].received + early >= COOKIE_EXPIRATION_TIME
        cookie == IF old THEN NoCookie ELSE peer[p].cookie
        due == peer[p].waiting /\ now - peer[p].sent >= REKEY_TIMEOUT
    IN  \/ /\ due
           /\ Send(p, cookie)
        \/ /\ old /\ ~due
           /\ peer' = [peer EXCEPT ![p].cookie = NoCookie]
           /\ UNCHANGED <<now, limiter, job, net, others, moves, log>>

\* What reaches an initiator where it is now.
Replies(p, type) == {m \in net : m.type = type /\ m.to = p /\ m.addr = peer[p].addr}

\* What is sealed for the last mac1 sent opens, and nothing else.
receive_cookie_reply(p) ==
  \E m \in Replies(p, "cookie") :
    /\ net' = net \ {m}
    /\ IF m.mac1 = peer[p].mac1
       THEN /\ peer' = [peer EXCEPT ![p].cookie = m.cookie, ![p].received = now]
            /\ log' = IF peer[p].sent = now
                      THEN [log EXCEPT !.refused[p] = @ + 1, !.prompt[p] = TRUE] ELSE log
       ELSE UNCHANGED <<peer, log>>
    /\ UNCHANGED <<now, limiter, job, others, moves>>

ReceiveResponse(p) ==
  \E m \in Replies(p, "resp") :
    /\ net' = net \ {m}
    /\ peer' = IF m.mac1 = peer[p].mac1 THEN [peer EXCEPT ![p].waiting = FALSE] ELSE peer
    /\ UNCHANGED <<now, limiter, job, others, moves, log>>

\* The initiator has another address from now on.
Move(p) ==
  /\ moves < MaxMoves
  /\ moves' = moves + 1
  /\ peer[p].addr # NoAddr
  /\ \E a \in Addrs \ {peer[p].addr} : peer' = [peer EXCEPT ![p].addr = a]
  /\ log' = [log EXCEPT !.refused[p] = 0, !.prompt[p] = FALSE]
  /\ UNCHANGED <<now, limiter, job, net, others>>

Next ==
  \/ Tick
  \/ \E r \in Resetters : ReadClock(r) \/ ResetCount(r)
  \/ \E w \in Workers : Receive(w) \/ ReceiveOther(w) \/ IsUnderLoad(w) \/ CheckMac2(w)
  \/ \E p \in Peers : \/ StartHandshake(p) \/ UpdateTimers(p) \/ Move(p)
                      \/ receive_cookie_reply(p) \/ ReceiveResponse(p)

Spec == Init /\ [][Next]_vars

-----------------------------------------------------------------------------
(***************************************************************************)
(* Properties                                                              *)
(***************************************************************************)

\* However workers and resets interleave, and however late a thread that has read
\* the clock gets the lock: no more than Limit handshakes are admitted without a cookie
\* between two resets (is_under_load takes its place atomically), and there
\* have been no more resets than periods (the instant that is compared is the
\* one that becomes last_reset).
RateIsBounded ==
  /\ log.free <= Limit
  /\ log.resets * RESET_PERIOD <= now

\* Beyond the limit, a handshake is admitted only from the address that its
\* cookie was handed out to, less than COOKIE_REFRESH before it is checked:
\* current_cookie binds both, though initiators move, keep cookies for a time of
\* their own, and replies are delayed.
CookieIsRecent == log.proved.same /\ log.proved.age < COOKIE_REFRESH

\* An initiator that hears each refusal at once, retries in time and does not
\* move is not refused three times in a row, though the secret changes between
\* its attempts: the cookie it gets replaces the one it has, and the next
\* attempt comes in the same period or the one after.
NeverRefusedThrice == \A p \in Peers : log.refused[p] <= 2
=============================================================================
