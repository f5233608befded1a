-------------------------- MODULE RateLimiterProofs --------------------------
(***************************************************************************)
(* Proofs about the rate limiter, for any number of workers, resets and    *)
(* initiators, any limit and any periods.  RateIsBounded is inductive once *)
(* the handshakes admitted are held against the count, and the resets      *)
(* against the instant of the last one; CookieIsRecent, once every cookie  *)
(* anywhere is of the period in which it was handed out;                   *)
(* NeverRefusedThrice, once an initiation is at one place at a time, and   *)
(* its cookie is held against the instants at which it and the one before  *)
(* were sent.                                                              *)
(***************************************************************************)
EXTENDS RateLimiter, TLAPS

Everywhere == Addrs \union {NoAddr, Other}

\* A cookie is of the period it was handed out in, but for the cookie of nobody.
Cookies ==
  {c \in [addr : Everywhere, period : Int, issued : Int] :
     c.period = Never \/ (c.issued \in 0..now /\ c.period = c.issued \div COOKIE_REFRESH)}

PeerType ==
  peer \in [Peers -> [addr : Everywhere, mac1 : Int, cookie : Cookies, received : Int,
                      waiting : BOOLEAN, sent : Int]]

\* Wherever a datagram is, its cookie is one.
NetHasCookies ==
  \A m \in net : /\ m.addr \in Everywhere
                 /\ m.type = "init" => m.mac2 \in Cookies
                 /\ m.type = "cookie" => m.cookie \in Cookies

JobsHaveCookies ==
  /\ job = [w \in Workers |-> job[w]]
  /\ \A w \in Workers : job[w].at \in {"count", "cookie"} =>
       job[w].m.addr \in Everywhere /\ job[w].m.mac2 \in Cookies

LogType ==
  log \in [resets : Nat, free : Nat, proved : [age : Int, same : BOOLEAN],
           refused : [Peers -> Int], prompt : [Peers -> BOOLEAN]]

\* The resets so far fit before the last one, and a thread holds an instant that has been.
ResetsFit ==
  /\ now \in Nat /\ last_reset \in Nat
  /\ resetting \in [Resetters -> Int]
  /\ \A r \in Resetters : resetting[r] <= now
  /\ last_reset <= now
  /\ log.resets * RESET_PERIOD <= last_reset

\* Each handshake that was admitted is in the count.
AdmittedAreCounted ==
  /\ count \in Nat
  /\ log.free <= count /\ log.free <= Limit

IInv ==
  /\ LogType /\ ResetsFit /\ AdmittedAreCounted
  /\ PeerType /\ NetHasCookies /\ JobsHaveCookies
  /\ CookieIsRecent

-----------------------------------------------------------------------------
\* Two instants of one period are less than a period apart.
LEMMA SamePeriod ==
  ASSUME NEW R \in Nat \ {0}, NEW a \in Nat, NEW b \in Nat, a \div R = b \div R
  PROVE  b - a < R
<1> DEFINE q == a \div R
<1>1. q \in Nat /\ a = R * q + (a % R) /\ a % R \in 0..(R - 1)
  OBVIOUS
<1>2. b = R * (b \div R) + (b % R) /\ b % R \in 0..(R - 1)
  OBVIOUS
<1>3. b = R * q + (b % R)
  BY <1>2
<1>4. R * q \in Int
  BY <1>1
<1> HIDE DEF q
<1> QED
  BY <1>1, <1>2, <1>3, <1>4

-----------------------------------------------------------------------------
(***************************************************************************)
(* Each step keeps the invariant.                                          *)
(***************************************************************************)
LEMMA InitIInv == Init => IInv
<1> SUFFICES ASSUME Init PROVE IInv
  OBVIOUS
<1>1. NoCookie \in Cookies
  BY DEF NoCookie, Never, Cookies, Everywhere
<1>2. PeerType
  <2>1. Addrs \union {NoAddr} \subseteq Everywhere
    BY DEF Everywhere
  <2> DEFINE R == [addr : Everywhere, mac1 : Int, cookie : Cookies, received : Int,
                   waiting : BOOLEAN, sent : Int]
  <2>2. ASSUME NEW a \in Addrs \union {NoAddr}
        PROVE  [addr |-> a, mac1 |-> 0, cookie |-> NoCookie, received |-> Never,
                waiting |-> FALSE, sent |-> 0] \in R
    BY <1>1, <2>1, <2>2 DEF Never
  <2> HIDE DEF R
  <2>3. peer \in [Peers -> R]
    BY <2>2 DEF Init
  <2> QED
    BY <2>3 DEF PeerType, R
<1>3. LogType /\ ResetsFit /\ AdmittedAreCounted
  BY LimiterAssumption DEF Init, LogType, ResetsFit, AdmittedAreCounted, Never
<1>4. NetHasCookies /\ JobsHaveCookies
  BY DEF Init, NetHasCookies, JobsHaveCookies, Idle
<1>5. CookieIsRecent
  BY LimiterAssumption DEF Init, CookieIsRecent
<1> QED
  BY <1>2, <1>3, <1>4, <1>5 DEF IInv

\* A cookie stays one as the clock moves on.
LEMMA CookiesStay == now \in Nat /\ now' = now + 1 => Cookies \subseteq Cookies'
BY LimiterAssumption DEF Cookies, Never, Everywhere

\* The clock moves on.
LEMMA TickIInv == IInv /\ Tick => IInv'
<1> SUFFICES ASSUME IInv, Tick PROVE IInv'
  OBVIOUS
<1>1. now \in Nat /\ now' = now + 1
  BY DEF IInv, ResetsFit, Tick
<1>2. Cookies \subseteq Cookies'
  BY <1>1, CookiesStay
<1>3. LogType' /\ ResetsFit' /\ AdmittedAreCounted' /\ CookieIsRecent'
  BY <1>1 DEF IInv, LogType, ResetsFit, AdmittedAreCounted, CookieIsRecent, Tick, limiter
<1>4. Everywhere' = Everywhere
  BY DEF Everywhere
<1>5. PeerType'
  BY <1>2, <1>4 DEF IInv, PeerType, Tick
<1>6. NetHasCookies' /\ JobsHaveCookies'
  BY <1>2, <1>4 DEF IInv, NetHasCookies, JobsHaveCookies, Tick
<1> QED
  BY <1>3, <1>5, <1>6 DEF IInv

\* A reset: the instant that is compared is the one that is kept.
LEMMA ResetIInv ==
  ASSUME IInv, NEW r \in Resetters, ReadClock(r) \/ ResetCount(r)
  PROVE  IInv'
<1>1. PeerType' /\ NetHasCookies' /\ JobsHaveCookies'
  BY DEF IInv, PeerType, NetHasCookies, JobsHaveCookies, Cookies, Everywhere, ReadClock, ResetCount
<1>2. CASE ReadClock(r)
  BY <1>1, <1>2 DEF IInv, LogType, ResetsFit, AdmittedAreCounted, CookieIsRecent, ReadClock
<1>3. CASE ResetCount(r)
  <2> DEFINE due == resetting[r] - last_reset >= RESET_PERIOD
  <2>1. /\ now' = now
        /\ resetting' = [resetting EXCEPT ![r] = Never]
        /\ due => /\ count' = 0 /\ last_reset' = resetting[r]
                  /\ log' = [log EXCEPT !.resets = log.resets + 1, !.free = 0]
        /\ ~due => UNCHANGED <<count, last_reset, log>>
    BY <1>3 DEF ResetCount
  <2>2. LogType /\ ResetsFit /\ AdmittedAreCounted /\ CookieIsRecent
    BY DEF IInv
  <2>3. CASE due
    <3>1. log'.resets = log.resets + 1 /\ log'.free = 0 /\ log'.proved = log.proved
      BY <2>1, <2>2, <2>3 DEF LogType
    <3> DEFINE P == [age : Int, same : BOOLEAN]
               L == [resets : Nat, free : Nat, proved : P,
                     refused : [Peers -> Int], prompt : [Peers -> BOOLEAN]]
    <3>6. log.resets + 1 \in Nat /\ log \in L
      BY <2>2 DEF LogType
    <3> HIDE DEF P
    <3>7. [log EXCEPT !.resets = log.resets + 1, !.free = 0] \in L
      BY <3>6
    <3>8. LogType'
      BY <2>1, <2>3, <3>7 DEF LogType, P
    <3>2. log'.resets * RESET_PERIOD = log.resets * RESET_PERIOD + RESET_PERIOD
      BY <2>2, <3>1, LimiterAssumption DEF LogType
    <3>3. log.resets * RESET_PERIOD \in Nat
      BY <2>2, LimiterAssumption DEF LogType
    <3>4. ResetsFit'
      BY <2>1, <2>2, <2>3, <3>1, <3>2, <3>3, LimiterAssumption DEF ResetsFit, Never
    <3>5. AdmittedAreCounted' /\ CookieIsRecent'
      BY <2>1, <2>2, <2>3, <3>1, LimiterAssumption DEF AdmittedAreCounted, CookieIsRecent
    <3> QED
      BY <1>1, <3>4, <3>5, <3>8 DEF IInv
  <2>4. CASE ~due
    BY <1>1, <2>1, <2>2, <2>4
       DEF IInv, LogType, ResetsFit, AdmittedAreCounted, CookieIsRecent, Never
  <2> QED
    BY <2>3, <2>4
<1> QED
  BY <1>2, <1>3

\* A worker takes a handshake.
LEMMA ReceiveIInv ==
  ASSUME IInv, NEW w \in Workers, Receive(w) \/ ReceiveOther(w)
  PROVE  IInv'
<1>1. LogType' /\ ResetsFit' /\ AdmittedAreCounted' /\ CookieIsRecent' /\ PeerType'
  BY DEF IInv, LogType, ResetsFit, AdmittedAreCounted, CookieIsRecent, PeerType, Cookies,
         Everywhere, Receive, ReceiveOther, limiter
<1>2. NetHasCookies'
  BY DEF IInv, NetHasCookies, Cookies, Everywhere, Receive, ReceiveOther
<1>3. JobsHaveCookies'
  <2>1. Cookies' = Cookies /\ Everywhere' = Everywhere
    BY DEF Cookies, Everywhere, Receive, ReceiveOther, limiter
  <2>2. CASE Receive(w)
    <3>1. PICK m \in Handshakes : job' = [job EXCEPT ![w] = [at |-> "count", m |-> m]]
      BY <2>2 DEF Receive
    <3>2. m.addr \in Everywhere /\ m.mac2 \in Cookies
      BY DEF IInv, NetHasCookies, Handshakes
    <3> QED
      BY <2>1, <3>1, <3>2 DEF IInv, JobsHaveCookies
  <2>3. CASE ReceiveOther(w)
    <3>1. NoCookie \in Cookies /\ Other \in Everywhere
      BY DEF NoCookie, Never, Cookies, Everywhere
    <3> DEFINE m == [type |-> "init", from |-> Other, addr |-> Other, mac1 |-> 0,
                     mac2 |-> NoCookie]
    <3>2. job' = [job EXCEPT ![w] = [at |-> "count", m |-> m]]
      BY <2>3 DEF ReceiveOther
    <3>3. m.addr \in Everywhere /\ m.mac2 \in Cookies
      BY <3>1
    <3> HIDE DEF m
    <3> QED
      BY <2>1, <3>2, <3>3 DEF IInv, JobsHaveCookies
  <2> QED
    BY <2>2, <2>3
<1> QED
  BY <1>1, <1>2, <1>3 DEF IInv

\* A datagram that answers has no cookie of its own to keep.
LEMMA AnswerKeeps ==
  ASSUME NetHasCookies, NEW m, m.addr \in Everywhere, Answer(m), UNCHANGED now
  PROVE  NetHasCookies'
<1>1. Cookies' = Cookies /\ Everywhere' = Everywhere
  BY DEF Cookies, Everywhere
<1> DEFINE resp == [type |-> "resp", to |-> m.from, addr |-> m.addr, mac1 |-> m.mac1]
<1>2. net' \subseteq net \union {resp}
  BY DEF Answer
<1>3. resp.type = "resp" /\ resp.addr \in Everywhere
  OBVIOUS
<1> HIDE DEF resp
<1> QED
  BY <1>1, <1>2, <1>3 DEF NetHasCookies

\* A handshake is counted, and admitted while the count is below the limit.
LEMMA CountIInv == ASSUME IInv, NEW w \in Workers, IsUnderLoad(w) PROVE IInv'
<1> DEFINE m == job[w].m
<1>1. /\ LogType /\ ResetsFit /\ AdmittedAreCounted /\ PeerType /\ NetHasCookies
      /\ JobsHaveCookies /\ CookieIsRecent
  BY DEF IInv
<1>2. /\ UNCHANGED <<now, last_reset, resetting, peer>> /\ count' = count + 1
      /\ Cookies' = Cookies /\ Everywhere' = Everywhere
  BY DEF IsUnderLoad, Cookies, Everywhere
<1>3. PeerType'
  BY <1>1, <1>2 DEF PeerType
<1>4. m.addr \in Everywhere /\ m.mac2 \in Cookies
  BY <1>1 DEF JobsHaveCookies, IsUnderLoad
<1>5. CASE ~is_under_load
  <2>1. /\ job' = [job EXCEPT ![w] = Idle] /\ Answer(m)
        /\ log' = [log EXCEPT !.free = log.free + 1, !.refused = NotRefused(log.refused, m)]
    BY <1>5 DEF IsUnderLoad
  <2>2. NetHasCookies'
    BY <1>1, <1>2, <1>4, <2>1, AnswerKeeps
  <2>3. JobsHaveCookies'
    BY <1>1, <1>2, <2>1 DEF JobsHaveCookies, Idle
  <2>4. log'.free = log.free + 1 /\ log'.resets = log.resets /\ log'.proved = log.proved
    BY <1>1, <2>1 DEF LogType
  <2>5. LogType'
    <3> DEFINE P == [age : Int, same : BOOLEAN]
               Q == [Peers -> Int]
               L == [resets : Nat, free : Nat, proved : P,
                     refused : Q, prompt : [Peers -> BOOLEAN]]
    <3>1. log.free + 1 \in Nat /\ log \in L /\ NotRefused(log.refused, m) \in Q
      BY <1>1 DEF LogType, NotRefused
    <3> HIDE DEF P, Q
    <3>2. [log EXCEPT !.free = log.free + 1, !.refused = NotRefused(log.refused, m)] \in L
      BY <3>1
    <3> QED
      BY <2>1, <3>2 DEF LogType, P, Q
  <2>6. ResetsFit' /\ CookieIsRecent'
    BY <1>1, <1>2, <2>4 DEF ResetsFit, CookieIsRecent
  <2>7. AdmittedAreCounted'
    BY <1>1, <1>2, <1>5, <2>4, LimiterAssumption DEF AdmittedAreCounted, LogType, is_under_load
  <2> QED
    BY <1>3, <2>2, <2>3, <2>5, <2>6, <2>7 DEF IInv
<1>6. CASE is_under_load
  <2>1. /\ UNCHANGED <<net, log>>
        /\ job' = [job EXCEPT ![w] = IF m.addr = NoAddr THEN Idle ELSE [at |-> "cookie", m |-> m]]
    BY <1>6 DEF IsUnderLoad
  <2>2. JobsHaveCookies'
    <3> HIDE DEF m
    <3> QED
      BY <1>1, <1>2, <1>4, <2>1 DEF JobsHaveCookies, Idle
  <2>3. LogType' /\ ResetsFit' /\ AdmittedAreCounted' /\ NetHasCookies' /\ CookieIsRecent'
    BY <1>1, <1>2, <2>1
       DEF LogType, ResetsFit, AdmittedAreCounted, NetHasCookies, CookieIsRecent
  <2> QED
    BY <1>3, <2>2, <2>3 DEF IInv
<1> QED
  BY <1>5, <1>6

\* A cookie that verifies was handed out in this period, to this address.
LEMMA CheckIInv == ASSUME IInv, NEW w \in Workers, CheckMac2(w) PROVE IInv'
<1> DEFINE m == job[w].m
           cookie == current_cookie(m.addr)
<1>1. /\ LogType /\ ResetsFit /\ AdmittedAreCounted /\ PeerType /\ NetHasCookies
      /\ JobsHaveCookies /\ CookieIsRecent
  BY DEF IInv
<1>2. /\ UNCHANGED <<now, limiter, peer>> /\ job' = [job EXCEPT ![w] = Idle]
      /\ Cookies' = Cookies /\ Everywhere' = Everywhere
  BY DEF CheckMac2, Cookies, Everywhere
<1>3. PeerType' /\ JobsHaveCookies'
  BY <1>1, <1>2 DEF PeerType, JobsHaveCookies, Idle
<1>4. m.addr \in Everywhere /\ m.mac2 \in Cookies
  BY <1>1 DEF JobsHaveCookies, CheckMac2
<1>5. cookie \in Cookies
  <2>1. now \in Nat /\ now \div COOKIE_REFRESH \in Int
    BY <1>1, LimiterAssumption DEF ResetsFit
  <2> QED
    BY <1>4, <2>1 DEF Cookies, current_cookie
<1>6. CASE Same(m.mac2, cookie)
  <2> DEFINE proved == [age |-> now - m.mac2.issued, same |-> m.mac2.addr = m.addr]
  <2>1. /\ Answer(m)
        /\ log' = [log EXCEPT !.proved = proved, !.refused = NotRefused(log.refused, m)]
    BY <1>6 DEF CheckMac2, Same
  <2>2. NetHasCookies'
    BY <1>1, <1>2, <1>4, <2>1, AnswerKeeps
  <2>3. m.mac2.period = now \div COOKIE_REFRESH /\ m.mac2.addr = m.addr
    BY <1>6 DEF Same, current_cookie
  <2>4. now \in Nat /\ now \div COOKIE_REFRESH \in Nat
    BY <1>1, LimiterAssumption DEF ResetsFit
  <2>5. m.mac2.issued \in 0..now /\ m.mac2.issued \div COOKIE_REFRESH = now \div COOKIE_REFRESH
    BY <1>4, <2>3, <2>4 DEF Cookies, Never
  <2>6. now - m.mac2.issued < COOKIE_REFRESH
    BY <2>4, <2>5, SamePeriod, LimiterAssumption
  <2>7. proved \in [age : Int, same : BOOLEAN] /\ proved.same /\ proved.age < COOKIE_REFRESH
    <3> DEFINE age == now - m.mac2.issued
    <3>1. age \in Int /\ age < COOKIE_REFRESH
      BY <2>4, <2>5, <2>6
    <3>2. (m.mac2.addr = m.addr) = TRUE
      BY <2>3
    <3> HIDE DEF age
    <3>3. proved = [age |-> age, same |-> TRUE]
      BY <3>2 DEF age
    <3> HIDE DEF proved
    <3> QED
      BY <3>1, <3>3
  <2> HIDE DEF proved
  <2>8. log'.free = log.free /\ log'.resets = log.resets /\ log'.proved = proved
    BY <1>1, <2>1 DEF LogType
  <2>9. LogType'
    <3> DEFINE P == [age : Int, same : BOOLEAN]
               Q == [Peers -> Int]
               L == [resets : Nat, free : Nat, proved : P,
                     refused : Q, prompt : [Peers -> BOOLEAN]]
    <3>1. proved \in P /\ log \in L /\ NotRefused(log.refused, m) \in Q
      BY <1>1, <2>7 DEF LogType, NotRefused
    <3> HIDE DEF P, Q
    <3>2. [log EXCEPT !.proved = proved, !.refused = NotRefused(log.refused, m)] \in L
      BY <3>1
    <3> QED
      BY <2>1, <3>2 DEF LogType, P, Q
  <2>10. ResetsFit' /\ AdmittedAreCounted' /\ CookieIsRecent'
    BY <1>1, <1>2, <2>7, <2>8 DEF ResetsFit, AdmittedAreCounted, CookieIsRecent, limiter
  <2> QED
    BY <1>3, <2>2, <2>9, <2>10 DEF IInv
<1>7. CASE ~Same(m.mac2, cookie)
  <2> DEFINE reply == format_cookie_reply(m, cookie)
  <2>1. net' \subseteq net \union {reply} /\ log' = log
    BY <1>7 DEF CheckMac2
  <2>2. reply.type = "cookie" /\ reply.addr \in Everywhere /\ reply.cookie \in Cookies
    <3> HIDE DEF cookie
    <3> QED
      BY <1>4, <1>5 DEF format_cookie_reply
  <2> HIDE DEF reply
  <2>3. NetHasCookies'
    BY <1>1, <1>2, <2>1, <2>2 DEF NetHasCookies
  <2>4. LogType' /\ ResetsFit' /\ AdmittedAreCounted' /\ CookieIsRecent'
    BY <1>1, <1>2, <2>1
       DEF LogType, ResetsFit, AdmittedAreCounted, CookieIsRecent, limiter
  <2> QED
    BY <1>3, <2>3, <2>4 DEF IInv
<1> QED
  BY <1>6, <1>7

-----------------------------------------------------------------------------
(***************************************************************************)
(* The steps of an initiator leave the limiter alone.                      *)
(***************************************************************************)
\* The part of the invariant that a step of initiator p may disturb.
LEMMA InitiatorIInv ==
  ASSUME IInv, NEW p \in Peers, UNCHANGED <<now, limiter, job>>,
         PeerType', NetHasCookies',
         \/ log' = log
         \/ \E n \in Int, b \in BOOLEAN :
              log' = [log EXCEPT !.refused[p] = n, !.prompt[p] = b]
  PROVE  IInv'
<1>1. LogType'
  <2> DEFINE P == [age : Int, same : BOOLEAN]
             Q == [Peers -> Int]
             F == [Peers -> BOOLEAN]
             L == [resets : Nat, free : Nat, proved : P, refused : Q, prompt : F]
  <2>1. log \in L
    BY DEF IInv, LogType
  <2>2. ASSUME NEW n \in Int, NEW b \in BOOLEAN
        PROVE  [log EXCEPT !.refused[p] = n, !.prompt[p] = b] \in L
    <3>1. log.refused \in Q /\ log.prompt \in F
      BY <2>1
    <3>2. [log.refused EXCEPT ![p] = n] \in Q
      BY <3>1
    <3>3. [log.prompt EXCEPT ![p] = b] \in F
      BY <3>1
    <3>4. [log EXCEPT !.refused[p] = n, !.prompt[p] = b]
            = [log EXCEPT !.refused = [log.refused EXCEPT ![p] = n],
                          !.prompt = [log.prompt EXCEPT ![p] = b]]
      BY <2>1
    <3> HIDE DEF P, Q, F
    <3> QED
      BY <2>1, <3>2, <3>3, <3>4
  <2> HIDE DEF L
  <2>3. log' \in L
    BY <2>1, <2>2
  <2> QED
    BY <2>3 DEF LogType, L
<1>2. log'.free = log.free /\ log'.resets = log.resets /\ log'.proved = log.proved
  BY DEF IInv, LogType
<1>3. Cookies' = Cookies /\ Everywhere' = Everywhere
  BY DEF Cookies, Everywhere
<1>4. ResetsFit' /\ AdmittedAreCounted' /\ CookieIsRecent' /\ JobsHaveCookies'
  BY <1>2, <1>3 DEF IInv, ResetsFit, AdmittedAreCounted, CookieIsRecent, JobsHaveCookies, limiter
<1> QED
  BY <1>1, <1>4 DEF IInv

\* An initiation is made with a cookie.
LEMMA SendIInv ==
  ASSUME IInv, NEW p \in Peers, NEW cookie \in Cookies, Send(p, cookie)
  PROVE  IInv'
<1> DEFINE n == peer[p].mac1 + 1
           R == [addr : Everywhere, mac1 : Int, cookie : Cookies, received : Int,
                 waiting : BOOLEAN, sent : Int]
           init == [type |-> "init", from |-> p, addr |-> peer[p].addr, mac1 |-> n,
                    mac2 |-> cookie]
<1>1. /\ UNCHANGED <<now, limiter, job>>
      /\ peer' = [peer EXCEPT ![p] = [@ EXCEPT !.mac1 = n, !.cookie = cookie,
                                              !.waiting = TRUE, !.sent = now]]
      /\ net' = net \union {init}
      /\ log' = [log EXCEPT !.refused[p] = RefusedSoFar(p), !.prompt[p] = FALSE]
  BY DEF Send
<1>2. Cookies' = Cookies /\ Everywhere' = Everywhere
  BY <1>1 DEF Cookies, Everywhere
<1>3. peer \in [Peers -> R] /\ now \in Int
  BY DEF IInv, PeerType, ResetsFit
<1>4. n \in Int /\ peer[p].addr \in Everywhere
  BY <1>3
<1>5. [peer[p] EXCEPT !.mac1 = n, !.cookie = cookie, !.waiting = TRUE, !.sent = now] \in R
  <2> HIDE DEF n
  <2> QED
    BY <1>3, <1>4
<1>6. PeerType'
  <2> HIDE DEF R, n
  <2>1. peer' \in [Peers -> R]
    BY <1>1, <1>3, <1>5
  <2> QED
    BY <2>1, <1>2 DEF PeerType, R
<1>7. NetHasCookies'
  <2>1. init.addr \in Everywhere /\ init.mac2 \in Cookies /\ init.type = "init"
    BY <1>4
  <2> HIDE DEF init
  <2> QED
    BY <1>1, <1>2, <2>1 DEF IInv, NetHasCookies
<1>8. RefusedSoFar(p) \in Int
  BY DEF IInv, LogType, RefusedSoFar
<1> QED
  BY <1>1, <1>6, <1>7, <1>8, InitiatorIInv

\* An initiation, or a retransmission, perhaps after an old cookie was cleared.
LEMMA TimersIInv ==
  ASSUME IInv, NEW p \in Peers, StartHandshake(p) \/ UpdateTimers(p)
  PROVE  IInv'
<1>1. NoCookie \in Cookies
  BY DEF NoCookie, Never, Cookies, Everywhere
<1>2. peer[p].cookie \in Cookies
  BY DEF IInv, PeerType
<1>3. CASE \E cookie \in Cookies : Send(p, cookie)
  BY <1>3, SendIInv
<1>4. CASE /\ peer' = [peer EXCEPT ![p].cookie = NoCookie]
           /\ UNCHANGED <<now, limiter, job, net, others, moves, log>>
  <2>1. Cookies' = Cookies /\ Everywhere' = Everywhere
    BY <1>4 DEF Cookies, Everywhere
  <2>2. PeerType'
    BY <1>1, <1>4, <2>1 DEF IInv, PeerType
  <2>3. NetHasCookies'
    BY <1>4, <2>1 DEF IInv, NetHasCookies
  <2> QED
    BY <1>4, <2>2, <2>3, InitiatorIInv
<1> QED
  BY <1>1, <1>2, <1>3, <1>4 DEF StartHandshake, UpdateTimers

\* A cookie that arrives is kept.
LEMMA ReplyIInv == ASSUME IInv, NEW p \in Peers, receive_cookie_reply(p) PROVE IInv'
<1>1. PICK m \in Replies(p, "cookie") :
        /\ net' = net \ {m}
        /\ IF m.mac1 = peer[p].mac1
           THEN /\ peer' = [peer EXCEPT ![p].cookie = m.cookie, ![p].received = now]
                /\ log' = IF peer[p].sent = now
                          THEN [log EXCEPT !.refused[p] = @ + 1, !.prompt[p] = TRUE] ELSE log
           ELSE UNCHANGED <<peer, log>>
        /\ UNCHANGED <<now, limiter, job, others, moves>>
  BY DEF receive_cookie_reply
<1>2. Cookies' = Cookies /\ Everywhere' = Everywhere
  BY <1>1 DEF Cookies, Everywhere
<1>3. m.cookie \in Cookies /\ now \in Int
  BY DEF IInv, NetHasCookies, Replies, ResetsFit
<1>4. NetHasCookies'
  BY <1>1, <1>2 DEF IInv, NetHasCookies
<1>5. CASE m.mac1 = peer[p].mac1
  <2> DEFINE R == [addr : Everywhere, mac1 : Int, cookie : Cookies, received : Int,
                   waiting : BOOLEAN, sent : Int]
  <2>1. peer \in [Peers -> R]
    BY DEF IInv, PeerType
  <2>2. [peer[p] EXCEPT !.cookie = m.cookie, !.received = now] \in R
    BY <1>3, <2>1
  <2>3. peer' = [peer EXCEPT ![p] = [peer[p] EXCEPT !.cookie = m.cookie, !.received = now]]
    BY <1>1, <1>5, <2>1
  <2>4. PeerType'
    <3> HIDE DEF R
    <3>1. peer' \in [Peers -> R]
      BY <2>1, <2>2, <2>3
    <3> QED
      BY <3>1, <1>2 DEF PeerType, R
  <2>5. log.refused[p] + 1 \in Int
    BY DEF IInv, LogType
  <2>6. log' = log \/ log' = [log EXCEPT !.refused[p] = log.refused[p] + 1, !.prompt[p] = TRUE]
    BY <1>1, <1>5
  <2> QED
    BY <1>1, <1>4, <2>4, <2>5, <2>6, InitiatorIInv
<1>6. CASE m.mac1 # peer[p].mac1
  <2>1. PeerType'
    BY <1>1, <1>2, <1>6 DEF IInv, PeerType
  <2> QED
    BY <1>1, <1>4, <1>6, <2>1, InitiatorIInv
<1> QED
  BY <1>5, <1>6

\* A response, and a new address, change no cookie.
LEMMA OthersIInv ==
  ASSUME IInv, NEW p \in Peers, ReceiveResponse(p) \/ Move(p)
  PROVE  IInv'
<1>1. UNCHANGED <<now, limiter, job>> /\ net' \subseteq net
  BY DEF ReceiveResponse, Move
<1>2. Cookies' = Cookies /\ Everywhere' = Everywhere
  BY <1>1 DEF Cookies, Everywhere
<1>3. NetHasCookies'
  BY <1>1, <1>2 DEF IInv, NetHasCookies
<1>4. CASE ReceiveResponse(p)
  <2>1. peer' = peer \/ peer' = [peer EXCEPT ![p].waiting = FALSE]
    BY <1>4 DEF ReceiveResponse
  <2>3. PeerType'
    <3>1. PeerType
      BY DEF IInv
    <3> QED
      BY <1>2, <2>1, <3>1 DEF PeerType
  <2>2. log' = log
    BY <1>4 DEF ReceiveResponse
  <2> QED
    BY <1>1, <1>3, <2>2, <2>3, InitiatorIInv
<1>5. CASE Move(p)
  <2>1. PeerType'
    BY <1>2, <1>5 DEF IInv, PeerType, Move, Everywhere
  <2>2. log' = [log EXCEPT !.refused[p] = 0, !.prompt[p] = FALSE]
    BY <1>5 DEF Move
  <2>3. 0 \in Int /\ FALSE \in BOOLEAN
    OBVIOUS
  <2> QED
    BY <1>1, <1>3, <2>1, <2>2, <2>3, InitiatorIInv
<1> QED
  BY <1>4, <1>5

-----------------------------------------------------------------------------
\* Every step keeps the inductive invariant.
LEMMA StepIInv == IInv /\ [Next]_vars => IInv'
<1> SUFFICES ASSUME IInv, [Next]_vars PROVE IInv'
  OBVIOUS
<1>1. CASE UNCHANGED vars
  BY <1>1 DEF vars, limiter, IInv, LogType, ResetsFit, AdmittedAreCounted, PeerType, Cookies,
     Everywhere, NetHasCookies, JobsHaveCookies, CookieIsRecent
<1>2. CASE Next
  <2>1. CASE Tick
    BY <2>1, TickIInv
  <2>2. ASSUME NEW r \in Resetters, ReadClock(r) \/ ResetCount(r) PROVE IInv'
    BY <2>2, ResetIInv
  <2>3. ASSUME NEW w \in Workers, Receive(w) \/ ReceiveOther(w) \/ IsUnderLoad(w) \/ CheckMac2(w)
        PROVE  IInv'
    BY <2>3, ReceiveIInv, CountIInv, CheckIInv
  <2>4. ASSUME NEW p \in Peers,
               \/ StartHandshake(p) \/ UpdateTimers(p) \/ Move(p)
               \/ receive_cookie_reply(p) \/ ReceiveResponse(p)
        PROVE  IInv'
    BY <2>4, TimersIInv, ReplyIInv, OthersIInv
  <2> QED
    BY <1>2, <2>1, <2>2, <2>3, <2>4 DEF Next
<1> QED
  BY <1>1, <1>2

\* The inductive invariant holds in every reachable state.
THEOREM Invariance == Spec => []IInv
BY InitIInv, StepIInv, PTL DEF Spec

\* rate_limiter.rs:107: for any limit, period and number of workers, no more handshakes
\* are admitted without a cookie between two resets than the limit allows, and no more
\* resets take place than the period allows.
THEOREM RateIsAlwaysBounded == Spec => []RateIsBounded
<1>1. IInv => RateIsBounded
  BY LimiterAssumption DEF IInv, LogType, ResetsFit, AdmittedAreCounted, RateIsBounded
<1> QED
  BY <1>1, Invariance, PTL

\* rate_limiter.rs:84: a cookie that lets a handshake in was handed out to its address
\* less than COOKIE_REFRESH ago, however long it was kept and its reply delayed.
THEOREM CookiesAreRecent == Spec => []CookieIsRecent
<1>1. IInv => CookieIsRecent
  BY DEF IInv
<1> QED
  BY <1>1, Invariance, PTL
-----------------------------------------------------------------------------
(***************************************************************************)
(* No three refusals in a row.                                             *)
(*                                                                         *)
(* An initiation is in the net, then with a worker, and then its refusal   *)
(* is in the net: it is at one place at a time, so that each is refused    *)
(* once.  The cookie of a refusal that is heard at once is of the period   *)
(* in which the initiation was sent.  A retry that is refused at once,     *)
(* then, was sent in the next period, less than a retry after it began;    *)
(* and the retry that follows is sent in that period as well, so that its  *)
(* cookie verifies.                                                        *)
(***************************************************************************)
\* The longest delay of a retry that is in time.
Retry == REKEY_TIMEOUT + 1

IsInit(m, p) == m.type = "init" /\ m.from = p
IsRefusal(m, p) == m.type = "cookie" /\ m.to = p
IsWith(w, p) == job[w].at \in {"count", "cookie"} /\ job[w].m.from = p

\* Each initiation has a number of its own, and the last one has the highest.
Numbered(p) ==
  /\ peer[p].mac1 \in Nat /\ peer[p].sent \in 0..now
  /\ \A m \in net : IsInit(m, p) \/ IsRefusal(m, p) => m.mac1 \in 0..peer[p].mac1
  /\ \A w \in Workers : IsWith(w, p) => job[w].m.mac1 \in 0..peer[p].mac1

\* The last initiation of p: in the net, with a worker, or refused.
Sent(m, p) == m \in net /\ IsInit(m, p) /\ m.mac1 = peer[p].mac1
Checked(w, p) == w \in Workers /\ IsWith(w, p) /\ job[w].m.mac1 = peer[p].mac1
Refusal(m, p) == m \in net /\ IsRefusal(m, p) /\ m.mac1 = peer[p].mac1

AtOnePlace(p) ==
  /\ \A m, n \in net : Sent(m, p) /\ Sent(n, p) => m = n
  /\ \A v, w \in Workers : Checked(v, p) /\ Checked(w, p) => v = w
  /\ \A m, n \in net : Refusal(m, p) /\ Refusal(n, p) => m = n
  /\ \A m, n \in net : ~(Sent(m, p) /\ Refusal(n, p))
  /\ \A m \in net, w \in Workers : ~(Checked(w, p) /\ (Sent(m, p) \/ Refusal(m, p)))
  /\ log.prompt[p] => /\ \A m \in net : ~Sent(m, p) /\ ~Refusal(m, p)
                      /\ \A w \in Workers : ~Checked(w, p)

\* What was sent at t with a cookie of period q, after r refusals in a row.
InPeriod(q, t, r) ==
  \/ t \div COOKIE_REFRESH = q
  \/ r = 1 /\ t \div COOKIE_REFRESH = q + 1 /\ t % COOKIE_REFRESH < Retry

\* After a refusal, the initiation has a cookie for its address of this period, or,
\* after one refusal, of the one before that has just ended.
HasCookie(m, p) ==
  log.refused[p] # 0 =>
    /\ m.mac2.addr = m.addr
    /\ InPeriod(m.mac2.period, peer[p].sent, log.refused[p])

\* A refusal that is heard in the instant in which the initiation was sent.
HeardAtOnce(m, p) ==
  /\ m.cookie.addr = m.addr
  /\ peer[p].sent = now =>
       /\ m.cookie.period = peer[p].sent \div COOKIE_REFRESH
       /\ log.refused[p] # 2
       /\ log.refused[p] = 1 => peer[p].sent % COOKIE_REFRESH < Retry

\* After such a refusal the cookie is there while a retry is in time.
CookieAtHand(p) ==
  \/ now > peer[p].sent + Retry
  \/ /\ peer[p].received = peer[p].sent
     /\ peer[p].cookie.addr = peer[p].addr
     /\ peer[p].cookie.period = peer[p].sent \div COOKIE_REFRESH
     /\ log.refused[p] = 2 => peer[p].sent % COOKIE_REFRESH < Retry

Streak(p) ==
  /\ log.refused[p] \in 0..2
  /\ \A m \in net : Sent(m, p) => HasCookie(m, p)
  /\ \A w \in Workers : Checked(w, p) => HasCookie(job[w].m, p)
  /\ \A m \in net : Refusal(m, p) => HeardAtOnce(m, p)
  /\ log.prompt[p] => CookieAtHand(p)

Track(p) == Numbered(p) /\ AtOnePlace(p) /\ Streak(p)

IInv2 == IInv /\ \A p \in Peers : Track(p)

-----------------------------------------------------------------------------
\* An instant less than a retry after another one is in its period, or early in the next;
\* in the same if the other one was early in it.
Follows(a, b) ==
  /\ \/ b \div COOKIE_REFRESH = a \div COOKIE_REFRESH
     \/ b \div COOKIE_REFRESH = a \div COOKIE_REFRESH + 1 /\ b % COOKIE_REFRESH < Retry
  /\ a % COOKIE_REFRESH < Retry => b \div COOKIE_REFRESH = a \div COOKIE_REFRESH

\* So it is with a retry in time: a = R * q + r and b = R * p + s, less than a period apart.
LEMMA RetryFollows ==
  ASSUME NEW a \in Nat, NEW b \in Nat, a <= b, b <= a + Retry
  PROVE  Follows(a, b)
<1> DEFINE R == COOKIE_REFRESH
           k == Retry
<1>1. R \in Nat \ {0} /\ k \in Nat /\ 2 * k <= R
  BY LimiterAssumption, CookieAssumption DEF Retry
<1>2. a <= b /\ b <= a + k
  OBVIOUS
<1> HIDE DEF R, k
<1> DEFINE q == a \div R
           p == b \div R
           r == a % R
           s == b % R
<1>3. q \in Int /\ r \in 0..(R - 1) /\ a = R * q + r
  BY <1>1
<1>4. p \in Int /\ s \in 0..(R - 1) /\ b = R * p + s
  BY <1>1
<1> DEFINE d == p - q
<1>5. d \in Int /\ R * d = R * p - R * q /\ R * d \in Int /\ R * p \in Int /\ R * q \in Int
  BY <1>1, <1>3, <1>4
<1>6. b - a = R * d + s - r
  BY <1>1, <1>3, <1>4, <1>5
<1>7. p = q + d
  BY <1>1, <1>3, <1>4
<1> HIDE DEF p, q, r, s, d
<1>8. d >= 2 => R * d >= 2 * R
  BY <1>1, <1>5
<1>9. d <= -1 => R * d <= -R
  BY <1>1, <1>5
<1>10. d \in {0, 1}
  BY <1>1, <1>2, <1>3, <1>4, <1>5, <1>6, <1>8, <1>9
<1>11. d = 1 => R * d = R
  BY <1>1, <1>5
<1>12. /\ p = q \/ (p = q + 1 /\ s < k)
       /\ r < k => p = q
  BY <1>1, <1>2, <1>3, <1>4, <1>5, <1>6, <1>7, <1>10, <1>11
<1> QED
  BY ONLY <1>12 DEF Follows, R, k, p, q, r, s

\* A step that takes datagrams of p, or moves none, keeps what is known of them; it may
\* end the streak.
LEMMA QuietTrack ==
  ASSUME NEW p \in Peers, Track(p), now' = now,
         peer'[p].mac1 = peer[p].mac1, peer'[p].sent = peer[p].sent,
         log'.refused[p] \in {0, log.refused[p]},
         log'.prompt[p] => log.prompt[p] /\ CookieAtHand(p)',
         \A m \in net' : m \in net \/ ~(IsInit(m, p) \/ IsRefusal(m, p)),
         \A w \in Workers : IsWith(w, p)' => IsWith(w, p) /\ job'[w].m = job[w].m
  PROVE  Track(p)'
<1>1. Numbered(p) /\ AtOnePlace(p) /\ Streak(p)
  BY DEF Track
<1>2. Numbered(p)'
  BY <1>1 DEF Numbered
<1>3. /\ \A m \in net' : Sent(m, p)' => m \in net /\ Sent(m, p)
      /\ \A m \in net' : Refusal(m, p)' => m \in net /\ Refusal(m, p)
      /\ \A w \in Workers : Checked(w, p)' => Checked(w, p) /\ job'[w].m = job[w].m
  BY DEF Sent, Refusal, Checked
<1>4. AtOnePlace(p)'
  BY <1>1, <1>3 DEF AtOnePlace
<1>5. /\ \A m : HasCookie(m, p) => HasCookie(m, p)'
      /\ \A m : HeardAtOnce(m, p) => HeardAtOnce(m, p)'
  BY DEF HasCookie, HeardAtOnce
<1>6. Streak(p)'
  BY <1>1, <1>3, <1>5 DEF Streak
<1> QED
  BY <1>2, <1>4, <1>6 DEF Track

\* At first nothing was sent and nothing refused.
LEMMA InitTrack == ASSUME Init, NEW p \in Peers PROVE Track(p)
<1>1. peer[p].mac1 = 0 /\ peer[p].sent = 0 /\ now = 0 /\ net = {}
  BY DEF Init
<1>2. \A w \in Workers : job[w].at = "idle"
  BY DEF Init, Idle
<1>3. log.refused[p] = 0 /\ log.prompt[p] = FALSE
  BY DEF Init
<1>4. Numbered(p)
  BY <1>1, <1>2 DEF Numbered, IsWith
<1>5. AtOnePlace(p) /\ Streak(p)
  BY <1>1, <1>2, <1>3 DEF AtOnePlace, Streak, Checked, IsWith
<1> QED
  BY <1>4, <1>5 DEF Track

\* When the clock moves on, a refusal can no longer be heard at once.
LEMMA TickTrack == ASSUME IInv, Tick, NEW p \in Peers, Track(p) PROVE Track(p)'
<1>1. now \in Nat /\ now' = now + 1 /\ UNCHANGED <<job, peer, net, log>>
  BY DEF IInv, ResetsFit, Tick
<1>2. Numbered(p) /\ AtOnePlace(p) /\ Streak(p) /\ peer[p].sent \in 0..now /\ Retry \in Nat
  BY LimiterAssumption DEF Track, Numbered, Retry
<1>3. Numbered(p)' /\ AtOnePlace(p)'
  BY <1>1, <1>2 DEF Numbered, AtOnePlace, Sent, Checked, Refusal, IsWith
<1>4. /\ \A m : HasCookie(m, p)' <=> HasCookie(m, p)
      /\ \A m : HeardAtOnce(m, p) => HeardAtOnce(m, p)'
  BY <1>1, <1>2 DEF HasCookie, HeardAtOnce
<1>5. CookieAtHand(p) => CookieAtHand(p)'
  BY <1>1, <1>2 DEF CookieAtHand
<1>6. Streak(p)'
  BY <1>1, <1>2, <1>4, <1>5 DEF Streak, Sent, Checked, Refusal, IsWith
<1> QED
  BY <1>3, <1>6 DEF Track

\* A reset concerns no initiator.
LEMMA ResetTrack ==
  ASSUME IInv, NEW r \in Resetters, ReadClock(r) \/ ResetCount(r), NEW p \in Peers, Track(p)
  PROVE  Track(p)'
<1>1. UNCHANGED <<now, job, peer, net>> /\ log'.refused = log.refused /\ log'.prompt = log.prompt
  BY DEF ReadClock, ResetCount, IInv, LogType
<1>2. log.prompt[p] => CookieAtHand(p)'
  BY <1>1 DEF Track, Streak, CookieAtHand
<1> QED
  BY <1>1, <1>2, QuietTrack DEF IsWith

\* The worker has the initiation that was in the net.
LEMMA ReceiveTrack ==
  ASSUME IInv, NEW w \in Workers, Receive(w) \/ ReceiveOther(w), NEW p \in Peers, Track(p)
  PROVE  Track(p)'
<1>1. UNCHANGED <<now, peer, log>>
  BY DEF Receive, ReceiveOther, limiter
<1>2. CookieAtHand(p) => CookieAtHand(p)'
  BY <1>1 DEF CookieAtHand
<1>3. Numbered(p) /\ AtOnePlace(p) /\ Streak(p)
  BY DEF Track
<1>4. PICK m : job' = [job EXCEPT ![w] = [at |-> "count", m |-> m]]
               /\ job[w] = Idle
               /\ \/ m.from = Other /\ net' = net
                  \/ m \in net /\ m.type = "init" /\ net' = net \ {m}
  <2>1. CASE Receive(w)
    BY <2>1 DEF Receive, Handshakes
  <2>2. CASE ReceiveOther(w)
    <3> DEFINE m == [type |-> "init", from |-> Other, addr |-> Other, mac1 |-> 0,
                     mac2 |-> NoCookie]
    <3>1. m.from = Other /\ net' = net /\ job' = [job EXCEPT ![w] = [at |-> "count", m |-> m]]
          /\ job[w] = Idle
      BY <2>2 DEF ReceiveOther
    <3> HIDE DEF m
    <3> QED
      BY <3>1
  <2> QED
    BY <2>1, <2>2
<1>5. /\ job'[w].at = "count" /\ job'[w].m = m /\ job[w].at = "idle"
      /\ \A v \in Workers : v # w => job'[v] = job[v]
  BY <1>4 DEF IInv, JobsHaveCookies, Idle
<1>6. CASE m.from # p
  <2>1. \A v \in Workers : IsWith(v, p)' => IsWith(v, p) /\ job'[v].m = job[v].m
    BY <1>5, <1>6 DEF IsWith
  <2>2. log'.prompt[p] => log.prompt[p] /\ CookieAtHand(p)'
    BY <1>1, <1>2, <1>3 DEF Streak
  <2> QED
    BY <1>1, <1>4, <2>1, <2>2, QuietTrack
<1>7. CASE m.from = p
  <2>1. m \in net /\ IsInit(m, p) /\ net' = net \ {m}
    BY <1>4, <1>7, LimiterAssumption DEF IsInit
  <2>2. Numbered(p)'
    BY <1>1, <1>3, <1>5, <2>1 DEF Numbered, IsWith
  <2>3. /\ \A n \in net' : Sent(n, p)' => Sent(n, p) /\ n # m
        /\ \A n \in net' : Refusal(n, p)' => Refusal(n, p)
        /\ \A v \in Workers : Checked(v, p)' =>
             \/ v = w /\ Sent(m, p)
             \/ v # w /\ Checked(v, p) /\ job'[v].m = job[v].m
    BY <1>1, <1>5, <2>1 DEF Sent, Refusal, Checked, IsWith
  <2>4. AtOnePlace(p)'
    BY <1>1, <1>3, <2>1, <2>3 DEF AtOnePlace
  <2>5. /\ \A n : HasCookie(n, p)' <=> HasCookie(n, p)
        /\ \A n : HeardAtOnce(n, p)' <=> HeardAtOnce(n, p)
    BY <1>1 DEF HasCookie, HeardAtOnce
  <2>6. Streak(p)'
    BY <1>1, <1>2, <1>3, <1>5, <2>1, <2>3, <2>5 DEF Streak
  <2> QED
    BY <2>2, <2>4, <2>6 DEF Track
<1> QED
  BY <1>6, <1>7

\* What is not refused ends the streak of its initiator, and of no other.
LEMMA NotRefusedFacts ==
  ASSUME LogType, NEW m, NEW p \in Peers, NEW g,
         \/ log' = [log EXCEPT !.free = g, !.refused = NotRefused(log.refused, m)]
         \/ log' = [log EXCEPT !.proved = g, !.refused = NotRefused(log.refused, m)]
  PROVE  log'.prompt = log.prompt /\ log'.refused[p] \in {0, log.refused[p]}
<1>1. NotRefused(log.refused, m)[p] \in {0, log.refused[p]}
  BY DEF NotRefused
<1>2. log'.prompt = log.prompt /\ log'.refused = NotRefused(log.refused, m)
  BY DEF LogType
<1> QED
  BY <1>1, <1>2

\* The worker counts the initiation; it is answered, or goes on to its cookie.
LEMMA CountTrack ==
  ASSUME IInv, NEW w \in Workers, IsUnderLoad(w), NEW p \in Peers, Track(p)
  PROVE  Track(p)'
<1> DEFINE m == job[w].m
<1>1. UNCHANGED <<now, peer>> /\ job[w].at = "count"
  BY DEF IsUnderLoad
<1>2. CookieAtHand(p) /\ log'.refused[p] \in {0, log.refused[p]} => CookieAtHand(p)'
  BY <1>1 DEF CookieAtHand
<1>3. Numbered(p) /\ AtOnePlace(p) /\ Streak(p) /\ LogType
  BY DEF Track, IInv
<1>4. /\ log'.prompt = log.prompt
      /\ log'.refused[p] = log.refused[p] \/ log'.refused[p] = 0
  <2>1. \/ log' = log
        \/ log' = [log EXCEPT !.free = log.free + 1, !.refused = NotRefused(log.refused, m)]
    BY DEF IsUnderLoad
  <2> QED
    BY <1>3, <2>1, NotRefusedFacts
<1>5. /\ job'[w] = Idle \/ (job'[w].at = "cookie" /\ job'[w].m = m)
      /\ \A v \in Workers : v # w => job'[v] = job[v]
  BY DEF IsUnderLoad, IInv, JobsHaveCookies
<1>6. \A n \in net' : n \in net \/ n.type = "resp"
  BY DEF IsUnderLoad, Answer
<1>7. \A v \in Workers : IsWith(v, p)' => IsWith(v, p) /\ job'[v].m = job[v].m
  BY <1>1, <1>5 DEF IsWith, Idle
<1>8. \A n \in net' : n \in net \/ ~(IsInit(n, p) \/ IsRefusal(n, p))
  BY <1>6 DEF IsInit, IsRefusal
<1>9. log'.prompt[p] => log.prompt[p] /\ CookieAtHand(p)'
  BY <1>2, <1>3, <1>4 DEF Streak
<1> QED
  BY <1>1, <1>4, <1>7, <1>8, <1>9, QuietTrack

\* The cookie is checked; the refusal of an initiation that was sent at this instant
\* follows from a change of the secret since the one before.
LEMMA CheckTrack ==
  ASSUME IInv, NEW w \in Workers, CheckMac2(w), NEW p \in Peers, Track(p)
  PROVE  Track(p)'
<1> DEFINE m == job[w].m
           cookie == current_cookie(m.addr)
           reply == format_cookie_reply(m, cookie)
<1>1. UNCHANGED <<now, peer>> /\ job[w].at = "cookie"
  BY DEF CheckMac2
<1>2. CookieAtHand(p) /\ log'.refused[p] \in {0, log.refused[p]} => CookieAtHand(p)'
  BY <1>1 DEF CookieAtHand
<1>3. Numbered(p) /\ AtOnePlace(p) /\ Streak(p) /\ LogType
  BY DEF Track, IInv
<1>4. job'[w].at = "idle" /\ \A v \in Workers : v # w => job'[v] = job[v]
  BY DEF CheckMac2, IInv, JobsHaveCookies, Idle
<1>5. \A v \in Workers : IsWith(v, p)' => v # w /\ IsWith(v, p) /\ job'[v].m = job[v].m
  BY <1>4 DEF IsWith
<1>6. CASE Same(m.mac2, cookie)
  <2>1. /\ log'.prompt = log.prompt
        /\ log'.refused[p] = log.refused[p] \/ log'.refused[p] = 0
    <3> DEFINE proved == [age |-> now - m.mac2.issued, same |-> m.mac2.addr = m.addr]
    <3>1. log' = [log EXCEPT !.proved = proved, !.refused = NotRefused(log.refused, m)]
      BY <1>6 DEF CheckMac2, Same
    <3> HIDE DEF proved
    <3> QED
      BY <1>3, <3>1, NotRefusedFacts
  <2>2. Answer(m)
    BY <1>6 DEF CheckMac2
  <2>3. \A n \in net' : n \in net \/ ~(IsInit(n, p) \/ IsRefusal(n, p))
    <3>1. \A n \in net' : n \in net \/ n.type = "resp"
      BY <2>2 DEF Answer
    <3> QED
      BY <3>1 DEF IsInit, IsRefusal
  <2>4. log'.prompt[p] => log.prompt[p] /\ CookieAtHand(p)'
    BY <1>2, <1>3, <2>1 DEF Streak
  <2> QED
    BY <1>1, <1>5, <2>1, <2>3, <2>4, QuietTrack
<1>7. CASE ~Same(m.mac2, cookie)
  <2>1. log' = log /\ net' = IF m.from = Other THEN net ELSE net \union {reply}
    BY <1>7 DEF CheckMac2
  <2>2. /\ reply.type = "cookie" /\ reply.to = m.from /\ reply.mac1 = m.mac1
        /\ reply.addr = m.addr /\ reply.cookie = cookie
        /\ cookie.addr = m.addr /\ cookie.period = now \div COOKIE_REFRESH
    BY DEF format_cookie_reply, current_cookie
  <2>3. log.prompt[p] => CookieAtHand(p)'
    BY <1>2, <1>3, <2>1 DEF Streak
  <2>4. CASE m.from # p
    <3>1. \A n \in net' : n \in net \/ ~(IsInit(n, p) \/ IsRefusal(n, p))
      <4>1. ~(IsInit(reply, p) \/ IsRefusal(reply, p))
        BY <2>2, <2>4 DEF IsInit, IsRefusal
      <4> HIDE DEF reply
      <4> QED
        BY <2>1, <4>1
    <3> QED
      BY <1>1, <1>5, <2>1, <2>3, <3>1, QuietTrack
  <2>5. CASE m.from = p
    <3>1. IsWith(w, p) /\ net' = net \union {reply}
      BY <1>1, <2>1, <2>5, LimiterAssumption DEF IsWith
    <3>2. IsRefusal(reply, p) /\ ~IsInit(reply, p)
      BY <2>2, <2>5 DEF IsRefusal, IsInit
    <3>3. HeardAtOnce(reply, p) \/ m.mac1 # peer[p].mac1
      <4> SUFFICES ASSUME m.mac1 = peer[p].mac1, peer[p].sent = now
                   PROVE  /\ cookie.period = peer[p].sent \div COOKIE_REFRESH
                          /\ log.refused[p] # 2
                          /\ log.refused[p] = 1 => peer[p].sent % COOKIE_REFRESH < Retry
        BY <2>2 DEF HeardAtOnce
      <4>1. HasCookie(m, p) /\ log.refused[p] \in 0..2
        BY <1>3, <3>1 DEF Streak, Checked
      <4>2. ~(m.mac2.addr = m.addr /\ m.mac2.period = now \div COOKIE_REFRESH)
        BY <1>7, <2>2 DEF Same
      <4>3. log.refused[p] # 0 => /\ log.refused[p] = 1
                                  /\ peer[p].sent % COOKIE_REFRESH < Retry
        BY <4>1, <4>2 DEF HasCookie, InPeriod
      <4> QED
        BY <2>2, <4>1, <4>3
    <3>4. m.mac1 \in 0..peer[p].mac1
      BY <1>3, <3>1 DEF Numbered
    <3> HIDE DEF reply, m, cookie
    <3>5. Numbered(p)'
      BY <1>1, <1>3, <1>5, <2>2, <3>1, <3>2, <3>4 DEF Numbered
    <3>6. /\ \A n \in net' : Sent(n, p)' => Sent(n, p) /\ n # reply
          /\ \A n \in net' : Refusal(n, p)' =>
               \/ n = reply /\ m.mac1 = peer[p].mac1
               \/ n # reply /\ Refusal(n, p)
          /\ \A v \in Workers : Checked(v, p)' => v # w /\ Checked(v, p) /\ job'[v].m = job[v].m
          /\ m.mac1 = peer[p].mac1 => Checked(w, p)
      BY <1>1, <1>5, <2>2, <3>1, <3>2 DEF Sent, Refusal, Checked, m
    <3>7. AtOnePlace(p)'
      BY <1>3, <2>1, <3>1, <3>6 DEF AtOnePlace, Sent, Refusal
    <3>8. /\ \A n : HasCookie(n, p)' <=> HasCookie(n, p)
          /\ \A n : HeardAtOnce(n, p)' <=> HeardAtOnce(n, p)
      BY <1>1, <2>1 DEF HasCookie, HeardAtOnce
    <3>9. Streak(p)'
      BY <1>3, <2>1, <2>3, <3>3, <3>6, <3>8 DEF Streak, Sent, Refusal
    <3> QED
      BY <3>5, <3>7, <3>9 DEF Track
  <2> QED
    BY <2>4, <2>5
<1> QED
  BY <1>6, <1>7

\* A step of another initiator.
LEMMA OtherTrack ==
  ASSUME IInv, NEW q \in Peers, NEW p \in Peers, p # q, Track(p),
         \/ StartHandshake(q) \/ UpdateTimers(q) \/ Move(q)
         \/ receive_cookie_reply(q) \/ ReceiveResponse(q)
  PROVE  Track(p)'
<1>1. UNCHANGED <<now, job>> /\ peer'[p] = peer[p]
  BY DEF StartHandshake, UpdateTimers, Send, Move, receive_cookie_reply, ReceiveResponse,
         IInv, PeerType
<1>2. log'.refused[p] = log.refused[p] /\ log'.prompt[p] = log.prompt[p]
  <2>1. log.refused \in [Peers -> Int] /\ log.prompt \in [Peers -> BOOLEAN]
    BY DEF IInv, LogType
  <2>2. \/ log' = log
        \/ \E n, b : log' = [log EXCEPT !.refused[q] = n, !.prompt[q] = b]
    <3>1. ASSUME NEW c, Send(q, c)
          PROVE  \E n, b : log' = [log EXCEPT !.refused[q] = n, !.prompt[q] = b]
      BY <3>1 DEF Send
    <3>2. CASE receive_cookie_reply(q)
      <4>1. log' = log \/ log' = [log EXCEPT !.refused[q] = log.refused[q] + 1, !.prompt[q] = TRUE]
        BY <3>2 DEF receive_cookie_reply
      <4> QED
        BY <4>1
    <3>3. CASE Move(q)
      BY <3>3 DEF Move
    <3> QED
      BY <3>1, <3>2, <3>3 DEF StartHandshake, UpdateTimers, ReceiveResponse
  <2>3. ASSUME NEW n, NEW b, log' = [log EXCEPT !.refused[q] = n, !.prompt[q] = b]
        PROVE  log'.refused[p] = log.refused[p] /\ log'.prompt[p] = log.prompt[p]
    BY <2>1, <2>3 DEF IInv, LogType
  <2> QED
    BY <2>2, <2>3
<1>3. \A m \in net' : m \in net \/ ~(IsInit(m, p) \/ IsRefusal(m, p))
  <2>1. \A m \in net' : m \in net \/ (m.type = "init" /\ m.from = q)
    <3>1. ASSUME NEW c, Send(q, c)
          PROVE  \A m \in net' : m \in net \/ (m.type = "init" /\ m.from = q)
      BY <3>1 DEF Send
    <3>2. CASE net' \subseteq net
      BY <3>2
    <3> QED
      BY <3>1, <3>2 DEF StartHandshake, UpdateTimers, Move, receive_cookie_reply, ReceiveResponse
  <2> QED
    BY <2>1 DEF IsInit, IsRefusal
<1>4. log.prompt[p] => CookieAtHand(p)'
  BY <1>1, <1>2 DEF Track, Streak, CookieAtHand
<1> QED
  BY <1>1, <1>2, <1>3, <1>4, QuietTrack DEF IsWith

\* The initiation that was sent last is the only one of its number, and its cookie is of
\* the period of the one before, or it begins a new streak.
LEMMA SendTrack ==
  ASSUME IInv, NEW p \in Peers, NEW cookie, Send(p, cookie), Track(p),
         RefusedSoFar(p) # 0 => cookie = peer[p].cookie
  PROVE  Track(p)'
<1> DEFINE n == peer[p].mac1 + 1
<1>1. Numbered(p) /\ AtOnePlace(p) /\ Streak(p) /\ LogType /\ now \in Nat
  BY DEF Track, IInv, ResetsFit
<1>2. UNCHANGED <<now, job>> /\ peer'[p].mac1 = n /\ peer'[p].sent = now
  BY DEF Send, IInv, PeerType
<1>3. log'.refused[p] = RefusedSoFar(p) /\ log'.prompt[p] = FALSE
  BY <1>1 DEF Send, LogType
<1>4. PICK init : /\ net' = net \union {init}
                  /\ init.type = "init" /\ init.from = p /\ init.mac1 = n
                  /\ init.mac2 = cookie /\ init.addr = peer[p].addr
  <2> DEFINE init == [type |-> "init", from |-> p, addr |-> peer[p].addr, mac1 |-> n,
                      mac2 |-> cookie]
  <2>1. net' = net \union {init}
    BY DEF Send
  <2>2. /\ init.type = "init" /\ init.from = p /\ init.mac1 = n
        /\ init.mac2 = cookie /\ init.addr = peer[p].addr
    OBVIOUS
  <2> HIDE DEF init
  <2> QED
    BY <2>1, <2>2
<1>n. n \in Nat /\ n > peer[p].mac1
  BY <1>1 DEF Numbered
<1>5. Numbered(p)'
  <2>1. \A k \in 0..peer[p].mac1 : k \in 0..n
    BY <1>1 DEF Numbered
  <2> HIDE DEF n
  <2> QED
    BY <1>1, <1>2, <1>4, <1>n, <2>1 DEF Numbered, IsInit, IsRefusal, IsWith
<1>6. /\ \A m \in net' : Sent(m, p)' => m = init
      /\ \A m \in net' : ~Refusal(m, p)'
      /\ \A w \in Workers : ~Checked(w, p)'
  BY <1>1, <1>2, <1>4, <1>n DEF Numbered, Sent, Refusal, Checked, IsInit, IsRefusal, IsWith
<1>7. AtOnePlace(p)'
  BY <1>3, <1>6 DEF AtOnePlace
<1>8. HasCookie(init, p)' /\ log'.refused[p] \in 0..2
  <2>1. CASE RefusedSoFar(p) = 0
    BY <1>3, <2>1 DEF HasCookie
  <2>2. CASE RefusedSoFar(p) # 0
    <3> DEFINE sent == peer[p].sent
               R == COOKIE_REFRESH
               r == log.refused[p]
    <3>1. /\ log.prompt[p] /\ now <= sent + Retry
          /\ log'.refused[p] = r /\ r \in {1, 2}
          /\ cookie = peer[p].cookie
      <4>1. (log.prompt[p] = TRUE) /\ now <= sent + Retry /\ RefusedSoFar(p) = r
        <5>1. log.prompt[p] \in BOOLEAN
          BY <1>1 DEF LogType
        <5>2. log.prompt[p] /\ now <= sent + REKEY_TIMEOUT + 1
          BY <2>2 DEF RefusedSoFar
        <5>3. RefusedSoFar(p) = r
          BY <5>2 DEF RefusedSoFar
        <5> QED
          BY <1>1, <5>1, <5>2, <5>3, LimiterAssumption DEF Numbered, Retry
      <4>2. log.refused[p] \in 0..2
        BY <1>1 DEF Streak
      <4> QED
        BY <1>3, <2>2, <4>1, <4>2
    <3>2. sent \in Nat /\ sent <= now /\ Retry \in Nat /\ R \in Nat \ {0} /\ 2 * Retry <= R
      BY <1>1, LimiterAssumption, CookieAssumption DEF Numbered, Retry
    <3>3. /\ cookie.addr = peer[p].addr /\ cookie.period = sent \div R
          /\ r = 2 => sent % R < Retry
      BY <1>1, <3>1, <3>2 DEF Streak, CookieAtHand
    <3>4. Follows(sent, now)
      BY <1>1, <3>1, <3>2, RetryFollows
    <3>5. InPeriod(cookie.period, now, r)
      BY <3>1, <3>3, <3>4 DEF InPeriod, Follows
    <3>6. HasCookie(init, p)'
      <4>1. init.mac2.addr = init.addr
        BY <1>4, <3>3
      <4> HIDE DEF r
      <4>2. InPeriod(init.mac2.period, peer'[p].sent, log'.refused[p])
        BY <1>2, <1>4, <3>1, <3>5
      <4> QED
        BY <4>1, <4>2 DEF HasCookie, InPeriod
    <3> QED
      BY <3>1, <3>6
  <2> QED
    BY <2>1, <2>2
<1>9. Streak(p)'
  BY <1>3, <1>6, <1>8 DEF Streak
<1> QED
  BY <1>5, <1>7, <1>9 DEF Track

\* A cookie that was kept too long is cleared after the last retry in time.
LEMMA TimersTrack ==
  ASSUME IInv, NEW p \in Peers, StartHandshake(p) \/ UpdateTimers(p), Track(p)
  PROVE  Track(p)'
<1> DEFINE old(early) == /\ peer[p].cookie # NoCookie
                         /\ now - peer[p].received + early >= COOKIE_EXPIRATION_TIME
<1>1. Numbered(p) /\ Streak(p) /\ LogType /\ now \in Nat
  BY DEF Track, IInv, ResetsFit
<1>2. ASSUME NEW early \in {0, 1}, old(early), log.prompt[p]
      PROVE  now > peer[p].sent + Retry
  BY <1>1, <1>2, LimiterAssumption, CookieAssumption DEF Streak, CookieAtHand, Numbered, Retry
<1>3. ASSUME NEW early \in {0, 1}, old(early) PROVE RefusedSoFar(p) = 0
  BY <1>1, <1>2, <1>3, LimiterAssumption DEF RefusedSoFar, Retry, Numbered
<1>4. CASE StartHandshake(p)
  BY <1>4, SendTrack DEF StartHandshake
<1>5. ASSUME NEW early \in {0, 1}, Send(p, IF old(early) THEN NoCookie ELSE peer[p].cookie)
      PROVE  Track(p)'
  <2> DEFINE cookie == IF old(early) THEN NoCookie ELSE peer[p].cookie
  <2>1. RefusedSoFar(p) # 0 => cookie = peer[p].cookie
    BY <1>3
  <2> HIDE DEF cookie
  <2>2. Send(p, cookie)
    BY <1>5 DEF cookie
  <2> QED
    BY <2>1, <2>2, SendTrack
<1>6. ASSUME NEW early \in {0, 1}, old(early),
             peer' = [peer EXCEPT ![p].cookie = NoCookie],
             UNCHANGED <<now, limiter, job, net, others, moves, log>>
      PROVE  Track(p)'
  <2>1. peer'[p].mac1 = peer[p].mac1 /\ peer'[p].sent = peer[p].sent
    BY <1>6 DEF IInv, PeerType
  <2>2. log.prompt[p] => CookieAtHand(p)'
    BY <1>2, <1>6, <2>1 DEF CookieAtHand
  <2> QED
    BY <1>6, <2>1, <2>2, QuietTrack DEF IsWith
<1> QED
  BY <1>4, <1>5, <1>6 DEF UpdateTimers

\* A refusal that is heard at once counts, and its cookie is at hand for the next.
LEMMA ReplyTrack ==
  ASSUME IInv, NEW p \in Peers, receive_cookie_reply(p), Track(p)
  PROVE  Track(p)'
<1>1. PICK m \in Replies(p, "cookie") :
        /\ net' = net \ {m}
        /\ IF m.mac1 = peer[p].mac1
           THEN /\ peer' = [peer EXCEPT ![p].cookie = m.cookie, ![p].received = now]
                /\ log' = IF peer[p].sent = now
                          THEN [log EXCEPT !.refused[p] = @ + 1, !.prompt[p] = TRUE] ELSE log
           ELSE UNCHANGED <<peer, log>>
        /\ UNCHANGED <<now, limiter, job, others, moves>>
  BY DEF receive_cookie_reply
<1>2. Numbered(p) /\ AtOnePlace(p) /\ Streak(p) /\ LogType /\ m \in net /\ IsRefusal(m, p)
        /\ m.addr = peer[p].addr
  BY DEF Track, IInv, Replies, IsRefusal
<1>3. CASE m.mac1 # peer[p].mac1
  <2>1. UNCHANGED <<peer, log, now, job>> /\ \A k \in net' : k \in net
    BY <1>1, <1>3
  <2>2. log.prompt[p] => CookieAtHand(p)'
    BY <1>2, <2>1 DEF Streak, CookieAtHand
  <2> QED
    BY <2>1, <2>2, QuietTrack DEF IsWith
<1>4. CASE m.mac1 = peer[p].mac1
  <2>1. Refusal(m, p) /\ ~log.prompt[p] /\ HeardAtOnce(m, p)
    BY <1>2, <1>4 DEF Refusal, AtOnePlace, Streak
  <2>2. /\ peer'[p].mac1 = peer[p].mac1 /\ peer'[p].sent = peer[p].sent
        /\ peer'[p].addr = peer[p].addr
        /\ peer'[p].cookie = m.cookie /\ peer'[p].received = now
    BY <1>1, <1>4 DEF IInv, PeerType
  <2>3. CASE peer[p].sent # now
    <3>1. log' = log
      BY <1>1, <1>4, <2>3
    <3> QED
      BY <1>1, <2>1, <2>2, <3>1, QuietTrack DEF IsWith
  <2>4. CASE peer[p].sent = now
    <3>1. log'.refused[p] = log.refused[p] + 1 /\ log'.prompt[p] = TRUE
      <4>1. log' = [log EXCEPT !.refused[p] = log.refused[p] + 1, !.prompt[p] = TRUE]
        BY <1>1, <1>4, <2>4
      <4> QED
        BY <1>2, <4>1 DEF LogType
    <3>2. log.refused[p] \in {0, 1} /\ (log.refused[p] = 1 => peer[p].sent % COOKIE_REFRESH < Retry)
            /\ m.cookie.addr = m.addr /\ m.cookie.period = peer[p].sent \div COOKIE_REFRESH
      BY <1>2, <2>1, <2>4 DEF HeardAtOnce, Streak
    <3>3. /\ \A k \in net' : ~Sent(k, p)' /\ ~Refusal(k, p)'
          /\ \A w \in Workers : ~Checked(w, p)'
      BY <1>1, <1>2, <2>1, <2>2 DEF AtOnePlace, Sent, Refusal, Checked, IsWith
    <3>4. Numbered(p)'
      BY <1>1, <1>2, <2>2 DEF Numbered, IsWith
    <3>5. AtOnePlace(p)'
      BY <3>3 DEF AtOnePlace
    <3>6. CookieAtHand(p)'
      BY <1>1, <1>2, <2>2, <2>4, <3>1, <3>2 DEF CookieAtHand
    <3>7. log'.refused[p] \in 0..2
      BY <3>1, <3>2
    <3> QED
      BY <3>3, <3>4, <3>5, <3>6, <3>7 DEF Track, Streak
  <2> QED
    BY <2>3, <2>4
<1> QED
  BY <1>3, <1>4

\* An answer, or a new address.
LEMMA OthersTrack ==
  ASSUME IInv, NEW p \in Peers, ReceiveResponse(p) \/ Move(p), Track(p)
  PROVE  Track(p)'
<1>1. UNCHANGED <<now, job>> /\ \A m \in net' : m \in net
  BY DEF ReceiveResponse, Move
<1>2. CASE ReceiveResponse(p)
  <2>1. log' = log /\ (peer' = peer \/ peer' = [peer EXCEPT ![p].waiting = FALSE])
    BY <1>2 DEF ReceiveResponse
  <2>2. /\ peer'[p].mac1 = peer[p].mac1 /\ peer'[p].sent = peer[p].sent
        /\ peer'[p].addr = peer[p].addr
        /\ peer'[p].cookie = peer[p].cookie /\ peer'[p].received = peer[p].received
    BY <2>1 DEF IInv, PeerType
  <2>3. log.prompt[p] => CookieAtHand(p)'
    BY <1>1, <2>1, <2>2 DEF Track, Streak, CookieAtHand
  <2> QED
    BY <1>1, <2>1, <2>2, <2>3, QuietTrack DEF IsWith
<1>3. CASE Move(p)
  <2>1. log'.refused[p] = 0 /\ log'.prompt[p] = FALSE
    BY <1>3 DEF Move, IInv, LogType
  <2>2. peer'[p].mac1 = peer[p].mac1 /\ peer'[p].sent = peer[p].sent
    BY <1>3 DEF Move, IInv, PeerType
  <2> QED
    BY <1>1, <2>1, <2>2, QuietTrack DEF IsWith
<1> QED
  BY <1>2, <1>3

\* Every step keeps the tracks of every initiator.
LEMMA StepTrack == IInv /\ (\A p \in Peers : Track(p)) /\ [Next]_vars => \A p \in Peers : Track(p)'
<1> SUFFICES ASSUME IInv, [Next]_vars, NEW p \in Peers, Track(p) PROVE Track(p)'
  OBVIOUS
<1>1. CASE UNCHANGED vars
  <2>1. UNCHANGED <<now, job, peer, net, log>>
    BY <1>1 DEF vars
  <2>2. log.prompt[p] => CookieAtHand(p)'
    BY <2>1 DEF Track, Streak, CookieAtHand
  <2> QED
    BY <2>1, <2>2, QuietTrack DEF IsWith
<1>2. CASE Tick
  BY <1>2, TickTrack
<1>3. ASSUME NEW r \in Resetters, ReadClock(r) \/ ResetCount(r) PROVE Track(p)'
  BY <1>3, ResetTrack
<1>4. ASSUME NEW w \in Workers, Receive(w) \/ ReceiveOther(w) \/ IsUnderLoad(w) \/ CheckMac2(w)
      PROVE  Track(p)'
  BY <1>4, ReceiveTrack, CountTrack, CheckTrack
<1>5. ASSUME NEW q \in Peers,
             \/ StartHandshake(q) \/ UpdateTimers(q) \/ Move(q)
             \/ receive_cookie_reply(q) \/ ReceiveResponse(q)
      PROVE  Track(p)'
  BY <1>5, OtherTrack, TimersTrack, ReplyTrack, OthersTrack
<1> QED
  BY <1>1, <1>2, <1>3, <1>4, <1>5 DEF Next

\* rate_limiter.rs:84 with timers.rs:193 and 222: for any number of initiators and workers,
\* one that hears its refusals at once, retries in time and does not move is not refused
\* three times in a row, however its initiations, those of others and the changes of the
\* secret interleave.
THEOREM NeverThreeRefusals == Spec => []NeverRefusedThrice
<1>1. Init => IInv2
  BY InitIInv, InitTrack DEF IInv2
<1>2. IInv2 /\ [Next]_vars => IInv2'
  BY StepIInv, StepTrack DEF IInv2
<1>3. IInv2 => NeverRefusedThrice
  BY DEF IInv2, Track, Streak, NeverRefusedThrice
<1> QED
  BY <1>1, <1>2, <1>3, PTL DEF Spec
=============================================================================
