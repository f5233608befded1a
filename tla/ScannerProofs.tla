--------------------------- MODULE ScannerProofs ---------------------------
(***************************************************************************)
(* Proofs about the two daily scans, for any candidates, ranges, answers   *)
(* and bounds.                                                             *)
(*                                                                         *)
(* The scan for proxies: its counts are inductive together with the facts  *)
(* that an address is queued at most once and has no task before it is     *)
(* taken from the queue, that each permit is free or with a task that      *)
(* asks, and that the semaphore's queue has the tasks that wait.           *)
(*                                                                         *)
(* The scan for Cloudflare addresses: what is written is best because the  *)
(* two lists together have exactly the first results that were found, and  *)
(* because the sort, which is defined by ranks, is a permutation.          *)
(*                                                                         *)
(* What the loop over a list of candidates does is proved by induction, as *)
(* a set of numbers that cannot have a least element.                      *)
(***************************************************************************)
EXTENDS ProxyScanner, CfScanner,
        FiniteSetTheorems, SequenceTheorems, WellFoundedInduction, TLAPS

(***************************************************************************)
(* The scan for proxies                                                    *)
(***************************************************************************)
Infos == [ip : Ips, country : {Clip[c] : c \in Codes}, score : Scores \union {-1}]

\* Every variable stays in its type.
ProxyTypeOK ==
  /\ domain \in Nat
  /\ proxy_candidates \in Seq(Ips)
  /\ at \in [Ips -> {"idle", "worker", "trace", "wait", "ask", "live", "dead"}]
  /\ code \in [Ips -> Codes \union {Split}]
  /\ total \in Nat /\ permits \in Nat
  /\ queue \in Seq(Ips)
  /\ validated \in Seq(Infos)
  /\ live \in Nat /\ failed \in Nat /\ scored \in Nat /\ unknown \in Nat
  /\ DOMAIN files = {"md", "json"}

NoRepeat(s) == \A i, j \in DOMAIN s : i # j => s[i] # s[j]

\* Before the scan no task has run.
NothingYet ==
  pc \in {"create", "read", "resolve"} =>
    /\ \A ip \in Ips : at[ip] = "idle"
    /\ live = 0 /\ failed = 0 /\ validated = <<>>

\* The candidates in the stream are different addresses, and no task is theirs yet.
CandidatesAreNew ==
  /\ NoRepeat(proxy_candidates)
  /\ \A i \in DOMAIN proxy_candidates : at[proxy_candidates[i]] = "idle"

\* A task that will be listed has the code of an answer.
CodesKnown == \A ip \in Ips : at[ip] \in {"wait", "ask"} => code[ip] \in Codes

\* A permit is free or with one of the tasks that ask.
AskingTasks == {ip \in Ips : at[ip] = "ask"}
PermitsAreHeld == Cardinality(AskingTasks) + permits = Permits

\* The queue of the semaphore has the tasks that wait, each once, and no permit is free
\* beside it.
QueueIsOfWaiting ==
  /\ NoRepeat(queue)
  /\ \A ip \in Ips : at[ip] = "wait" <=> \E i \in DOMAIN queue : queue[i] = ip
  /\ queue # <<>> => permits = 0

\* What is listed has ended.
ListedAreLive == \A i \in DOMAIN validated : at[validated[i].ip] = "live"

\* A report is complete when the step after it begins.
ReportsWritten ==
  /\ pc \in {"json", "write", "exit"} => files.md = Markdown(validated)
  /\ pc = "exit" => files.json = Zizifn(validated)
  /\ pc # "pushed" => main.md = Old /\ main.json = Old

ProxyIInv ==
  /\ ProxyTypeOK /\ NothingYet /\ CandidatesAreNew /\ CodesKnown
  /\ PermitsAreHeld /\ QueueIsOfWaiting /\ ListedAreLive
  /\ EachCountedOnce /\ ReportsWritten /\ PublishedIsWhole

(***************************************************************************)
(* Induction, over a set of numbers in place of a predicate                *)
(***************************************************************************)
\* A set of naturals without 0 that has, with a number, the one before is empty.
LEMMA NoLeast ==
  ASSUME NEW T \in SUBSET Nat, 0 \notin T, \A n \in Nat : n + 1 \in T => n \in T
  PROVE  T = {}
<1> SUFFICES ASSUME T # {} PROVE FALSE
  OBVIOUS
<1>1. PICK x \in T : \A y \in T : <<y, x>> \notin OpToRel(<, Nat)
  BY WFMin, NatLessThanWellFounded
<1>2. x # 0 /\ x - 1 \in Nat /\ x - 1 \in T
  <2>1. x # 0 /\ x - 1 \in Nat /\ (x - 1) + 1 = x
    OBVIOUS
  <2> QED
    BY <2>1
<1>3. <<x - 1, x>> \in OpToRel(<, Nat)
  BY <1>2 DEF OpToRel
<1> QED
  BY <1>1, <1>2, <1>3

\* What is listed or resolved.
Entries == [ip : Ips, port : Nat]

\* One candidate more, or none: no address comes twice.
LEMMA InsertFacts ==
  ASSUME NEW s \in Seq(Ips), NoRepeat(s), NEW c \in Entries
  PROVE  Insert(s, c) \in Seq(Ips) /\ NoRepeat(Insert(s, c))
BY DEF Insert, NoRepeat, Entries

\* The candidates after each turn of the loop over a list.
Queued(q, s, list) ==
  /\ q[0] = s /\ InsertAll(s, list) = q[Len(list)]
  /\ \A n \in Nat : n < Len(list) => q[n + 1] = Insert(q[n], list[n + 1])

\* The loop computes what its equation says.
LEMMA InsertAllLoop ==
  ASSUME NEW s, NEW list \in Seq(Entries)
  PROVE  \E q : Queued(q, s, list)
<1> DEFINE Loop(m, q) == q = [n \in 0..m |-> IF n = 0 THEN s ELSE Insert(q[n - 1], list[n])]
<1> DEFINE Bad == {m \in Nat : m <= Len(list) /\ ~\E q : Loop(m, q)}
<1>1. 0 \notin Bad
  <2>1. Loop(0, [n \in 0..0 |-> s])
    OBVIOUS
  <2> QED
    BY <2>1
<1>2. ASSUME NEW m \in Nat, m + 1 \in Bad PROVE m \in Bad
  <2>0. m <= Len(list) /\ m + 1 <= Len(list) /\ ~\E q : Loop(m + 1, q)
    BY <1>2
  <2>1. SUFFICES ASSUME NEW q, Loop(m, q) PROVE FALSE
    BY <2>0
  <2> DEFINE next == [n \in 0..(m + 1) |-> IF n = m + 1 THEN Insert(q[m], list[m + 1]) ELSE q[n]]
  <2>2. Loop(m + 1, next)
    <3>1. ASSUME NEW n \in 0..(m + 1) PROVE next[n] = IF n = 0 THEN s ELSE Insert(next[n - 1], list[n])
      BY <2>1
    <3> QED
      BY <3>1
  <2> QED
    BY <2>0, <2>2
<1>3. Bad = {}
  <2> HIDE DEF Bad
  <2>1. Bad \in SUBSET Nat
    BY DEF Bad
  <2> QED
    BY <1>1, <1>2, <2>1, NoLeast
<1>4. \E q : Loop(Len(list), q)
  BY <1>3
<1>5. PICK q : Loop(Len(list), q) /\ InsertAll(s, list) = q[Len(list)]
  BY <1>4 DEF InsertAll
<1>6. PICK e : e = [n \in 0..Len(list) |-> IF n = 0 THEN s ELSE Insert(q[n - 1], list[n])]
  OBVIOUS
<1>7. e[0] = s /\ \A n \in Nat : n < Len(list) => e[n + 1] = Insert(q[n], list[n + 1])
  BY <1>6
<1>8. q = e
  BY <1>5, <1>6
<1> QED
  <2> HIDE DEF Loop
  <2> QED
    BY <1>5, <1>7, <1>8 DEF Queued

\* Nothing is queued twice, over a whole list.
LEMMA InsertAllFacts ==
  ASSUME NEW s \in Seq(Ips), NoRepeat(s), NEW list \in Seq(Entries)
  PROVE  InsertAll(s, list) \in Seq(Ips) /\ NoRepeat(InsertAll(s, list))
<1>1. PICK q : Queued(q, s, list)
  BY InsertAllLoop
<1> DEFINE Good(x) == x \in Seq(Ips) /\ NoRepeat(x)
           Bad == {m \in Nat : m <= Len(list) /\ ~Good(q[m])}
<1>2. 0 \notin Bad
  BY <1>1 DEF Queued
<1>3. ASSUME NEW m \in Nat, m + 1 \in Bad PROVE m \in Bad
  <2>0. m + 1 \in 1..Len(list) /\ ~Good(q[m + 1])
    BY <1>3
  <2>1. m < Len(list) /\ list[m + 1] \in Entries
    BY <2>0, ElementOfSeq
  <2>2. SUFFICES ASSUME Good(q[m]) PROVE FALSE
    BY <1>3, <2>1
  <2>3. Good(Insert(q[m], list[m + 1]))
    BY <2>1, <2>2, InsertFacts
  <2> QED
    BY <1>1, <2>0, <2>1, <2>3 DEF Queued
<1>4. Bad = {}
  <2> HIDE DEF Bad
  <2>1. Bad \in SUBSET Nat
    BY DEF Bad
  <2> QED
    BY <1>2, <1>3, <2>1, NoLeast
<1>5. Len(list) \in Nat /\ Len(list) \notin Bad
  BY <1>4
<1> QED
  BY <1>1, <1>5 DEF Queued

(***************************************************************************)
(* Counting tasks                                                          *)
(***************************************************************************)
\* Sets of tasks are finite: they can be counted.
LEMMA TasksFinite ==
  ASSUME NEW S \in SUBSET Ips
  PROVE  IsFiniteSet(S) /\ Cardinality(S) \in Nat
BY ScannerAssumption, FS_Subset, FS_CardinalityType

\* One task more, one less.
LEMMA OneMore ==
  ASSUME NEW S \in SUBSET Ips, NEW ip \in Ips, ip \notin S
  PROVE  Cardinality(S \union {ip}) = Cardinality(S) + 1
BY TasksFinite, FS_AddElement

LEMMA OneLess ==
  ASSUME NEW S \in SUBSET Ips, NEW ip \in S
  PROVE  Cardinality(S \ {ip}) = Cardinality(S) - 1 /\ Cardinality(S) >= 1
<1>1. Cardinality(S \ {ip}) = Cardinality(S) - 1
  BY TasksFinite, FS_RemoveElement
<1> QED
  BY <1>1, TasksFinite

\* The initial state satisfies the inductive invariant.
LEMMA InitProxyIInv == ProxyInit => ProxyIInv
<1> SUFFICES ASSUME ProxyInit PROVE ProxyIInv
  OBVIOUS
<1> USE DEF ProxyInit, Checkout
<1>1. AskingTasks = {} /\ InFlight = {}
  BY DEF AskingTasks, InFlight
<1>2. ProxyTypeOK
  BY ScannerAssumption DEF ProxyTypeOK
<1>3. NothingYet /\ CandidatesAreNew /\ CodesKnown
  BY DEF NothingYet, CandidatesAreNew, NoRepeat, CodesKnown
<1>4. PermitsAreHeld
  BY <1>1, ScannerAssumption, FS_EmptySet DEF PermitsAreHeld
<1>5. QueueIsOfWaiting /\ ListedAreLive
  BY DEF QueueIsOfWaiting, NoRepeat, ListedAreLive
<1>6. EachCountedOnce
  <2>1. {i \in DOMAIN validated : validated[i].score = -1} = {}
        /\ {i \in DOMAIN validated : validated[i].score # -1} = {}
    OBVIOUS
  <2> QED
    BY <2>1, FS_EmptySet DEF EachCountedOnce
<1>7. ReportsWritten /\ PublishedIsWhole
  BY DEF ReportsWritten, PublishedIsWhole
<1> QED
  BY <1>2, <1>3, <1>4, <1>5, <1>6, <1>7 DEF ProxyIInv

\* Steps of main and the job that leave tasks and counters alone.
LEMMA QuietStep ==
  ASSUME ProxyIInv, UNCHANGED <<domain, total, tasks, counters>>,
         pc' = "scan" => pc = "scan",
         pc' \in {"create", "read", "resolve"} => pc \in {"create", "read", "resolve"},
         pc = "failed" => pc' = "failed",
         ProxyTypeOK', ReportsWritten', PublishedIsWhole'
  PROVE  ProxyIInv'
<1> USE DEF tasks, counters
<1>1. NothingYet' /\ CandidatesAreNew' /\ CodesKnown' /\ ListedAreLive' /\ QueueIsOfWaiting'
  BY DEF ProxyIInv, NothingYet, CandidatesAreNew, CodesKnown, ListedAreLive, QueueIsOfWaiting, NoRepeat
<1>2. PermitsAreHeld'
  BY DEF ProxyIInv, PermitsAreHeld, AskingTasks
<1>3. EachCountedOnce'
  BY DEF ProxyIInv, EachCountedOnce, InFlight
<1> QED
  BY <1>1, <1>2, <1>3 DEF ProxyIInv

\* The step before the scan: a report is truncated, or candidates are queued.
LEMMA PrepareKeeps == ProxyIInv /\ Prepare => ProxyIInv'
<1> SUFFICES ASSUME ProxyIInv, Prepare PROVE ProxyIInv'
  OBVIOUS
<1> USE DEF tasks, counters, job
<1>1. CASE CreateReport
  <2> USE <1>1 DEF CreateReport
  <2>1. ProxyTypeOK'
    BY DEF ProxyIInv, ProxyTypeOK
  <2>2. ReportsWritten' /\ PublishedIsWhole'
    BY DEF ProxyIInv, ReportsWritten, PublishedIsWhole
  <2> QED
    BY <2>1, <2>2, QuietStep
<1>2. CASE ReadProxyFile \/ ResolveDomain
  <2>1. PICK list \in Seq(Entries) :
          proxy_candidates' \in {proxy_candidates, InsertAll(proxy_candidates, list)}
    <3>1. Lines \in Seq(Entries)
      BY ScannerAssumption DEF Entries
    <3>2. CASE ReadProxyFile
      BY <3>1, <3>2 DEF ReadProxyFile
    <3>3. CASE ResolveDomain
      <4>1. domain + 1 \in 1..Len(Domains)
        BY <3>3 DEF ResolveDomain, ProxyIInv, ProxyTypeOK
      <4>2. Domains[domain + 1] \in Seq(Ips)
        BY <4>1, ScannerAssumption, ElementOfSeq
      <4>3. Resolved(Domains[domain + 1]) \in Seq(Entries)
        <5>1. PICK ips \in Seq(Ips) : ips = Domains[domain + 1]
          BY <4>2
        <5>2. Len(ips) \in Nat /\ DOMAIN ips = 1..Len(ips) /\ \A i \in 1..Len(ips) : ips[i] \in Ips
          BY <5>1, LenProperties, ElementOfSeq
        <5>3. Resolved(ips) \in [1..Len(ips) -> Entries]
          BY <5>2 DEF Resolved, Entries, Port
        <5> QED
          BY <5>1, <5>2, <5>3, SeqDef
      <4> QED
        BY <3>3, <4>3 DEF ResolveDomain
    <3> QED
      BY <1>2, <3>2, <3>3
  <2>2. pc \in {"read", "resolve"} /\ pc' = "resolve" /\ domain' \in Nat
        /\ UNCHANGED <<total, at, code, tries, permits, queue, validated, counters, job>>
    BY <1>2 DEF ReadProxyFile, ResolveDomain, ProxyIInv, ProxyTypeOK
  <2>3. proxy_candidates' \in Seq(Ips) /\ NoRepeat(proxy_candidates')
    BY <2>1, InsertAllFacts DEF ProxyIInv, ProxyTypeOK, CandidatesAreNew
  <2>4. \A i \in DOMAIN proxy_candidates' : proxy_candidates'[i] \in Ips
    BY <2>3
  <2>5. ProxyTypeOK'
    BY <2>2, <2>3 DEF ProxyIInv, ProxyTypeOK
  <2>6. NothingYet' /\ CandidatesAreNew' /\ CodesKnown' /\ ListedAreLive' /\ QueueIsOfWaiting'
    BY <2>2, <2>3, <2>4 DEF ProxyIInv, NothingYet, CandidatesAreNew, CodesKnown,
         ListedAreLive, QueueIsOfWaiting, NoRepeat
  <2>7. PermitsAreHeld'
    BY <2>2 DEF ProxyIInv, PermitsAreHeld, AskingTasks
  <2>8. EachCountedOnce'
    BY <2>2 DEF ProxyIInv, EachCountedOnce
  <2>9. ReportsWritten' /\ PublishedIsWhole'
    BY <2>2 DEF ProxyIInv, ReportsWritten, PublishedIsWhole
  <2> QED
    BY <2>5, <2>6, <2>7, <2>8, <2>9 DEF ProxyIInv
<1>3. CASE GetScannerIp
  <2> USE <1>3 DEF GetScannerIp
  <2>1. ProxyTypeOK'
    BY LenProperties DEF ProxyIInv, ProxyTypeOK
  <2>2. NothingYet' /\ CandidatesAreNew' /\ CodesKnown' /\ ListedAreLive' /\ QueueIsOfWaiting'
    BY DEF ProxyIInv, NothingYet, CandidatesAreNew, CodesKnown, ListedAreLive, QueueIsOfWaiting, NoRepeat
  <2>3. PermitsAreHeld'
    BY DEF ProxyIInv, PermitsAreHeld, AskingTasks
  <2>4. EachCountedOnce'
    <3>1. InFlight' = {}
      BY DEF InFlight, ProxyIInv, NothingYet
    <3>2. live = 0 /\ failed = 0 /\ Len(proxy_candidates) \in Nat
      BY DEF ProxyIInv, NothingYet, ProxyTypeOK
    <3>3. live' + failed' + Cardinality(InFlight)' + Len(proxy_candidates)' = total'
      BY <3>1, <3>2, FS_EmptySet
    <3> QED
      BY <3>3 DEF ProxyIInv, EachCountedOnce
  <2>5. ReportsWritten' /\ PublishedIsWhole'
    BY DEF ProxyIInv, ReportsWritten, PublishedIsWhole
  <2> QED
    BY <2>1, <2>2, <2>3, <2>4, <2>5 DEF ProxyIInv
<1> QED
  BY <1>1, <1>2, <1>3 DEF Prepare

\* A candidate is taken from the stream: it was no task's.
LEMMA StartKeeps == ProxyIInv /\ Start => ProxyIInv'
<1> SUFFICES ASSUME ProxyIInv, Start PROVE ProxyIInv'
  OBVIOUS
<1> DEFINE ip == Head(proxy_candidates)
<1> USE DEF counters, job
<1>1. /\ ip \in Ips /\ ip = proxy_candidates[1] /\ 1 \in DOMAIN proxy_candidates
      /\ proxy_candidates' \in Seq(Ips) /\ Len(proxy_candidates') = Len(proxy_candidates) - 1
      /\ \A i \in DOMAIN proxy_candidates' :
           proxy_candidates'[i] = proxy_candidates[i + 1] /\ i + 1 \in DOMAIN proxy_candidates
  BY HeadTailProperties DEF Start, ProxyIInv, ProxyTypeOK
<1>2. /\ at[ip] = "idle" /\ at' = [at EXCEPT ![ip] = "worker"]
      /\ at \in [Ips -> {"idle", "worker", "trace", "wait", "ask", "live", "dead"}]
  BY <1>1 DEF Start, Goto, ProxyIInv, CandidatesAreNew, ProxyTypeOK
<1>3. pc = "scan" /\ UNCHANGED <<pc, domain, total, code, tries, permits, queue, validated, counters, job>>
  BY DEF Start
<1> HIDE DEF ip
<1>4. ProxyTypeOK'
  BY <1>1, <1>2, <1>3 DEF ProxyIInv, ProxyTypeOK
<1>5. NothingYet' /\ CodesKnown' /\ ListedAreLive' /\ QueueIsOfWaiting'
  BY <1>1, <1>2, <1>3 DEF ProxyIInv, NothingYet, CodesKnown, ListedAreLive, QueueIsOfWaiting, NoRepeat
<1>6. CandidatesAreNew'
  <2>1. \A i \in DOMAIN proxy_candidates' :
          proxy_candidates'[i] # ip /\ at[proxy_candidates'[i]] = "idle" /\ proxy_candidates'[i] \in Ips
    BY <1>1 DEF ProxyIInv, CandidatesAreNew, NoRepeat
  <2>2. \A i, j \in DOMAIN proxy_candidates' : i # j => proxy_candidates'[i] # proxy_candidates'[j]
    BY <1>1 DEF ProxyIInv, CandidatesAreNew, NoRepeat
  <2> QED
    BY <1>2, <2>1, <2>2 DEF CandidatesAreNew, NoRepeat
<1>7. PermitsAreHeld'
  <2>1. AskingTasks' = AskingTasks
    BY <1>1, <1>2 DEF AskingTasks
  <2> QED
    BY <1>3, <2>1 DEF ProxyIInv, PermitsAreHeld
<1>8. EachCountedOnce'
  <2>1. InFlight' = InFlight \union {ip} /\ ip \notin InFlight
    BY <1>1, <1>2 DEF InFlight
  <2>2. InFlight \in SUBSET Ips
    BY DEF InFlight
  <2>4. Cardinality(InFlight') = Cardinality(InFlight) + 1 /\ Cardinality(InFlight) \in Nat
    BY <1>1, <2>1, <2>2, OneMore, TasksFinite
  <2>3. Len(proxy_candidates) \in Nat
    BY DEF ProxyIInv, ProxyTypeOK
  <2>5. live + failed + Cardinality(InFlight) + Len(proxy_candidates) = total
        /\ live \in Nat /\ failed \in Nat
    BY <1>3 DEF ProxyIInv, EachCountedOnce, ProxyTypeOK
  <2>6. live' + failed' + Cardinality(InFlight)' + Len(proxy_candidates)' = total'
    BY <1>1, <1>3, <2>3, <2>4, <2>5
  <2> QED
    BY <1>3, <2>6 DEF ProxyIInv, EachCountedOnce
<1>9. ReportsWritten' /\ PublishedIsWhole'
  BY <1>3 DEF ProxyIInv, ReportsWritten, PublishedIsWhole
<1> QED
  BY <1>4, <1>5, <1>6, <1>7, <1>8, <1>9 DEF ProxyIInv

\* A probe has ended: with the answer of a proxy the task goes for a permit, else to
\* the other probe or to its end.
LEMMA ProbeKeeps ==
  ASSUME ProxyIInv, NEW ip \in Ips, ProbeWorker(ip) \/ ProbeTrace(ip)
  PROVE  ProxyIInv'
<1> USE DEF job
<1>1. PICK from, otherwise : /\ <<from, otherwise>> \in {<<"worker", "trace">>, <<"trace", "dead">>}
                             /\ Probe(ip, from, otherwise)
  BY DEF ProbeWorker, ProbeTrace
<1>2. /\ pc = "scan" /\ at[ip] = from /\ from \in {"worker", "trace"}
      /\ UNCHANGED <<pc, domain, proxy_candidates, total, validated, live, scored, unknown, job>>
  BY <1>1 DEF Probe
<1>3. ProxyTypeOK /\ InFlight \in SUBSET Ips /\ AskingTasks \in SUBSET Ips
  BY DEF ProxyIInv, InFlight, AskingTasks
<1>4. ReportsWritten' /\ PublishedIsWhole'
  BY <1>2 DEF ProxyIInv, ReportsWritten, PublishedIsWhole
<1>5. NothingYet'
  BY <1>2 DEF NothingYet
\* What follows from where the task goes.
<1>6. ASSUME NEW place \in {"trace", "dead", "wait", "ask"}, Goto(ip, place)
      PROVE  /\ at' \in [Ips -> {"idle", "worker", "trace", "wait", "ask", "live", "dead"}]
             /\ CandidatesAreNew' /\ ListedAreLive'
             /\ InFlight' = (IF place = "dead" THEN InFlight \ {ip} ELSE InFlight)
             /\ AskingTasks' = (IF place = "ask" THEN AskingTasks \union {ip} ELSE AskingTasks)
             /\ ip \in InFlight /\ ip \notin AskingTasks
  <2>1. at' = [at EXCEPT ![ip] = place]
    BY <1>6 DEF Goto
  <2>2. at' \in [Ips -> {"idle", "worker", "trace", "wait", "ask", "live", "dead"}]
    BY <1>3, <2>1 DEF ProxyTypeOK
  <2>3. CandidatesAreNew'
    BY <1>2, <1>3, <2>1 DEF ProxyIInv, CandidatesAreNew, NoRepeat, ProxyTypeOK
  <2>4. ListedAreLive'
    BY <1>2, <1>3, <2>1 DEF ProxyIInv, ListedAreLive, ProxyTypeOK
  <2>5. InFlight' = (IF place = "dead" THEN InFlight \ {ip} ELSE InFlight) /\ ip \in InFlight
    BY <1>2, <1>3, <2>1 DEF InFlight, ProxyTypeOK
  <2>6. /\ AskingTasks' = (IF place = "ask" THEN AskingTasks \union {ip} ELSE AskingTasks)
        /\ ip \notin AskingTasks
    BY <1>2, <1>3, <2>1 DEF AskingTasks, ProxyTypeOK
  <2> QED
    BY <2>2, <2>3, <2>4, <2>5, <2>6
<1>7. ASSUME NEW c \in Codes, code' = [code EXCEPT ![ip] = c], Acquire(ip), UNCHANGED failed
      PROVE  ProxyIInv'
  <2>1. \/ permits > 0 /\ permits' = permits - 1 /\ Goto(ip, "ask") /\ UNCHANGED queue
        \/ permits = 0 /\ queue' = Append(queue, ip) /\ Goto(ip, "wait") /\ UNCHANGED permits
    BY <1>3, <1>7 DEF Acquire, ProxyTypeOK
  <2>2. PICK place \in {"wait", "ask"} : Goto(ip, place) /\ at' = [at EXCEPT ![ip] = place]
    BY <2>1 DEF Goto
  <2>3. queue' \in Seq(Ips) /\ permits' \in Nat
    <3>1. queue \in Seq(Ips) /\ permits \in Nat /\ Append(queue, ip) \in Seq(Ips)
      BY <1>3, AppendProperties DEF ProxyTypeOK
    <3> QED
      BY <2>1, <3>1
  <2>4. ProxyTypeOK'
    BY <1>2, <1>3, <1>6, <1>7, <2>2, <2>3 DEF ProxyTypeOK
  <2>5. CodesKnown'
    BY <1>2, <1>3, <1>7, <2>2 DEF ProxyIInv, CodesKnown, ProxyTypeOK
  <2>6. PermitsAreHeld'
    <3>1. CASE permits > 0
      <4>1. AskingTasks' = AskingTasks \union {ip} /\ ip \notin AskingTasks /\ permits' = permits - 1
        BY <1>6, <2>1, <3>1
      <4>2. Cardinality(AskingTasks') = Cardinality(AskingTasks) + 1 /\ Cardinality(AskingTasks) \in Nat
        BY <1>3, <4>1, OneMore, TasksFinite
      <4> QED
        BY <1>3, <4>1, <4>2, ScannerAssumption DEF ProxyIInv, PermitsAreHeld, ProxyTypeOK
    <3>2. CASE permits = 0
      BY <1>3, <1>6, <2>1, <3>2 DEF ProxyIInv, PermitsAreHeld, ProxyTypeOK
    <3> QED
      BY <1>3, <3>1, <3>2 DEF ProxyTypeOK
  <2>7. QueueIsOfWaiting'
    <3>1. CASE permits > 0
      BY <1>2, <1>3, <2>1, <3>1 DEF ProxyIInv, QueueIsOfWaiting, NoRepeat, Goto, ProxyTypeOK
    <3>2. CASE permits = 0
      <4>1. queue' = Append(queue, ip) /\ at' = [at EXCEPT ![ip] = "wait"] /\ permits' = 0
        BY <2>1, <3>2 DEF Goto
      <4>2. Len(queue) \in Nat /\ DOMAIN queue = 1..Len(queue) /\ DOMAIN queue' = 1..(Len(queue) + 1)
            /\ queue'[Len(queue) + 1] = ip /\ \A i \in DOMAIN queue : queue'[i] = queue[i]
        BY <1>3, <4>1, AppendProperties, LenProperties DEF ProxyTypeOK
      <4>3. \A i \in DOMAIN queue : queue[i] # ip
        BY <1>2 DEF ProxyIInv, QueueIsOfWaiting
      <4>4. NoRepeat(queue')
        BY <4>2, <4>3 DEF ProxyIInv, QueueIsOfWaiting, NoRepeat
      <4>5. \A other \in Ips : at'[other] = "wait" <=> \E i \in DOMAIN queue' : queue'[i] = other
        BY <1>3, <4>1, <4>2, <4>3 DEF ProxyIInv, QueueIsOfWaiting, ProxyTypeOK
      <4> QED
        BY <4>1, <4>4, <4>5 DEF QueueIsOfWaiting, NoRepeat
    <3> QED
      BY <1>3, <3>1, <3>2 DEF ProxyTypeOK
  <2>8. EachCountedOnce'
    BY <1>2, <1>6, <1>7, <2>2 DEF ProxyIInv, EachCountedOnce
  <2> QED
    BY <1>4, <1>5, <1>6, <2>2, <2>4, <2>5, <2>6, <2>7, <2>8 DEF ProxyIInv
<1>8. ASSUME Goto(ip, otherwise), failed' = failed + (IF otherwise = "dead" THEN 1 ELSE 0),
             UNCHANGED <<code, permits, queue>>
      PROVE  ProxyIInv'
  <2>1. at' = [at EXCEPT ![ip] = otherwise] /\ otherwise \in {"trace", "dead"}
    BY <1>1, <1>8 DEF Goto
  <2>2. ProxyTypeOK'
    BY <1>2, <1>3, <1>6, <1>8, <2>1 DEF ProxyTypeOK
  <2>3. CodesKnown'
    BY <1>2, <1>3, <1>8, <2>1 DEF ProxyIInv, CodesKnown, ProxyTypeOK
  <2>4. PermitsAreHeld'
    BY <1>6, <1>8, <2>1 DEF ProxyIInv, PermitsAreHeld
  <2>5. QueueIsOfWaiting'
    BY <1>2, <1>3, <1>8, <2>1 DEF ProxyIInv, QueueIsOfWaiting, NoRepeat, ProxyTypeOK
  <2>6. EachCountedOnce'
    <3>1. CASE otherwise = "trace"
      BY <1>2, <1>3, <1>6, <1>8, <2>1, <3>1 DEF ProxyIInv, EachCountedOnce, ProxyTypeOK
    <3>2. CASE otherwise = "dead"
      <4>1. Cardinality(InFlight') = Cardinality(InFlight) - 1 /\ Cardinality(InFlight) \in Nat
        BY <1>3, <1>6, <1>8, <2>1, <3>2, OneLess, TasksFinite
      <4>2. Len(proxy_candidates) \in Nat /\ failed' = failed + 1
        BY <1>3, <1>8, <3>2, LenProperties DEF ProxyTypeOK
      <4> QED
        BY <1>2, <1>3, <4>1, <4>2 DEF ProxyIInv, EachCountedOnce, ProxyTypeOK
    <3> QED
      BY <2>1, <3>1, <3>2
  <2> QED
    BY <1>4, <1>5, <1>6, <1>8, <2>1, <2>2, <2>3, <2>4, <2>5, <2>6 DEF ProxyIInv
<1> QED
  BY <1>1, <1>7, <1>8 DEF Probe

\* The next host is asked.
LEMMA AskNextKeeps ==
  ASSUME ProxyIInv, NEW ip \in Ips, AskNext(ip)
  PROVE  ProxyIInv'
<1> USE DEF AskNext, counters, job
<1>1. ProxyTypeOK' /\ NothingYet' /\ CandidatesAreNew' /\ CodesKnown' /\ ListedAreLive'
  BY DEF ProxyIInv, ProxyTypeOK, NothingYet, CandidatesAreNew, NoRepeat, CodesKnown, ListedAreLive
<1>2. PermitsAreHeld' /\ QueueIsOfWaiting'
  BY DEF ProxyIInv, PermitsAreHeld, AskingTasks, QueueIsOfWaiting, NoRepeat
<1>3. EachCountedOnce'
  BY DEF ProxyIInv, EachCountedOnce, InFlight
<1>4. ReportsWritten' /\ PublishedIsWhole'
  BY DEF ProxyIInv, ReportsWritten, PublishedIsWhole
<1> QED
  BY <1>1, <1>2, <1>3, <1>4 DEF ProxyIInv

\* A task has its risk and gives its permit back: to the task that waits longest, if
\* any does.
LEMMA ReleaseFacts ==
  ASSUME ProxyIInv, NEW ip \in Ips, NEW score, at[ip] = "ask", Release(ip, score)
  PROVE  /\ at' \in [Ips -> {"idle", "worker", "trace", "wait", "ask", "live", "dead"}]
         /\ permits' \in Nat /\ queue' \in Seq(Ips)
         /\ \A other \in Ips : other # ip =>
              \/ at'[other] = at[other]
              \/ at[other] = "wait" /\ at'[other] = "ask"
         /\ at'[ip] = "live"
         /\ PermitsAreHeld' /\ QueueIsOfWaiting'
<1>1. ProxyTypeOK /\ QueueIsOfWaiting /\ PermitsAreHeld /\ AskingTasks \in SUBSET Ips /\ ip \in AskingTasks
  BY DEF ProxyIInv, AskingTasks
<1>2. Cardinality(AskingTasks \ {ip}) = Cardinality(AskingTasks) - 1 /\ Cardinality(AskingTasks) \in Nat
  BY <1>1, OneLess, TasksFinite
<1>3. CASE queue = <<>>
  <2>1. at' = [at EXCEPT ![ip] = "live"] /\ permits' = permits + 1 /\ queue' = queue
    BY <1>3 DEF Release, Goto
  <2>2. AskingTasks' = AskingTasks \ {ip}
    BY <1>1, <2>1 DEF AskingTasks, ProxyTypeOK
  <2>3. PermitsAreHeld'
    BY <1>1, <1>2, <2>1, <2>2, ScannerAssumption DEF PermitsAreHeld, ProxyTypeOK
  <2>4. QueueIsOfWaiting'
    BY <1>1, <1>3, <2>1 DEF QueueIsOfWaiting, NoRepeat, ProxyTypeOK
  <2> QED
    BY <1>1, <2>1, <2>3, <2>4 DEF ProxyTypeOK
<1>4. CASE queue # <<>>
  <2> DEFINE first == Head(queue)
  <2>1. /\ first \in Ips /\ first = queue[1] /\ 1 \in DOMAIN queue
        /\ Tail(queue) \in Seq(Ips) /\ DOMAIN Tail(queue) = 1..(Len(queue) - 1)
        /\ \A i \in DOMAIN Tail(queue) : Tail(queue)[i] = queue[i + 1] /\ i + 1 \in DOMAIN queue
        /\ DOMAIN queue = 1..Len(queue) /\ Len(queue) \in Nat
    BY <1>1, <1>4, HeadTailProperties, LenProperties DEF ProxyTypeOK
  <2>2. queue' = Tail(queue) /\ at' = [at EXCEPT ![ip] = "live", ![first] = "ask"] /\ permits' = permits
    BY <1>4 DEF Release
  <2> HIDE DEF first
  <2>3. at[first] = "wait" /\ first # ip
    BY <1>1, <2>1 DEF QueueIsOfWaiting
  <2>4. at' \in [Ips -> {"idle", "worker", "trace", "wait", "ask", "live", "dead"}]
        /\ at'[ip] = "live" /\ at'[first] = "ask"
        /\ \A other \in Ips : other # ip /\ other # first => at'[other] = at[other]
    BY <1>1, <2>1, <2>2, <2>3 DEF ProxyTypeOK
  <2>5. PermitsAreHeld'
    <3>1. AskingTasks' = (AskingTasks \ {ip}) \union {first} /\ first \notin AskingTasks \ {ip}
      BY <1>1, <2>1, <2>3, <2>4 DEF AskingTasks
    <3>2. Cardinality(AskingTasks') = Cardinality(AskingTasks \ {ip}) + 1
      BY <1>1, <2>1, <3>1, OneMore
    <3> QED
      BY <1>1, <1>2, <2>2, <3>2, ScannerAssumption DEF PermitsAreHeld, ProxyTypeOK
  <2>6. QueueIsOfWaiting'
    <3>1. NoRepeat(queue')
      BY <1>1, <2>1, <2>2 DEF QueueIsOfWaiting, NoRepeat
    <3>2. ASSUME NEW other \in Ips PROVE at'[other] = "wait" <=> \E i \in DOMAIN queue' : queue'[i] = other
      <4>1. \A i \in DOMAIN queue' : queue'[i] # first
        BY <1>1, <2>1, <2>2 DEF QueueIsOfWaiting, NoRepeat
      <4>2. \A i \in DOMAIN queue : queue[i] # ip
        BY <1>1, <2>1 DEF QueueIsOfWaiting, AskingTasks
      <4>3. CASE other = first
        BY <2>4, <4>1, <4>3
      <4>4. CASE other = ip
        BY <2>1, <2>2, <2>4, <4>2, <4>4
      <4>5. CASE other # ip /\ other # first
        <5>1. at'[other] = at[other]
          BY <2>4, <4>5
        <5>2. ASSUME NEW i \in DOMAIN queue, queue[i] = other PROVE \E j \in DOMAIN queue' : queue'[j] = other
          <6>1. i # 1 /\ i - 1 \in DOMAIN Tail(queue) /\ (i - 1) + 1 = i
            BY <2>1, <4>5, <5>2
          <6> QED
            BY <2>1, <2>2, <5>2, <6>1
        <5> QED
          BY <1>1, <2>1, <2>2, <5>1, <5>2 DEF QueueIsOfWaiting
      <4> QED
        BY <4>3, <4>4, <4>5
    <3>3. queue' # <<>> => permits' = 0
      BY <1>1, <1>4, <2>2 DEF QueueIsOfWaiting
    <3> QED
      BY <3>1, <3>2, <3>3 DEF QueueIsOfWaiting
  <2> QED
    BY <1>1, <2>1, <2>2, <2>3, <2>4, <2>5, <2>6 DEF ProxyTypeOK
<1> QED
  BY <1>3, <1>4

\* Numbers of a list can be counted, and one number more counts.
LEMMA NumbersFinite ==
  ASSUME NEW n \in Nat, NEW S \in SUBSET (1..n)
  PROVE  /\ IsFiniteSet(S) /\ Cardinality(S) \in Nat
         /\ Cardinality(S \union {n + 1}) = Cardinality(S) + 1
<1>1. IsFiniteSet(1..n)
  BY FS_Interval
<1>2. IsFiniteSet(S) /\ Cardinality(S) \in Nat
  BY <1>1, FS_Subset, FS_CardinalityType
<1>3. n + 1 \notin S
  OBVIOUS
<1> QED
  BY <1>2, <1>3, FS_AddElement

Unscored(list) == {i \in DOMAIN list : list[i].score = -1}
WithScore(list) == {i \in DOMAIN list : list[i].score # -1}

\* One proxy more is one score more, or one that is missing.
LEMMA AppendScores ==
  ASSUME NEW list \in Seq(Infos), NEW x \in Infos
  PROVE  LET longer == Append(list, x)
         IN  /\ Cardinality(Unscored(list)) \in Nat /\ Cardinality(WithScore(list)) \in Nat
             /\ Cardinality(Unscored(longer)) = Cardinality(Unscored(list)) + (IF x.score = -1 THEN 1 ELSE 0)
             /\ Cardinality(WithScore(longer)) = Cardinality(WithScore(list)) + (IF x.score = -1 THEN 0 ELSE 1)
<1> DEFINE n == Len(list)
<1> DEFINE longer == Append(list, x)
<1>1. /\ n \in Nat /\ DOMAIN list = 1..n /\ DOMAIN longer = 1..(n + 1)
      /\ longer[n + 1] = x /\ \A i \in 1..n : longer[i] = list[i]
  BY AppendProperties, LenProperties
<1>2. Unscored(list) \in SUBSET (1..n) /\ WithScore(list) \in SUBSET (1..n)
  BY <1>1 DEF Unscored, WithScore
<1>3. Unscored(longer) = Unscored(list) \union (IF x.score = -1 THEN {n + 1} ELSE {})
  <2> HIDE DEF longer, n
  <2> QED
    BY <1>1 DEF Unscored
<1>4. WithScore(longer) = WithScore(list) \union (IF x.score = -1 THEN {} ELSE {n + 1})
  <2> HIDE DEF longer, n
  <2> QED
    BY <1>1 DEF WithScore
<1> HIDE DEF longer, n
<1>5. /\ Cardinality(Unscored(list)) \in Nat /\ Cardinality(WithScore(list)) \in Nat
      /\ Cardinality(Unscored(list) \union {n + 1}) = Cardinality(Unscored(list)) + 1
      /\ Cardinality(WithScore(list) \union {n + 1}) = Cardinality(WithScore(list)) + 1
  BY <1>1, <1>2, NumbersFinite
<1>6. CASE x.score = -1
  BY <1>3, <1>4, <1>5, <1>6 DEF longer
<1>7. CASE x.score # -1
  BY <1>3, <1>4, <1>5, <1>7 DEF longer
<1> QED
  BY <1>6, <1>7

\* A live candidate is counted and listed, or the scan panics.
LEMMA RegisterKeeps ==
  ASSUME ProxyIInv, NEW ip \in Ips, Register(ip)
  PROVE  ProxyIInv'
<1> USE DEF job
<1>1. PICK score \in Scores \union {-1} :
        /\ Count(score)
        /\ IF Info(ip, score).country = Split
           THEN pc' = "failed" /\ UNCHANGED <<at, permits, queue, validated, live>>
           ELSE /\ Release(ip, score) /\ live' = live + 1
                /\ validated' = Append(validated, Info(ip, score)) /\ UNCHANGED pc
  BY DEF Register
<1>2. /\ pc = "scan" /\ at[ip] = "ask"
      /\ UNCHANGED <<domain, proxy_candidates, total, code, failed, job>>
  BY DEF Register, Asking
<1>3. /\ ProxyTypeOK
      /\ scored' = scored + (IF score = -1 THEN 0 ELSE 1)
      /\ unknown' = unknown + (IF score = -1 THEN 1 ELSE 0)
      /\ scored' \in Nat /\ unknown' \in Nat
  BY <1>1 DEF Count, ProxyIInv, ProxyTypeOK
<1>4. CASE Info(ip, score).country = Split
  <2>1. pc' = "failed" /\ UNCHANGED <<at, permits, queue, validated, live>>
    BY <1>1, <1>4
  <2>2. ProxyTypeOK' /\ NothingYet' /\ CandidatesAreNew' /\ CodesKnown' /\ ListedAreLive'
    BY <1>2, <1>3, <2>1 DEF ProxyIInv, ProxyTypeOK, NothingYet, CandidatesAreNew, NoRepeat,
         CodesKnown, ListedAreLive
  <2>3. PermitsAreHeld' /\ QueueIsOfWaiting'
    BY <2>1 DEF ProxyIInv, PermitsAreHeld, AskingTasks, QueueIsOfWaiting, NoRepeat
  <2>4. EachCountedOnce' /\ ReportsWritten' /\ PublishedIsWhole'
    BY <1>2, <2>1 DEF ProxyIInv, EachCountedOnce, ReportsWritten, PublishedIsWhole
  <2> QED
    BY <2>2, <2>3, <2>4 DEF ProxyIInv
<1>5. CASE Info(ip, score).country # Split
  <2> DEFINE x == Info(ip, score)
  <2>1. /\ Release(ip, score) /\ live' = live + 1 /\ validated' = Append(validated, x)
        /\ pc' = "scan"
    BY <1>1, <1>2, <1>5
  <2>2. x \in Infos /\ x.ip = ip /\ x.score = score
    BY <1>2 DEF Info, Infos, ProxyIInv, CodesKnown
  <2> HIDE DEF x
  <2>3. /\ at' \in [Ips -> {"idle", "worker", "trace", "wait", "ask", "live", "dead"}]
        /\ permits' \in Nat /\ queue' \in Seq(Ips)
        /\ \A other \in Ips : other # ip =>
             \/ at'[other] = at[other]
             \/ at[other] = "wait" /\ at'[other] = "ask"
        /\ at'[ip] = "live"
        /\ PermitsAreHeld' /\ QueueIsOfWaiting'
    BY <1>2, <2>1, ReleaseFacts
  <2>4. /\ validated' \in Seq(Infos)
        /\ Len(validated) \in Nat /\ Len(validated') = Len(validated) + 1
        /\ DOMAIN validated = 1..Len(validated) /\ DOMAIN validated' = 1..(Len(validated) + 1)
        /\ validated'[Len(validated) + 1] = x
        /\ \A i \in 1..Len(validated) : validated'[i] = validated[i] /\ validated[i].ip \in Ips
    <3>1. validated \in Seq(Infos)
      BY <1>3 DEF ProxyTypeOK
    <3>2. \A i \in 1..Len(validated) : validated[i] \in Infos
      BY <3>1, ElementOfSeq
    <3> QED
      BY <2>1, <2>2, <3>1, <3>2, AppendProperties, LenProperties DEF Infos
  <2>5. ProxyTypeOK'
    BY <1>2, <1>3, <2>1, <2>3, <2>4 DEF ProxyTypeOK
  <2>6. NothingYet' /\ ReportsWritten' /\ PublishedIsWhole'
    BY <1>2, <2>1 DEF ProxyIInv, NothingYet, ReportsWritten, PublishedIsWhole
  <2>7. CandidatesAreNew'
    <3>1. \A i \in DOMAIN proxy_candidates : proxy_candidates[i] \in Ips
      BY <1>3 DEF ProxyTypeOK
    <3> QED
      BY <1>2, <2>3, <3>1 DEF ProxyIInv, CandidatesAreNew, NoRepeat
  <2>8. CodesKnown'
    BY <1>2, <2>3 DEF ProxyIInv, CodesKnown
  <2>9. ListedAreLive'
    BY <2>2, <2>3, <2>4 DEF ProxyIInv, ListedAreLive
  <2>10. EachCountedOnce'
    <3>1. InFlight' = InFlight \ {ip} /\ ip \in InFlight /\ InFlight \in SUBSET Ips
      BY <1>2, <2>3 DEF InFlight
    <3>2. Cardinality(InFlight') = Cardinality(InFlight) - 1 /\ Cardinality(InFlight) \in Nat
      BY <3>1, OneLess, TasksFinite
    <3>3. live' + failed' + Cardinality(InFlight)' + Len(proxy_candidates)' = total'
      <4>1. Len(proxy_candidates) \in Nat /\ live \in Nat /\ failed \in Nat
            /\ live + failed + Cardinality(InFlight) + Len(proxy_candidates) = total
        BY <1>2, <1>3, LenProperties DEF ProxyIInv, EachCountedOnce, ProxyTypeOK
      <4> QED
        BY <1>2, <2>1, <3>2, <4>1
    <3>4. live' = Len(validated')
      BY <2>1, <2>4 DEF ProxyIInv, EachCountedOnce
    <3>5. \A i, j \in DOMAIN validated' : i # j => validated'[i].ip # validated'[j].ip
      <4>1. \A i \in 1..Len(validated) : validated[i].ip # ip
        BY <1>2, <2>4 DEF ProxyIInv, ListedAreLive
      <4>2. \A i, j \in 1..Len(validated) : i # j => validated[i].ip # validated[j].ip
        BY <2>4 DEF ProxyIInv, EachCountedOnce
      <4> QED
        BY <2>2, <2>4, <4>1, <4>2
    <3>6. unknown' = Cardinality(Unscored(validated')) /\ scored' = Cardinality(WithScore(validated'))
      <4>1. unknown = Cardinality(Unscored(validated)) /\ scored = Cardinality(WithScore(validated))
        BY <1>2 DEF ProxyIInv, EachCountedOnce, Unscored, WithScore
      <4>2. validated \in Seq(Infos)
        BY <1>3 DEF ProxyTypeOK
      <4> QED
        BY <1>3, <2>1, <2>2, <4>1, <4>2, AppendScores
    <3> QED
      BY <3>3, <3>4, <3>5, <3>6 DEF EachCountedOnce, Unscored, WithScore
  <2> QED
    BY <2>3, <2>5, <2>6, <2>7, <2>8, <2>9, <2>10 DEF ProxyIInv
<1> QED
  BY <1>4, <1>5

\* With no address twice, both reports have every proxy.
LEMMA SameReports ==
  ASSUME NEW list \in Seq(Infos), \A i, j \in DOMAIN list : i # j => list[i].ip # list[j].ip
  PROVE  Zizifn(list) = Markdown(list)
<1>1. DOMAIN list = 1..Len(list) /\ Len(list) \in Nat
  BY LenProperties
<1>2. Unseen(list) = DOMAIN list
  BY <1>1 DEF Unseen
<1> QED
  BY <1>2 DEF Zizifn, Markdown

\* Each report is truncated and then written, after the last task.
LEMMA WriteReportsKeeps ==
  ASSUME ProxyIInv, WriteReports
  PROVE  ProxyIInv'
<1>1. /\ UNCHANGED <<domain, total, tasks, counters, main>>
      /\ \/ pc = "scan" /\ pc' = "markdown" /\ files' = [files EXCEPT !.md = Cut]
         \/ pc = "markdown" /\ pc' = "json" /\ files' = [files EXCEPT !.md = Markdown(validated)]
         \/ pc = "json" /\ pc' = "write" /\ files' = [files EXCEPT !.json = Cut]
         \/ pc = "write" /\ pc' = "exit" /\ files' = [files EXCEPT !.json = Zizifn(validated)]
  BY DEF WriteReports, WriteMarkdown, WriteZizifn
<1>2. validated' = validated
  BY <1>1 DEF tasks
<1>3. DOMAIN files = {"md", "json"}
  BY DEF ProxyIInv, ProxyTypeOK
<1>4. ProxyTypeOK'
  <2>1. DOMAIN files' = {"md", "json"}
    BY <1>1, <1>3
  <2> QED
    BY <1>1, <2>1 DEF ProxyIInv, ProxyTypeOK, tasks, counters
<1>5. ReportsWritten'
  <2> DEFINE M == Markdown(validated)
  <2> DEFINE Z == Zizifn(validated)
  <2>1. M' = M /\ Z' = Z
    BY <1>2
  <2>2. /\ pc \in {"json", "write", "exit"} => files.md = M
        /\ pc # "pushed" => main.md = Old /\ main.json = Old
    BY DEF ProxyIInv, ReportsWritten
  <2>3. /\ pc' \in {"json", "write", "exit"} => files'.md = M
        /\ pc' = "exit" => files'.json = Z
    <3> HIDE DEF M, Z
    <3> QED
      BY <1>1, <1>3, <2>2 DEF M, Z
  <2> QED
    BY <1>1, <2>1, <2>2, <2>3 DEF ReportsWritten
<1>6. PublishedIsWhole'
  BY <1>1 DEF ProxyIInv, ReportsWritten, PublishedIsWhole
<1> QED
  BY <1>1, <1>4, <1>5, <1>6, QuietStep

\* The push takes both complete reports to the branch, or neither.
LEMMA PublishKeeps ==
  ASSUME ProxyIInv, Publish
  PROVE  ProxyIInv'
<1>1. /\ UNCHANGED <<domain, total, tasks, counters, files>>
      /\ pc = "exit"
      /\ (pc' = "pushed" /\ main' = files) \/ (pc' = "rejected" /\ main' = main)
  BY DEF Publish, Push
<1>2. ProxyTypeOK'
  BY <1>1 DEF ProxyIInv, ProxyTypeOK, tasks, counters
<1>3. ReportsWritten'
  BY <1>1 DEF ProxyIInv, ReportsWritten
<1>4. files.md = Markdown(validated) /\ files.json = Markdown(validated)
  <2>1. files.md = Markdown(validated) /\ files.json = Zizifn(validated)
    BY <1>1 DEF ProxyIInv, ReportsWritten
  <2>2. Zizifn(validated) = Markdown(validated)
    BY SameReports DEF ProxyIInv, ProxyTypeOK, EachCountedOnce
  <2> QED
    BY <2>1, <2>2
<1>5. PublishedIsWhole'
  <2>1. Markdown(validated)' = Markdown(validated)
    BY <1>1 DEF tasks
  <2> QED
    BY <1>1, <1>4, <2>1 DEF ProxyIInv, ReportsWritten, PublishedIsWhole
<1> QED
  BY <1>1, <1>2, <1>3, <1>5, QuietStep

\* A scan that breaks off publishes nothing.
LEMMA BreakOffKeeps ==
  ASSUME ProxyIInv, BreakOff
  PROVE  ProxyIInv'
<1>1. /\ UNCHANGED <<domain, total, tasks, counters, files, main>>
      /\ pc \notin {"pushed", "rejected", "failed", "exit"} /\ pc' = "failed"
  BY DEF BreakOff, Fail, Ended
<1>2. ProxyTypeOK'
  BY <1>1 DEF ProxyIInv, ProxyTypeOK, tasks, counters
<1>3. ReportsWritten' /\ PublishedIsWhole'
  BY <1>1 DEF ProxyIInv, ReportsWritten, PublishedIsWhole
<1> QED
  BY <1>1, <1>2, <1>3, QuietStep

\* Every step keeps the invariant.
LEMMA StepProxyIInv == ProxyIInv /\ [ProxyNext]_proxyVars => ProxyIInv'
<1> SUFFICES ASSUME ProxyIInv, [ProxyNext]_proxyVars PROVE ProxyIInv'
  OBVIOUS
<1>1. CASE Prepare
  BY <1>1, PrepareKeeps
<1>2. CASE Start
  BY <1>2, StartKeeps
<1>3. CASE WriteReports
  BY <1>3, WriteReportsKeeps
<1>4. CASE Publish
  BY <1>4, PublishKeeps
<1>5. CASE BreakOff
  BY <1>5, BreakOffKeeps
<1>6. ASSUME NEW ip \in Ips, Task(ip) PROVE ProxyIInv'
  BY <1>6, ProbeKeeps, AskNextKeeps, RegisterKeeps DEF Task
<1>7. CASE UNCHANGED proxyVars
  <2>1. /\ UNCHANGED <<domain, total, tasks, counters>>
        /\ pc' = pc /\ files' = files /\ main' = main
    BY <1>7 DEF proxyVars, job
  <2>2. ProxyTypeOK'
    BY <2>1 DEF ProxyIInv, ProxyTypeOK, tasks, counters
  <2>3. ReportsWritten' /\ PublishedIsWhole'
    BY <2>1 DEF ProxyIInv, ReportsWritten, PublishedIsWhole, tasks
  <2> QED
    BY <2>1, <2>2, <2>3, QuietStep
<1> QED
  BY <1>1, <1>2, <1>3, <1>4, <1>5, <1>6, <1>7 DEF ProxyNext

LEMMA AlwaysProxyIInv == ProxySpec => []ProxyIInv
BY InitProxyIInv, StepProxyIInv, PTL DEF ProxySpec

\* The types of the scan's state.
THEOREM ProxyTypes == ProxySpec => []ProxyTypeOK
<1>1. ProxyIInv => ProxyTypeOK
  BY DEF ProxyIInv
<1> QED
  BY <1>1, AlwaysProxyIInv, PTL

\* For any proxy file, domains, answers and widths of the two windows: every candidate is
\* counted once, as live or as failed, however the tasks interleave and whatever fails;
\* the listed ones are the live ones, each once; and the risk hosts' successes and
\* failures are theirs (proxies-main.rs:159-169, 188-236).
THEOREM EveryCandidateCounted == ProxySpec => []EachCountedOnce
<1>1. ProxyIInv => EachCountedOnce
  BY DEF ProxyIInv
<1> QED
  BY <1>1, AlwaysProxyIInv, PTL

\* The semaphore RISK_CONCURRENCY of any size: no more tasks ask than it has permits, and
\* none waits beside a free one; no permit is lost or made up on any way through a task.
THEOREM PermitsRationRisk == ProxySpec => []RiskIsRationed
<1>1. ProxyIInv => RiskIsRationed
  <2> SUFFICES ASSUME ProxyIInv PROVE RiskIsRationed
    OBVIOUS
  <2>1. Cardinality(AskingTasks) \in Nat
    BY TasksFinite DEF AskingTasks
  <2>2. Cardinality(AskingTasks) <= Permits
    BY <2>1, ScannerAssumption DEF ProxyIInv, ProxyTypeOK, PermitsAreHeld
  <2> QED
    BY <2>2 DEF ProxyIInv, QueueIsOfWaiting, RiskIsRationed, AskingTasks
<1> QED
  BY <1>1, AlwaysProxyIInv, PTL

\* Wherever a scan breaks off, the branch has both reports of one scan, complete and with
\* the same proxies, or those of an earlier day (RScanner.yml:48-57): though the two are
\* written by different functions, and only one of these drops an address it has seen.
THEOREM ReportsAreWhole == ProxySpec => []PublishedIsWhole
<1>1. ProxyIInv => PublishedIsWhole
  BY DEF ProxyIInv
<1> QED
  BY <1>1, AlwaysProxyIInv, PTL

(***************************************************************************)
(* The scan for Cloudflare addresses                                       *)
(***************************************************************************)
CfResults == [ip : Nat, latency : Nat, loss : Int]

\* Every variable of the scan stays in its type.
CfTypeOK ==
  /\ ranges.ipv4 \in SUBSET Ranges /\ ranges.ipv6 \in SUBSET Ranges
  /\ candidates \in SUBSET Nat /\ ipv6 \in SUBSET Nat
  /\ results \in Seq(CfResults) /\ fallback \in Seq(CfResults)
  /\ found \in SUBSET CfResults

Scanning == {"fetch", "generate", "priority", "fallback"}

\* Lists are filled in the order of the phases.
FilledInOrder ==
  /\ pc \in {"fetch", "generate"} => results = <<>> /\ candidates = {}
  /\ pc \in {"fetch", "generate", "priority"} => fallback = <<>>

\* Each address has one result in a list, and none while it waits to be probed.
OneResultEach(s) == \A i, j \in DOMAIN s : i # j => s[i].ip # s[j].ip

ProbedOnce ==
  /\ OneResultEach(results) /\ OneResultEach(fallback)
  /\ pc = "priority" => \A i \in DOMAIN results : results[i].ip \notin candidates
  /\ pc = "fallback" => \A i \in DOMAIN fallback : fallback[i].ip \notin candidates

\* What the fallback found and the first scan had not.
NewIn(s, more) == {i \in DOMAIN more : \A j \in DOMAIN s : s[j].ip # more[i].ip}

Items(s, I) == {s[i] : i \in I}

\* The lists have what was found.
FoundIsListed ==
  pc \in Scanning =>
    found = Items(results, DOMAIN results) \union Items(fallback, NewIn(results, fallback))

\* Every address in a list is a host that may be written.
HostIn(nets, ip) ==
  \E net \in nets : Contains4(net, ip) /\ (Size(net) > 2 => ip % Size(net) \notin {0, Size(net) - 1})

Allowed(ip) ==
  \/ HostIn(PriorityRanges, ip)
  \/ HostIn(ranges.ipv4, ip) /\ ~\E net \in BlockedRanges : Contains4(net, ip)

OnlyAllowed ==
  /\ \A ip \in candidates : Allowed(ip)
  /\ \A i \in DOMAIN results : Allowed(results[i].ip)
  /\ \A i \in DOMAIN fallback : Allowed(fallback[i].ip)

CfIInv ==
  /\ CfTypeOK /\ FilledInOrder /\ ProbedOnce /\ FoundIsListed /\ OnlyAllowed /\ BestAreKept

(***************************************************************************)
(* Sorting                                                                 *)
(***************************************************************************)
\* One result comes before another: a strict total order of the numbers.
LEMMA BeforeIsOrder ==
  ASSUME NEW s \in Seq(CfResults), NEW i \in DOMAIN s, NEW j \in DOMAIN s, NEW k \in DOMAIN s
  PROVE  /\ ~Before(s, i, i)
         /\ i # j => Before(s, i, j) \/ Before(s, j, i)
         /\ Before(s, i, j) => ~Before(s, j, i) /\ ~Better(s[j], s[i])
         /\ Before(s, i, j) /\ Before(s, j, k) => Before(s, i, k)
<1>1. s[i] \in CfResults /\ s[j] \in CfResults /\ s[k] \in CfResults
      /\ i \in Int /\ j \in Int /\ k \in Int
  BY LenProperties
<1> DEFINE a == s[i]  b == s[j]  c == s[k]
<1>2. /\ a.loss \in Int /\ a.latency \in Int /\ b.loss \in Int /\ b.latency \in Int
      /\ c.loss \in Int /\ c.latency \in Int
  BY <1>1 DEF CfResults
<1> HIDE DEF a, b, c
<1>3. ~Better(a, a) /\ (Better(a, b) => ~Better(b, a))
  BY <1>2 DEF Better
<1> DEFINE al == a.loss  bl == b.loss  cl == c.loss
           av == a.latency  bv == b.latency  cv == c.latency
<1>4. /\ Better(a, b) = (al < bl \/ (al = bl /\ av < bv))
      /\ Better(b, a) = (bl < al \/ (bl = al /\ bv < av))
      /\ Better(b, c) = (bl < cl \/ (bl = cl /\ bv < cv))
      /\ Better(c, b) = (cl < bl \/ (cl = bl /\ cv < bv))
      /\ Better(a, c) = (al < cl \/ (al = cl /\ av < cv))
      /\ Better(c, a) = (cl < al \/ (cl = al /\ cv < av))
  BY Zenon DEF Better
<1>5. /\ Better(a, b) /\ Better(b, c) => Better(a, c)
      /\ ~Better(b, a) /\ ~Better(c, b) => ~Better(c, a)
      /\ ~Better(b, a) /\ Better(b, c) => Better(a, c)
      /\ Better(a, b) /\ ~Better(c, b) => Better(a, c)
  <2> HIDE DEF al, bl, cl, av, bv, cv
  <2>1. al \in Int /\ bl \in Int /\ cl \in Int /\ av \in Int /\ bv \in Int /\ cv \in Int
    BY <1>2 DEF al, bl, cl, av, bv, cv
  <2> QED
    BY <1>4, <2>1
<1> QED
  BY <1>1, <1>3, <1>5 DEF Before, a, b, c

\* The numbers of the results that come before one.
Earlier(s, I, i) == {j \in I : Before(s, j, i)}

\* Ranks are numbers from 1, and grow with the order.
LEMMA RankGrows ==
  ASSUME NEW s \in Seq(CfResults), NEW I \in SUBSET DOMAIN s
  PROVE  /\ IsFiniteSet(I) /\ Cardinality(I) \in Nat
         /\ \A i \in I : Rank(s, I, i) \in 1..Cardinality(I)
         /\ \A i, j \in I : Before(s, i, j) => Rank(s, I, i) < Rank(s, I, j)
<1>1. IsFiniteSet(I) /\ Cardinality(I) \in Nat
  <2>1. DOMAIN s = 1..Len(s) /\ Len(s) \in Nat
    BY LenProperties
  <2>2. IsFiniteSet(DOMAIN s)
    BY <2>1, FS_Interval
  <2> QED
    BY <2>2, FS_Subset, FS_CardinalityType
<1>2. ASSUME NEW i \in I
      PROVE  /\ IsFiniteSet(Earlier(s, I, i)) /\ Cardinality(Earlier(s, I, i)) \in Nat
             /\ i \notin Earlier(s, I, i)
             /\ Rank(s, I, i) = Cardinality(Earlier(s, I, i) \union {i})
             /\ Rank(s, I, i) = Cardinality(Earlier(s, I, i)) + 1
  <2>1. Earlier(s, I, i) \in SUBSET I /\ i \notin Earlier(s, I, i)
    BY BeforeIsOrder DEF Earlier
  <2>2. IsFiniteSet(Earlier(s, I, i)) /\ Cardinality(Earlier(s, I, i)) \in Nat
    BY <1>1, <2>1, FS_Subset, FS_CardinalityType
  <2>3. Cardinality(Earlier(s, I, i) \union {i}) = Cardinality(Earlier(s, I, i)) + 1
    BY <2>1, <2>2, FS_AddElement
  <2> QED
    BY <2>1, <2>2, <2>3 DEF Rank, Earlier
<1>3. ASSUME NEW i \in I PROVE Rank(s, I, i) \in 1..Cardinality(I)
  <2>1. Earlier(s, I, i) \union {i} \in SUBSET I
    BY DEF Earlier
  <2>2. Cardinality(Earlier(s, I, i) \union {i}) <= Cardinality(I)
    BY <1>1, <2>1, FS_Subset
  <2> QED
    BY <1>1, <1>2, <2>2
<1>4. ASSUME NEW i \in I, NEW j \in I, Before(s, i, j) PROVE Rank(s, I, i) < Rank(s, I, j)
  <2>1. Earlier(s, I, i) \union {i} \in SUBSET Earlier(s, I, j)
    BY <1>4, BeforeIsOrder DEF Earlier
  <2>2. Cardinality(Earlier(s, I, i) \union {i}) <= Cardinality(Earlier(s, I, j))
    BY <1>2, <2>1, FS_Subset
  <2>3. /\ Cardinality(Earlier(s, I, j)) \in Nat
        /\ Rank(s, I, i) = Cardinality(Earlier(s, I, i) \union {i})
        /\ Rank(s, I, j) = Cardinality(Earlier(s, I, j)) + 1
        /\ Rank(s, I, i) = Cardinality(Earlier(s, I, i)) + 1 /\ Cardinality(Earlier(s, I, i)) \in Nat
    BY <1>2
  <2> QED
    BY <2>2, <2>3
<1> QED
  BY <1>1, <1>3, <1>4

\* p puts the results with the numbers I into the order of t.
Orders(p, t, s, I) ==
  /\ p \in Bijection(1..Cardinality(I), I)
  /\ t = [k \in 1..Cardinality(I) |-> s[p[k]]]
  /\ \A k, l \in 1..Cardinality(I) : k < l => ~Better(t[l], t[k])

\* The sort loses nothing, adds nothing, and orders.
LEMMA SortedFacts ==
  ASSUME NEW s \in Seq(CfResults), NEW I \in SUBSET DOMAIN s
  PROVE  \E p : Orders(p, Sorted(s, I), s, I)
<1> DEFINE n == Cardinality(I)
           rank == [i \in I |-> Rank(s, I, i)]
           p == [k \in 1..n |-> CHOOSE i \in I : Rank(s, I, i) = k]
<1>1. /\ IsFiniteSet(I) /\ n \in Nat
      /\ \A i \in I : Rank(s, I, i) \in 1..n
      /\ \A i, j \in I : Before(s, i, j) => Rank(s, I, i) < Rank(s, I, j)
  BY RankGrows
<1>2. \A i, j \in I : i # j => Rank(s, I, i) # Rank(s, I, j)
  <2> SUFFICES ASSUME NEW i \in I, NEW j \in I, i # j PROVE Rank(s, I, i) # Rank(s, I, j)
    OBVIOUS
  <2>1. Before(s, i, j) \/ Before(s, j, i)
    BY BeforeIsOrder
  <2> QED
    BY <1>1, <2>1
<1>3. rank \in Injection(I, 1..n)
  BY <1>1, <1>2 DEF Injection, IsInjective
<1>4. rank \in Surjection(I, 1..n)
  <2>1. IsFiniteSet(1..n) /\ Cardinality(1..n) = n
    BY <1>1, FS_Interval
  <2> QED
    BY <1>3, <2>1, FS_Injection
<1>5. \A k \in 1..n : p[k] \in I /\ Rank(s, I, p[k]) = k
  BY <1>4 DEF Surjection
<1>6. p \in Bijection(1..n, I)
  <2>1. p \in [1..n -> I]
    BY <1>5
  <2>2. \A k, l \in 1..n : p[k] = p[l] => k = l
    <3> HIDE DEF p
    <3> QED
      BY <1>5
  <2>3. \A i \in I : \E k \in 1..n : p[k] = i
    <3> SUFFICES ASSUME NEW i \in I PROVE \E k \in 1..n : p[k] = i
      OBVIOUS
    <3>1. Rank(s, I, i) \in 1..n
      BY <1>1
    <3>2. p[Rank(s, I, i)] = i
      <4> HIDE DEF p
      <4> QED
        BY <1>2, <1>5, <3>1
    <3> QED
      BY <3>1, <3>2
  <2>4. p \in Injection(1..n, I) /\ p \in Surjection(1..n, I)
    <3> HIDE DEF p, n
    <3> QED
      BY <2>1, <2>2, <2>3 DEF Injection, IsInjective, Surjection
  <2> QED
    BY <2>4 DEF Bijection
<1>7. Sorted(s, I) = [k \in 1..n |-> s[p[k]]]
  BY DEF Sorted
<1>8. ASSUME NEW k \in 1..n, NEW l \in 1..n, k < l PROVE ~Better(s[p[l]], s[p[k]])
  <2> HIDE DEF p
  <2>1. p[k] \in DOMAIN s /\ p[l] \in DOMAIN s /\ p[k] \in I /\ p[l] \in I /\ p[k] # p[l]
    BY <1>5, <1>8
  <2>2. ~Before(s, p[l], p[k])
    <3>1. ~(Rank(s, I, p[l]) < Rank(s, I, p[k]))
      BY <1>5, <1>8
    <3> QED
      BY <1>1, <2>1, <3>1
  <2> QED
    BY <2>1, <2>2, BeforeIsOrder
<1> QED
  <2> HIDE DEF p
  <2> QED
    BY <1>6, <1>7, <1>8 DEF Orders

\* Sorting results of different addresses: a list of the same results, each address once.
LEMMA SortedItems ==
  ASSUME NEW s \in Seq(CfResults), NEW I \in SUBSET DOMAIN s,
         \A i, j \in I : i # j => s[i].ip # s[j].ip
  PROVE  LET t == Sorted(s, I)
         IN  /\ t \in Seq(CfResults) /\ Len(t) = Cardinality(I)
             /\ OneResultEach(t) /\ Items(t, DOMAIN t) = Items(s, I)
             /\ \A k, l \in DOMAIN t : k < l => ~Better(t[l], t[k])
             /\ IsFiniteSet(Items(s, I)) /\ Cardinality(Items(s, I)) = Len(t)
<1> DEFINE n == Cardinality(I)
<1>1. PICK p : Orders(p, Sorted(s, I), s, I)
  BY SortedFacts
<1>2. PICK t : t = Sorted(s, I)
  OBVIOUS
<1>3. n \in Nat /\ IsFiniteSet(I)
  BY RankGrows
<1> HIDE DEF n
<1>4. /\ p \in [1..n -> I] /\ \A i \in I : \E k \in 1..n : p[k] = i
      /\ \A k, l \in 1..n : p[k] = p[l] => k = l
      /\ \A k, l \in 1..n : k < l => ~Better(t[l], t[k])
      /\ t = [k \in 1..n |-> s[p[k]]]
  BY <1>1, <1>2 DEF Orders, Bijection, Injection, Surjection, IsInjective, n
<1>5. \A i \in I : s[i] \in CfResults
  BY ElementOfSeq, LenProperties
<1>6. t \in [1..n -> CfResults]
  BY <1>4, <1>5
<1>7. t \in Seq(CfResults) /\ Len(t) = n /\ DOMAIN t = 1..n
  <2>1. t \in Seq(CfResults)
    BY <1>3, <1>6, SeqDef
  <2> QED
    BY <1>3, <1>6, <2>1
<1>8. OneResultEach(t)
  BY <1>4, <1>7 DEF OneResultEach
<1>9. Items(t, DOMAIN t) = Items(s, I)
  BY <1>4, <1>7 DEF Items
<1>10. IsFiniteSet(Items(s, I)) /\ Cardinality(Items(s, I)) = n
  <2> DEFINE F == Items(s, I)
  <2>1. t \in [1..n -> F] /\ \A f \in F : \E k \in 1..n : t[k] = f
    BY <1>4, <1>7, <1>9 DEF Items
  <2>2. \A k, l \in 1..n : t[k] = t[l] => k = l
    BY <1>7, <1>8 DEF OneResultEach
  <2>3. t \in Surjection(1..n, F) /\ t \in Injection(1..n, F)
    <3> HIDE DEF F
    <3> QED
      BY <2>1, <2>2 DEF Surjection, Injection, IsInjective
  <2>4. IsFiniteSet(1..n) /\ Cardinality(1..n) = n
    BY <1>3, FS_Interval
  <2> QED
    BY <2>3, <2>4, FS_Surjection
<1> QED
  BY <1>2, <1>4, <1>7, <1>8, <1>9, <1>10 DEF n

\* The first of a sorted list of everything that was found are the best.
Best(list, F) ==
  /\ list \in Seq(CfResults)
  /\ \A i, j \in DOMAIN list :
       i < j => list[i].ip # list[j].ip /\ ~Better(list[j], list[i])
  /\ Len(list) = Less(OutputCount, Cardinality(F))
  /\ Range(list) \subseteq F
  /\ \A f \in F \ Range(list) : \A i \in DOMAIN list : ~Better(f, list[i])

LEMMA FirstAreBest ==
  ASSUME NEW s \in Seq(CfResults), NEW I \in SUBSET DOMAIN s,
         \A i, j \in I : i # j => s[i].ip # s[j].ip
  PROVE  /\ Best(truncate(Sorted(s, I)), Items(s, I))
         /\ truncate(Sorted(s, I)) = <<>> => I = {}
<1>1. PICK t : t = Sorted(s, I)
  OBVIOUS
<1>2. PICK F : F = Items(s, I)
  OBVIOUS
<1>3. /\ t \in Seq(CfResults) /\ Len(t) = Cardinality(I)
      /\ OneResultEach(t) /\ Items(t, DOMAIN t) = F
      /\ \A k, l \in DOMAIN t : k < l => ~Better(t[l], t[k])
      /\ Cardinality(F) = Len(t)
  BY <1>1, <1>2, SortedItems
<1>4. Len(t) \in Nat /\ DOMAIN t = 1..Len(t) /\ OutputCount \in Nat \ {0}
  BY <1>3, LenProperties, ScanAssumption
<1>5. PICK m : m = Less(Len(t), OutputCount)
  OBVIOUS
<1>6. /\ m \in Nat /\ m <= Len(t) /\ m <= OutputCount
      /\ m = Less(OutputCount, Len(t)) /\ (m = 0 => Len(t) = 0)
  BY <1>4, <1>5 DEF Less
<1>7. PICK list : list = SubSeq(t, 1, m)
  OBVIOUS
<1>8. /\ list \in Seq(CfResults) /\ Len(list) = m /\ DOMAIN list = 1..m
      /\ \A i \in 1..m : list[i] = t[i] /\ i \in DOMAIN t
  <2>1. \A i \in 1..m : t[i] \in CfResults /\ i \in DOMAIN t
    BY <1>3, <1>4, <1>6, ElementOfSeq
  <2>2. /\ SubSeq(t, 1, m) \in Seq(CfResults)
        /\ Len(SubSeq(t, 1, m)) = (IF 1 <= m THEN m - 1 + 1 ELSE 0)
        /\ \A i \in 1..(m - 1 + 1) : SubSeq(t, 1, m)[i] = t[1 + i - 1]
    <3>1. 1 \in Int /\ m \in Int
      BY <1>6
    <3>2. \A i \in 1..m : t[i] \in CfResults
      BY <2>1
    <3> QED
      BY <3>1, <3>2, SubSeqProperties
  <2>3. DOMAIN SubSeq(t, 1, m) = 1..Len(SubSeq(t, 1, m))
    BY <2>2, LenProperties
  <2> QED
    BY <1>6, <1>7, <2>1, <2>2, <2>3
<1>9. \A i, j \in DOMAIN list : i < j => list[i].ip # list[j].ip /\ ~Better(list[j], list[i])
  BY <1>3, <1>6, <1>8 DEF OneResultEach
<1>10. Range(list) \subseteq F
  BY <1>3, <1>8 DEF Range, Items
<1>11. ASSUME NEW f \in F \ Range(list), NEW i \in DOMAIN list PROVE ~Better(f, list[i])
  <2>1. PICK k \in DOMAIN t : f = t[k]
    BY <1>3, <1>11 DEF Items
  <2>2. k \notin 1..m
    BY <1>8, <1>11, <2>1 DEF Range
  <2>3. i < k /\ list[i] = t[i] /\ i \in DOMAIN t
    BY <1>4, <1>6, <1>8, <2>2
  <2> QED
    BY <1>3, <2>1, <2>3
<1>12. Best(list, F)
  BY <1>3, <1>6, <1>8, <1>9, <1>10, <1>11 DEF Best
<1>13. list = <<>> => I = {}
  <2> SUFFICES ASSUME list = <<>> PROVE I = {}
    OBVIOUS
  <2>1. m = 0
    BY <1>8
  <2>2. Cardinality(I) = 0 /\ IsFiniteSet(I)
    BY <1>3, <1>6, <2>1, RankGrows
  <2> QED
    BY <2>2, FS_EmptySet
<1>14. list = truncate(Sorted(s, I))
  BY <1>1, <1>5, <1>7 DEF truncate
<1> QED
  BY <1>2, <1>12, <1>13, <1>14

\* What merging keeps: the list, and what is new in the other one.
MergedNumbers(s, more) == DOMAIN s \union {Len(s) + i : i \in NewIn(s, more)}

LEMMA MergeFacts ==
  ASSUME NEW s \in Seq(CfResults), NEW more \in Seq(CfResults),
         OneResultEach(s), OneResultEach(more)
  PROVE  LET both == s \o more
             I == MergedNumbers(s, more)
         IN  /\ Merge(s, more) = Sorted(both, I)
             /\ both \in Seq(CfResults) /\ I \in SUBSET DOMAIN both
             /\ \A i, j \in I : i # j => both[i].ip # both[j].ip
             /\ Items(both, I) = Items(s, DOMAIN s) \union Items(more, NewIn(s, more))
<1>1. PICK both : both = s \o more
  OBVIOUS
<1>2. PICK I : I = MergedNumbers(s, more)
  OBVIOUS
<1>3. /\ Len(s) \in Nat /\ DOMAIN s = 1..Len(s) /\ Len(more) \in Nat /\ DOMAIN more = 1..Len(more)
      /\ both \in Seq(CfResults) /\ DOMAIN both = 1..(Len(s) + Len(more))
      /\ \A i \in 1..(Len(s) + Len(more)) : both[i] = IF i <= Len(s) THEN s[i] ELSE more[i - Len(s)]
  BY <1>1, ConcatProperties, LenProperties
<1>4. NewIn(s, more) \in SUBSET (1..Len(more))
      /\ \A i \in NewIn(s, more) : \A j \in 1..Len(s) : s[j].ip # more[i].ip
  BY <1>3 DEF NewIn
<1>5. I \in SUBSET DOMAIN both
  BY <1>2, <1>3, <1>4 DEF MergedNumbers
<1>6. \A i \in 1..Len(s) : i \in I /\ both[i] = s[i]
  BY <1>2, <1>3 DEF MergedNumbers
<1>7. \A i \in NewIn(s, more) : Len(s) + i \in I /\ both[Len(s) + i] = more[i]
  <2> SUFFICES ASSUME NEW i \in NewIn(s, more) PROVE Len(s) + i \in I /\ both[Len(s) + i] = more[i]
    OBVIOUS
  <2>1. i \in 1..Len(more) /\ Len(s) + i \in 1..(Len(s) + Len(more)) /\ ~(Len(s) + i <= Len(s))
        /\ (Len(s) + i) - Len(s) = i
    BY <1>3, <1>4
  <2>2. both[Len(s) + i] = more[i]
    BY <1>3, <2>1
  <2> QED
    BY <1>2, <2>2 DEF MergedNumbers
<1>8. \A x \in I : x \in 1..Len(s) \/ \E i \in NewIn(s, more) : x = Len(s) + i
  BY <1>2, <1>3 DEF MergedNumbers
<1>9. ASSUME NEW x \in I, NEW y \in I, x # y PROVE both[x].ip # both[y].ip
  <2>1. CASE x \in 1..Len(s) /\ y \in 1..Len(s)
    BY <1>3, <1>6, <1>9, <2>1 DEF OneResultEach
  <2>2. CASE x \in 1..Len(s) /\ y \notin 1..Len(s)
    <3>1. PICK i \in NewIn(s, more) : y = Len(s) + i
      BY <1>8, <2>2
    <3> QED
      BY <1>4, <1>6, <1>7, <2>2, <3>1
  <2>3. CASE x \notin 1..Len(s) /\ y \in 1..Len(s)
    <3>1. PICK i \in NewIn(s, more) : x = Len(s) + i
      BY <1>8, <2>3
    <3> QED
      BY <1>4, <1>6, <1>7, <2>3, <3>1
  <2>4. CASE x \notin 1..Len(s) /\ y \notin 1..Len(s)
    <3>1. PICK i \in NewIn(s, more) : x = Len(s) + i
      BY <1>8, <2>4
    <3>2. PICK j \in NewIn(s, more) : y = Len(s) + j
      BY <1>8, <2>4
    <3>3. i # j /\ i \in DOMAIN more /\ j \in DOMAIN more
      BY <1>3, <1>4, <1>9, <3>1, <3>2
    <3> QED
      BY <1>7, <3>1, <3>2, <3>3 DEF OneResultEach
  <2> QED
    BY <2>1, <2>2, <2>3, <2>4
<1>10. Items(both, I) = Items(s, DOMAIN s) \union Items(more, NewIn(s, more))
  <2>1. ASSUME NEW x \in I PROVE both[x] \in Items(s, DOMAIN s) \union Items(more, NewIn(s, more))
    <3>1. CASE x \in 1..Len(s)
      <4>1. x \in DOMAIN s /\ both[x] = s[x]
        BY <1>3, <1>6, <3>1
      <4> QED
        BY <4>1 DEF Items
    <3>2. CASE x \notin 1..Len(s)
      <4>1. PICK i \in NewIn(s, more) : both[x] = more[i]
        BY <1>7, <1>8, <3>2
      <4> QED
        BY <4>1 DEF Items
    <3> QED
      BY <3>1, <3>2
  <2>2. ASSUME NEW i \in DOMAIN s PROVE s[i] \in Items(both, I)
    BY <1>3, <1>6 DEF Items
  <2>3. ASSUME NEW i \in NewIn(s, more) PROVE more[i] \in Items(both, I)
    BY <1>7 DEF Items
  <2> QED
    BY <2>1, <2>2, <2>3 DEF Items
<1>11. Merge(s, more) = Sorted(both, I)
  BY <1>1, <1>2 DEF Merge, MergedNumbers, NewIn
<1> QED
  BY <1>1, <1>2, <1>3, <1>5, <1>9, <1>10, <1>11

(***************************************************************************)
(* Addresses                                                               *)
(***************************************************************************)
\* The remainder of a multiple and an offset is the offset.
LEMMA Remainder ==
  ASSUME NEW size \in Nat \ {0}, NEW a \in Nat, a % size = 0, NEW offset \in 0..(size - 1)
  PROVE  (a + offset) % size = offset
<1>1. PICK q \in Int : q = a \div size /\ a = size * q
  OBVIOUS
<1>2. PICK r \in Int : r = (a + offset) % size /\ 0 <= r /\ r < size
  OBVIOUS
<1>3. PICK k \in Int : k = (a + offset) \div size /\ a + offset = size * k + r
  <2>1. PICK x \in Int : x = a + offset
    OBVIOUS
  <2>2. PICK k \in Int : k = x \div size /\ x = size * k + (x % size)
    OBVIOUS
  <2> QED
    BY <1>2, <2>1, <2>2
<1>4. size * (k - q) = offset - r
  <2>1. size * (k - q) = size * k - size * q
    OBVIOUS
  <2>2. size * q = a /\ size * k = a + offset - r
    BY <1>1, <1>3
  <2> QED
    BY <2>1, <2>2
<1>5. k - q = 0
  BY <1>2, <1>4
<1> QED
  BY <1>2, <1>4, <1>5

\* An address that is drawn is a host of its range.
LEMMA OffsetIsHost ==
  ASSUME NEW net \in Ranges, NEW offset \in Offsets(net), NEW nets, net \in nets
  PROVE  LET ip == (net.address + offset) % (2 ^ W)
         IN  ip \in Nat /\ HostIn(nets, ip)
<1> DEFINE size == Size(net)
           w == 2 ^ W
<1>1. /\ size \in Nat \ {0} /\ net.address \in Nat /\ net.address % size = 0
      /\ net.address + size <= w /\ w \in Nat \ {0}
  BY ScanAssumption
<1>2. offset \in 0..(size - 1) /\ (size > 2 => offset \notin {0, size - 1})
  BY <1>1 DEF Offsets
<1>3. PICK ip : ip = (net.address + offset) % w
  OBVIOUS
<1>4. ip = net.address + offset /\ ip \in Nat
  <2> HIDE DEF w, size
  <2>1. net.address + offset \in Nat /\ net.address + offset < w
    BY <1>1, <1>2
  <2> QED
    BY <1>1, <1>3, <2>1
<1>5. ip % size = offset
  <2> HIDE DEF w, size
  <2> QED
    BY <1>1, <1>2, <1>4, Remainder
<1>6. ip - (ip % size) = net.address
  BY <1>1, <1>2, <1>4, <1>5
<1> QED
  BY <1>2, <1>3, <1>4, <1>5, <1>6 DEF HostIn, Contains4

\* So is every address of a sample.
LEMMA SampledAreHosts ==
  ASSUME NEW nets \in SUBSET Ranges, NEW draws, DOMAIN draws = nets,
         \A net \in nets : \E n : draws[net] = Draws(net, n),
         NEW sample \in Samplings(draws), NEW ip \in sample
  PROVE  ip \in Nat /\ HostIn(nets, ip)
<1>1. PICK c : /\ DOMAIN c = nets /\ sample = UNION Range(c)
               /\ \A net \in nets : c[net] \in draws[net]
  BY DEF Samplings
<1>2. PICK net \in nets : ip \in c[net]
  BY <1>1 DEF Range
<1>3. PICK n : draws[net] = Draws(net, n)
  OBVIOUS
<1>4. PICK offset \in Offsets(net) : ip = (net.address + offset) % (2 ^ W)
  BY <1>1, <1>2, <1>3 DEF Draws
<1> QED
  BY <1>4, OffsetIsHost

\* A result has the address that was probed.
LEMMA WorkingFacts ==
  ASSUME NEW ip \in Nat, NEW r \in WorkingResults(ip)
  PROVE  r \in CfResults /\ r.ip = ip
<1>1. PICK probes \in Probes, latency \in Latencies :
        /\ r.ip = ip
        /\ r = [ip |-> ip, latency |-> Result(probes, latency).latency, loss |-> Result(probes, latency).loss]
  BY DEF WorkingResults, Working
<1>2. Cardinality(Answered(probes)) \in Nat
  <2>1. Answered(probes) \in SUBSET (1..Attempts)
    BY DEF Answered
  <2>2. IsFiniteSet(1..Attempts)
    <3>1. Attempts \in Int
      BY DEF Attempts
    <3> QED
      BY <3>1, FS_Interval
  <2> QED
    BY <2>1, <2>2, FS_Subset, FS_CardinalityType
<1>3. Result(probes, latency).latency \in Nat
  BY ScanAssumption DEF Result
<1>4. Result(probes, latency).loss \in Int
  BY <1>2 DEF Result, Attempts
<1> QED
  BY <1>1, <1>3, <1>4 DEF CfResults

(***************************************************************************)
(* The steps of the scan                                                   *)
(***************************************************************************)
LEMMA InitCfIInv == CfInit => CfIInv
<1> SUFFICES ASSUME CfInit PROVE CfIInv
  OBVIOUS
<1> USE DEF CfInit
<1>1. CfTypeOK /\ FilledInOrder
  BY DEF CfTypeOK, FilledInOrder
<1>2. ProbedOnce /\ OnlyAllowed
  BY DEF ProbedOnce, OneResultEach, OnlyAllowed
<1>3. FoundIsListed
  BY DEF FoundIsListed, Items, NewIn
<1>4. BestAreKept
  BY DEF BestAreKept, Ranked
<1> QED
  BY <1>1, <1>2, <1>3, <1>4 DEF CfIInv

\* The ranges that may be answered are known.
LEMMA AnswersAreRanges ==
  ASSUME NEW r \in ApiRanges \union {[ipv4 |-> PriorityRanges, ipv6 |-> DefaultIpv6]}
  PROVE  r.ipv4 \in SUBSET Ranges /\ r.ipv6 \in SUBSET Ranges
<1>1. CASE r \in ApiRanges
  BY <1>1 DEF Ranges
<1>2. CASE r = [ipv4 |-> PriorityRanges, ipv6 |-> DefaultIpv6]
  BY <1>2 DEF Ranges
<1> QED
  BY <1>1, <1>2

LEMMA FetchKeeps == CfIInv /\ FetchRanges => CfIInv'
<1> SUFFICES ASSUME CfIInv, FetchRanges PROVE CfIInv'
  OBVIOUS
<1>1. /\ pc = "fetch" /\ pc' = "generate"
      /\ UNCHANGED <<candidates, fallback, results, found, ipv6>>
      /\ ranges'.ipv4 \in SUBSET Ranges /\ ranges'.ipv6 \in SUBSET Ranges
  BY AnswersAreRanges DEF FetchRanges
<1>2. results = <<>> /\ fallback = <<>> /\ candidates = {}
  BY <1>1 DEF CfIInv, FilledInOrder
<1>3. CfTypeOK' /\ FilledInOrder'
  BY <1>1 DEF CfIInv, CfTypeOK, FilledInOrder
<1>4. ProbedOnce' /\ OnlyAllowed'
  BY <1>1, <1>2 DEF ProbedOnce, OneResultEach, OnlyAllowed
<1>5. FoundIsListed'
  BY <1>1 DEF CfIInv, FoundIsListed, Scanning, Items, NewIn
<1>6. BestAreKept'
  BY <1>1 DEF BestAreKept, Ranked
<1> QED
  BY <1>3, <1>4, <1>5, <1>6 DEF CfIInv

LEMMA GenerateKeeps == CfIInv /\ GeneratePriority => CfIInv'
<1> SUFFICES ASSUME CfIInv, GeneratePriority PROVE CfIInv'
  OBVIOUS
<1>1. /\ pc = "generate" /\ pc' = "priority"
      /\ UNCHANGED <<ranges, fallback, results, found, ipv6>>
      /\ candidates' \in Samplings([net \in PriorityRanges |-> Draws(net, PrioritySampled(net))])
  BY DEF GeneratePriority
<1>2. \A ip \in candidates' : ip \in Nat /\ HostIn(PriorityRanges, ip)
  <2> DEFINE draws == [net \in PriorityRanges |-> Draws(net, PrioritySampled(net))]
  <2>1. PriorityRanges \in SUBSET Ranges
    BY DEF Ranges
  <2>2. DOMAIN draws = PriorityRanges /\ \A net \in PriorityRanges : \E n : draws[net] = Draws(net, n)
    OBVIOUS
  <2>3. candidates' \in Samplings(draws)
    BY <1>1
  <2> HIDE DEF draws
  <2> QED
    BY <2>1, <2>2, <2>3, SampledAreHosts
<1>3. results = <<>> /\ fallback = <<>>
  BY <1>1 DEF CfIInv, FilledInOrder
<1>4. CfTypeOK' /\ FilledInOrder'
  BY <1>1, <1>2 DEF CfIInv, CfTypeOK, FilledInOrder
<1>5. ProbedOnce' /\ OnlyAllowed'
  BY <1>1, <1>2, <1>3 DEF ProbedOnce, OneResultEach, OnlyAllowed, Allowed
<1>6. FoundIsListed'
  BY <1>1 DEF CfIInv, FoundIsListed, Scanning, Items, NewIn
<1>7. BestAreKept'
  BY <1>1 DEF BestAreKept, Ranked
<1> QED
  BY <1>4, <1>5, <1>6, <1>7 DEF CfIInv

\* One result more in a list that had none of its address.
LEMMA AppendResult ==
  ASSUME NEW s \in Seq(CfResults), OneResultEach(s), NEW r \in CfResults,
         \A i \in DOMAIN s : s[i].ip # r.ip
  PROVE  LET longer == Append(s, r)
         IN  /\ longer \in Seq(CfResults) /\ OneResultEach(longer)
             /\ DOMAIN longer = DOMAIN s \union {Len(s) + 1} /\ Len(s) + 1 \notin DOMAIN s
             /\ longer[Len(s) + 1] = r /\ \A i \in DOMAIN s : longer[i] = s[i]
             /\ Items(longer, DOMAIN longer) = Items(s, DOMAIN s) \union {r}
<1>1. PICK longer : longer = Append(s, r)
  OBVIOUS
<1>2. /\ longer \in Seq(CfResults) /\ Len(s) \in Nat
      /\ DOMAIN s = 1..Len(s) /\ DOMAIN longer = 1..(Len(s) + 1)
      /\ longer[Len(s) + 1] = r /\ \A i \in 1..Len(s) : longer[i] = s[i]
  BY <1>1, AppendProperties, LenProperties
<1>3. DOMAIN longer = DOMAIN s \union {Len(s) + 1} /\ Len(s) + 1 \notin DOMAIN s
  BY <1>2
<1>4. OneResultEach(longer)
  BY <1>2, <1>3 DEF OneResultEach
<1>5. Items(longer, DOMAIN longer) = Items(s, DOMAIN s) \union {r}
  BY <1>2, <1>3 DEF Items
<1> QED
  BY <1>1, <1>2, <1>3, <1>4, <1>5

\* A probe has ended: without a result, or with one more in the list of its phase.
LEMMA TestKeeps ==
  ASSUME CfIInv, NEW ip \in candidates, TestIpv4(ip)
  PROVE  CfIInv'
<1>1. /\ pc \in {"priority", "fallback"} /\ pc' = pc /\ candidates' = candidates \ {ip}
      /\ UNCHANGED <<ranges, ipv6>>
  BY DEF TestIpv4
<1>2. /\ ip \in Nat /\ Allowed(ip) /\ CfTypeOK
      /\ OneResultEach(results) /\ OneResultEach(fallback)
      /\ found = Items(results, DOMAIN results) \union Items(fallback, NewIn(results, fallback))
  BY <1>1 DEF CfIInv, CfTypeOK, OnlyAllowed, ProbedOnce, FoundIsListed, Scanning
<1>3. BestAreKept'
  BY <1>1 DEF BestAreKept, Ranked
<1>4. CASE UNCHANGED <<results, fallback, found>>
  <2>1. CfTypeOK' /\ FilledInOrder' /\ ProbedOnce'
    BY <1>1, <1>4 DEF CfIInv, CfTypeOK, FilledInOrder, ProbedOnce, OneResultEach
  <2>2. FoundIsListed' /\ OnlyAllowed'
    BY <1>1, <1>4 DEF CfIInv, FoundIsListed, Items, NewIn, OnlyAllowed, Allowed, HostIn
  <2> QED
    BY <1>3, <2>1, <2>2 DEF CfIInv
<1>5. ASSUME NEW r \in WorkingResults(ip),
             found' = IF \E f \in found : f.ip = ip THEN found ELSE found \union {r},
             pc = "priority", results' = Append(results, r), fallback' = fallback
      PROVE  CfIInv'
  <2>1. r \in CfResults /\ r.ip = ip
    BY <1>2, WorkingFacts
  <2>2. fallback = <<>> /\ NewIn(results, fallback) = {} /\ \A i \in DOMAIN results : results[i].ip # ip
    BY <1>5 DEF CfIInv, FilledInOrder, ProbedOnce, NewIn
  <2>3. found = Items(results, DOMAIN results)
    BY <1>2, <2>2 DEF Items
  <2>4. found' = found \union {r}
    BY <1>5, <2>2, <2>3 DEF Items
  <2>5. /\ results' \in Seq(CfResults) /\ OneResultEach(results')
        /\ DOMAIN results' = DOMAIN results \union {Len(results) + 1}
        /\ results'[Len(results) + 1] = r /\ \A i \in DOMAIN results : results'[i] = results[i]
        /\ Items(results', DOMAIN results') = Items(results, DOMAIN results) \union {r}
    BY <1>2, <1>5, <2>1, <2>2, AppendResult DEF CfTypeOK
  <2>6. CfTypeOK' /\ FilledInOrder'
    BY <1>1, <1>2, <1>5, <2>1, <2>2, <2>4, <2>5 DEF CfTypeOK, FilledInOrder
  <2>7. ProbedOnce'
    <3>1. \A i \in DOMAIN results' : results'[i].ip \notin candidates'
      BY <1>1, <1>5, <2>1, <2>5 DEF CfIInv, ProbedOnce
    <3> QED
      BY <1>1, <1>2, <1>5, <2>5, <3>1 DEF ProbedOnce, OneResultEach
  <2>8. FoundIsListed'
    <3>1. fallback' = <<>> /\ Items(fallback', NewIn(results', fallback')) = {}
      BY <1>5, <2>2 DEF NewIn, Items
    <3> QED
      BY <2>3, <2>4, <2>5, <3>1 DEF FoundIsListed, Items, NewIn
  <2>9. OnlyAllowed'
    <3>1. \A x : Allowed(x)' = Allowed(x)
      BY <1>1 DEF Allowed, HostIn
    <3>2. \A i \in DOMAIN results' : Allowed(results'[i].ip)
      BY <1>2, <2>1, <2>5 DEF CfIInv, OnlyAllowed
    <3> QED
      BY <1>1, <1>5, <3>1, <3>2 DEF CfIInv, OnlyAllowed, Allowed, HostIn
  <2> QED
    BY <1>3, <2>6, <2>7, <2>8, <2>9 DEF CfIInv
<1>6. ASSUME NEW r \in WorkingResults(ip),
             found' = IF \E f \in found : f.ip = ip THEN found ELSE found \union {r},
             pc = "fallback", fallback' = Append(fallback, r), results' = results
      PROVE  CfIInv'
  <2>1. r \in CfResults /\ r.ip = ip
    BY <1>2, WorkingFacts
  <2>2. \A i \in DOMAIN fallback : fallback[i].ip # ip
    BY <1>6 DEF CfIInv, ProbedOnce
  <2> DEFINE n == Len(fallback) + 1
  <2>3. /\ fallback' \in Seq(CfResults) /\ OneResultEach(fallback')
        /\ DOMAIN fallback' = DOMAIN fallback \union {n} /\ n \notin DOMAIN fallback
        /\ fallback'[n] = r /\ \A i \in DOMAIN fallback : fallback'[i] = fallback[i]
    BY <1>2, <1>6, <2>1, <2>2, AppendResult DEF CfTypeOK
  <2> HIDE DEF n
  <2>4. found' \in SUBSET CfResults
    BY <1>2, <1>6, <2>1 DEF CfTypeOK
  <2>5. CfTypeOK' /\ FilledInOrder'
    BY <1>1, <1>2, <1>6, <2>3, <2>4 DEF CfTypeOK, FilledInOrder
  <2>6. ProbedOnce'
    <3>1. \A i \in DOMAIN fallback' : fallback'[i].ip \notin candidates'
      BY <1>1, <1>6, <2>1, <2>3 DEF CfIInv, ProbedOnce
    <3> QED
      BY <1>1, <1>2, <1>6, <2>3, <3>1 DEF ProbedOnce, OneResultEach
  <2>7. FoundIsListed'
    <3> DEFINE old == Items(fallback, NewIn(results, fallback))
               new == Items(fallback', NewIn(results, fallback'))
    <3>1. CASE \E j \in DOMAIN results : results[j].ip = ip
      <4>1. found' = found
        BY <1>2, <1>6, <3>1 DEF Items
      <4>2. NewIn(results, fallback') = NewIn(results, fallback)
        BY <2>1, <2>3, <3>1 DEF NewIn
      <4>3. new = old
        BY <2>3, <4>2 DEF Items, NewIn
      <4> QED
        BY <1>2, <1>6, <4>1, <4>3 DEF FoundIsListed
    <3>2. CASE \A j \in DOMAIN results : results[j].ip # ip
      <4>1. found' = found \union {r}
        BY <1>2, <1>6, <2>2, <3>2 DEF Items, NewIn
      <4>2. NewIn(results, fallback') = NewIn(results, fallback) \union {n}
        BY <2>1, <2>3, <3>2 DEF NewIn
      <4>3. new = old \union {r}
        BY <2>3, <4>2 DEF Items, NewIn
      <4> QED
        BY <1>2, <1>6, <4>1, <4>3 DEF FoundIsListed
    <3> QED
      BY <3>1, <3>2
  <2>8. OnlyAllowed'
    <3>1. \A x : Allowed(x)' = Allowed(x)
      BY <1>1 DEF Allowed, HostIn
    <3>2. \A i \in DOMAIN fallback' : Allowed(fallback'[i].ip)
      BY <1>2, <2>1, <2>3 DEF CfIInv, OnlyAllowed
    <3> QED
      BY <1>1, <1>6, <3>1, <3>2 DEF CfIInv, OnlyAllowed, Allowed, HostIn
  <2> QED
    BY <1>3, <2>5, <2>6, <2>7, <2>8 DEF CfIInv
<1>7. QED
  BY <1>1, <1>4, <1>5, <1>6 DEF TestIpv4

\* The best of what was found are left.
LEMMA BestFacts ==
  ASSUME NEW list, NEW F, Best(list, F)
  PROVE  /\ OneResultEach(list) /\ \A i \in DOMAIN list : list[i] \in F
<1>1. DOMAIN list = 1..Len(list) /\ Len(list) \in Nat
  BY LenProperties DEF Best
<1>2. OneResultEach(list)
  <2> SUFFICES ASSUME NEW i \in DOMAIN list, NEW j \in DOMAIN list, i # j PROVE list[i].ip # list[j].ip
    BY DEF OneResultEach
  <2>1. i < j \/ j < i
    BY <1>1
  <2> QED
    BY <2>1 DEF Best
<1>3. \A i \in DOMAIN list : list[i] \in F
  BY DEF Best, Range
<1> QED
  BY <1>2, <1>3

\* The best of what was found are written: any step that ends the probing so.
LEMMA BestKeeps ==
  ASSUME CfIInv, pc \in Scanning, pc' \in {"ipv6", "failed"},
         UNCHANGED <<ranges, candidates, fallback, found, ipv6>>,
         Best(results', found), pc' = "ipv6" => results' # <<>>
  PROVE  CfIInv'
<1>1. /\ CfTypeOK /\ OneResultEach(fallback)
      /\ found = Items(results, DOMAIN results) \union Items(fallback, NewIn(results, fallback))
  BY DEF CfIInv, ProbedOnce, FoundIsListed
<1>2. /\ results' \in Seq(CfResults) /\ OneResultEach(results')
      /\ \A i \in DOMAIN results' : results'[i] \in found
  BY BestFacts DEF Best
<1>3. CfTypeOK' /\ FilledInOrder'
  BY <1>1, <1>2 DEF CfTypeOK, FilledInOrder
<1>4. ProbedOnce' /\ FoundIsListed'
  BY <1>1, <1>2 DEF ProbedOnce, FoundIsListed, Scanning, OneResultEach
<1>5. OnlyAllowed'
  <2>1. \A x : Allowed(x)' = Allowed(x)
    BY DEF Allowed, HostIn
  <2>2. \A f \in found : Allowed(f.ip)
    BY <1>1 DEF CfIInv, OnlyAllowed, Items, NewIn
  <2>3. \A i \in DOMAIN results' : Allowed(results'[i].ip)
    BY <1>2, <2>2
  <2> QED
    BY <2>1, <2>3 DEF CfIInv, OnlyAllowed, Allowed, HostIn
<1>6. BestAreKept'
  BY DEF Best, BestAreKept, Ranked
<1> QED
  BY <1>3, <1>4, <1>5, <1>6 DEF CfIInv

LEMMA EndPriorityKeeps == CfIInv /\ EndPriority => CfIInv'
<1> SUFFICES ASSUME CfIInv, EndPriority PROVE CfIInv'
  OBVIOUS
<1>1. /\ pc = "priority" /\ candidates = {} /\ UNCHANGED <<ranges, fallback, found, ipv6>>
      /\ IF Len(results) < MinPriority
         THEN /\ pc' = "fallback" /\ results' = sort_results(results)
              /\ \E c \in Samplings([net \in ranges.ipv4 |-> Draws(net, Samples)]) :
                   candidates' = Unblocked(c)
         ELSE /\ pc' = "ipv6" /\ results' = truncate(sort_results(results))
              /\ UNCHANGED candidates
  BY DEF EndPriority
<1>2. CfTypeOK /\ fallback = <<>> /\ OneResultEach(results) /\ found = Items(results, DOMAIN results)
  BY <1>1 DEF CfIInv, FilledInOrder, ProbedOnce, FoundIsListed, Scanning, Items, NewIn
<1>3. results \in Seq(CfResults) /\ \A i, j \in DOMAIN results : i # j => results[i].ip # results[j].ip
  BY <1>2 DEF CfTypeOK, OneResultEach
<1>4. CASE Len(results) < MinPriority
  <2>1. pc' = "fallback" /\ results' = Sorted(results, DOMAIN results)
    BY <1>1, <1>4 DEF sort_results
  <2>2. PICK c \in Samplings([net \in ranges.ipv4 |-> Draws(net, Samples)]) : candidates' = Unblocked(c)
    BY <1>1, <1>4
  <2>3. \A ip \in c : ip \in Nat /\ HostIn(ranges.ipv4, ip)
    <3> DEFINE draws == [net \in ranges.ipv4 |-> Draws(net, Samples)]
    <3>1. ranges.ipv4 \in SUBSET Ranges
      BY <1>2 DEF CfTypeOK
    <3>2. DOMAIN draws = ranges.ipv4 /\ \A net \in ranges.ipv4 : \E n : draws[net] = Draws(net, n)
      OBVIOUS
    <3>3. c \in Samplings(draws)
      BY <2>2
    <3> HIDE DEF draws
    <3> QED
      BY <3>1, <3>2, <3>3, SampledAreHosts
  <2>4. candidates' \in SUBSET Nat /\ \A ip \in candidates' : Allowed(ip)
    BY <2>2, <2>3 DEF Unblocked, Allowed
  <2>5. /\ results' \in Seq(CfResults) /\ OneResultEach(results')
        /\ Items(results', DOMAIN results') = Items(results, DOMAIN results)
    BY <1>3, <2>1, SortedItems
  <2>6. CfTypeOK' /\ FilledInOrder'
    BY <1>1, <1>2, <2>1, <2>4, <2>5 DEF CfTypeOK, FilledInOrder
  <2>7. ProbedOnce'
    BY <1>1, <1>2, <2>1, <2>5 DEF ProbedOnce, OneResultEach
  <2>8. FoundIsListed'
    <3>1. fallback' = <<>> /\ Items(fallback', NewIn(results', fallback')) = {}
      BY <1>1, <1>2 DEF NewIn, Items
    <3> QED
      BY <1>1, <1>2, <2>5, <3>1 DEF FoundIsListed, Items, NewIn
  <2>9. OnlyAllowed'
    <3>1. \A x : Allowed(x)' = Allowed(x)
      BY <1>1 DEF Allowed, HostIn
    <3>2. \A i \in DOMAIN results' : Allowed(results'[i].ip)
      BY <2>5 DEF CfIInv, OnlyAllowed, Items
    <3> QED
      BY <1>1, <1>2, <2>4, <3>1, <3>2 DEF OnlyAllowed, Allowed, HostIn
  <2>10. BestAreKept'
    BY <2>1 DEF BestAreKept, Ranked
  <2> QED
    BY <2>6, <2>7, <2>8, <2>9, <2>10 DEF CfIInv
<1>5. CASE ~(Len(results) < MinPriority)
  <2>1. pc' = "ipv6" /\ candidates' = candidates /\ results' = truncate(Sorted(results, DOMAIN results))
    BY <1>1, <1>5 DEF sort_results
  <2>2. Best(results', found) /\ (results' = <<>> => DOMAIN results = {})
    BY <1>2, <1>3, <2>1, FirstAreBest
  <2>3. 1 \in DOMAIN results
    BY <1>3, <1>5, ScanAssumption, LenProperties
  <2> QED
    BY <1>1, <2>1, <2>2, <2>3, BestKeeps DEF Scanning
<1> QED
  BY <1>4, <1>5

LEMMA EndFallbackKeeps == CfIInv /\ EndFallback => CfIInv'
<1> SUFFICES ASSUME CfIInv, EndFallback PROVE CfIInv'
  OBVIOUS
<1>1. /\ pc = "fallback" /\ results' = truncate(Merge(results, fallback))
      /\ pc' = (IF results' = <<>> THEN "failed" ELSE "ipv6")
      /\ UNCHANGED <<ranges, candidates, fallback, found, ipv6>>
  BY DEF EndFallback
<1>2. /\ results \in Seq(CfResults) /\ fallback \in Seq(CfResults)
      /\ OneResultEach(results) /\ OneResultEach(fallback)
      /\ found = Items(results, DOMAIN results) \union Items(fallback, NewIn(results, fallback))
  BY <1>1 DEF CfIInv, CfTypeOK, ProbedOnce, FoundIsListed, Scanning
<1>3. PICK both, I : both = results \o fallback /\ I = MergedNumbers(results, fallback)
  OBVIOUS
<1>4. /\ Merge(results, fallback) = Sorted(both, I)
      /\ both \in Seq(CfResults) /\ I \in SUBSET DOMAIN both
      /\ \A i, j \in I : i # j => both[i].ip # both[j].ip
      /\ Items(both, I) = found
  BY <1>2, <1>3, MergeFacts
<1>5. Best(results', found)
  BY <1>1, <1>4, FirstAreBest
<1> QED
  BY <1>1, <1>5, BestKeeps DEF Scanning

\* Steps after the probing leave the IPv4 results alone.
LEMMA LaterStep ==
  ASSUME CfIInv, UNCHANGED <<ranges, candidates, fallback, results, found>>,
         pc' \in Scanning => pc' = pc,
         pc' \in {"ipv6", "exit", "pushed", "rejected"} => pc \in {"ipv6", "exit", "pushed", "rejected"},
         ipv6' \in SUBSET Nat
  PROVE  CfIInv'
<1>1. CfTypeOK' /\ FilledInOrder'
  BY DEF CfIInv, CfTypeOK, FilledInOrder, Scanning
<1>2. ProbedOnce' /\ FoundIsListed'
  BY DEF CfIInv, ProbedOnce, OneResultEach, FoundIsListed, Items, NewIn, Scanning
<1>3. OnlyAllowed'
  BY DEF CfIInv, OnlyAllowed, Allowed, HostIn
<1>4. BestAreKept'
  BY DEF CfIInv, BestAreKept, Ranked
<1> QED
  BY <1>1, <1>2, <1>3, <1>4 DEF CfIInv

LEMMA DrawKeeps == CfIInv /\ DrawIpv6 => CfIInv'
<1> SUFFICES ASSUME CfIInv, DrawIpv6 PROVE CfIInv'
  OBVIOUS
<1>1. /\ pc' = pc /\ UNCHANGED <<ranges, candidates, fallback, results, found>>
      /\ \E net \in ranges.ipv6 : \E ip \in RandomIpv6(net) : ipv6' = ipv6 \union {ip}
  BY DEF DrawIpv6
<1>2. PICK net \in ranges.ipv6 : \E ip \in RandomIpv6(net) : ipv6' = ipv6 \union {ip}
  BY <1>1
<1>3. PICK ip \in RandomIpv6(net) : ipv6' = ipv6 \union {ip}
  BY <1>2
<1>4. net \in Ranges /\ ipv6 \in SUBSET Nat
  BY DEF CfIInv, CfTypeOK
<1>5. net.address \in Nat /\ Size(net) \in Nat
  BY <1>4, ScanAssumption
<1>6. ip \in Nat
  BY <1>5 DEF RandomIpv6
<1> QED
  BY <1>1, <1>3, <1>4, <1>6, LaterStep

LEMMA StepCfIInv == CfIInv /\ [CfNext]_cfVars => CfIInv'
<1> SUFFICES ASSUME CfIInv, [CfNext]_cfVars PROVE CfIInv'
  OBVIOUS
<1>0. ipv6 \in SUBSET Nat
  BY DEF CfIInv, CfTypeOK
<1>1. CASE FetchRanges
  BY <1>1, FetchKeeps
<1>2. CASE GeneratePriority
  BY <1>2, GenerateKeeps
<1>3. CASE EndPriority
  BY <1>3, EndPriorityKeeps
<1>4. CASE EndFallback
  BY <1>4, EndFallbackKeeps
<1>5. CASE DrawIpv6
  BY <1>5, DrawKeeps
<1>6. CASE WriteFiles
  <2>1. UNCHANGED lists /\ pc = "ipv6" /\ pc' \in {"ipv6", "exit"}
    BY <1>6 DEF WriteFiles
  <2> QED
    BY <1>0, <2>1, LaterStep DEF lists, Scanning
<1>7. CASE PushFiles
  <2>1. UNCHANGED lists /\ pc = "exit" /\ pc' \in {"pushed", "rejected"}
    BY <1>7 DEF PushFiles, Push
  <2> QED
    BY <1>0, <2>1, LaterStep DEF lists, Scanning
<1>8. CASE Abort
  <2>1. UNCHANGED lists /\ pc' = "failed"
    BY <1>8 DEF Abort, Fail
  <2> QED
    BY <1>0, <2>1, LaterStep DEF lists, Scanning
<1>9. ASSUME NEW ip \in candidates, TestIpv4(ip) PROVE CfIInv'
  BY <1>9, TestKeeps
<1>10. CASE UNCHANGED cfVars
  <2>1. UNCHANGED lists /\ pc' = pc
    BY <1>10 DEF cfVars
  <2> QED
    BY <1>0, <2>1, LaterStep DEF lists
<1> QED
  BY <1>1, <1>2, <1>3, <1>4, <1>5, <1>6, <1>7, <1>8, <1>9, <1>10 DEF CfNext, Step

LEMMA AlwaysCfIInv == CfSpec => []CfIInv
BY InitCfIInv, StepCfIInv, PTL DEF CfSpec

\* The types of the scan's lists.
THEOREM CfTypes == CfSpec => []CfTypeOK
<1>1. CfIInv => CfTypeOK
  BY DEF CfIInv
<1> QED
  BY <1>1, AlwaysCfIInv, PTL

\* For any ranges, samples, bounds and answers: what is written are the best of all
\* addresses that worked in the two scans, in order, each once and with its first
\* result, as many as OutputCount and what was found allow, and never none
\* (cf-scanner.rs: the merge by seen addresses, sort_results and truncate).
THEOREM TheBestAreWritten == CfSpec => []BestAreKept
<1>1. CfIInv => BestAreKept
  BY DEF CfIInv
<1> QED
  BY <1>1, AlwaysCfIInv, PTL

\* For addresses of any width: what is written is a host of a priority range or of a
\* range of the API outside all blocked ones; the arithmetic of the random offset
\* never meets the first or last address of its range, nor leaves it.
THEOREM OnlyHostsAreWritten == CfSpec => []OnlyHostsOfRanges
<1>1. CfIInv => OnlyHostsOfRanges
  BY DEF CfIInv, OnlyAllowed, Allowed, HostIn, OnlyHostsOfRanges
<1> QED
  BY <1>1, AlwaysCfIInv, PTL
=============================================================================
