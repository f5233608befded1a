---------------------------- MODULE ProxyScanner ----------------------------
(***************************************************************************)
(* The daily scan for proxies (edge/proxies-main.rs) and the job that      *)
(* publishes its two reports (.github/workflows/RScanner.yml).             *)
(*                                                                         *)
(* A candidate is probed through two sites that tell the address a request *)
(* comes from; one whose requests leave from another address than the      *)
(* scanner's is live, gets a risk score from one of four hosts, at most    *)
(* six candidates at a time, and is listed.  All candidates run in one     *)
(* task, up to Window of them: they interleave only where they await.      *)
(***************************************************************************)
EXTENDS DailyJob, Integers, Sequences, FiniteSets

CONSTANTS
  Ips,           \* addresses
  Lines,         \* the proxy file: a sequence of [ip, port]
  Domains,       \* the environment's domains: a sequence of sequences of addresses
  Providers,     \* the providers with a section of their own
  Isp,           \* what an address's isp contains: a set of providers
  Codes,         \* what a probe may answer as country
  Clip,          \* the first two bytes of a code that is longer; Split if they
                 \* end inside a character
  Scores,        \* what a risk host may answer
  Window,        \* MAX_CONCURRENT_SCANS
  Permits,       \* RISK_CONCURRENCY
  RiskHosts      \* how many RISK_API_HOSTS there are

Split == "split"
Kinds == {"proxy", "edge"}            \* an edge answers itself, if at all
Port == 443                           \* TARGET_PROXY_PORT

ASSUME ScannerAssumption ==
  /\ Window \in Nat \ {0} /\ Permits \in Nat \ {0} /\ RiskHosts \in Nat \ {0}
  /\ IsFiniteSet(Ips)
  /\ Lines \in Seq([ip : Ips, port : Nat])
  /\ Domains \in Seq(Seq(Ips))

VARIABLES
  kind,          \* what is behind each address
  domain,        \* domains resolved
  proxy_candidates, \* the stream takes them from its head
  total,         \* total_candidates
  own,           \* whether scanner_ip is the scanner's address
  at,            \* where the task of each address is
  code,          \* the country its probe answered
  tries,         \* the hosts asked for its risk
  permits,       \* free permits of the semaphore
  queue,         \* tasks waiting for one, first come first served
  validated,     \* validated_proxies, in the order they were pushed
  live, failed,  \* live_count, failed_count
  scored, unknown \* the success counters together, RISK_FAILURES

tasks == <<proxy_candidates, at, code, tries, permits, queue, validated>>
counters == <<live, failed, scored, unknown>>
job == <<files, main>>
proxyVars == <<kind, pc, domain, total, own, tasks, counters, job>>

ProxyInit ==
  /\ kind \in [Ips -> Kinds]
  /\ pc = "create" /\ domain = 0
  /\ proxy_candidates = <<>> /\ total = 0
  /\ own = FALSE
  /\ at = [ip \in Ips |-> "idle"]
  /\ code = [ip \in Ips |-> Split]
  /\ tries = [ip \in Ips |-> 0]
  /\ permits = Permits /\ queue = <<>>
  /\ validated = <<>>
  /\ live = 0 /\ failed = 0 /\ scored = 0 /\ unknown = 0
  /\ Checkout({"md", "json"})

(***************************************************************************)
(* main: up to the scan                                                    *)
(***************************************************************************)
\* The report is truncated before anything else is known.
CreateReport ==
  /\ pc = "create"
  /\ pc' = "read"
  /\ files' = [files EXCEPT !.md = Cut]
  /\ UNCHANGED <<kind, domain, total, own, tasks, counters, main>>

\* Mutant: an address that was seen is queued again.
Insert_Again(s, c) == IF c.port = Port THEN Append(s, c.ip) ELSE s

\* The port is the target's, and seen_ips.insert is true.
Insert(s, c) ==
  IF c.port = Port /\ \A i \in DOMAIN s : s[i] # c.ip THEN Append(s, c.ip) ELSE s

\* A loop over what was listed or resolved.
InsertAll(s, list) ==
  LET queued[n \in 0..Len(list)] == IF n = 0 THEN s ELSE Insert(queued[n - 1], list[n])
  IN  queued[Len(list)]

\* read_proxy_file: an unreadable line loses the whole list.
ReadProxyFile ==
  /\ pc = "read"
  /\ pc' = "resolve"
  /\ \/ proxy_candidates' = InsertAll(proxy_candidates, Lines)
     \/ UNCHANGED proxy_candidates
  /\ UNCHANGED <<kind, domain, total, own, at, code, tries, permits, queue, validated, counters, job>>

Resolved(ips) == [i \in DOMAIN ips |-> [ip |-> ips[i], port |-> Port]]

\* resolve_domain, which may fail
ResolveDomain ==
  /\ pc = "resolve" /\ domain < Len(Domains)
  /\ domain' = domain + 1
  /\ \/ proxy_candidates' = InsertAll(proxy_candidates, Resolved(Domains[domain + 1]))
     \/ UNCHANGED proxy_candidates
  /\ UNCHANGED <<kind, pc, total, own, at, code, tries, permits, queue, validated, counters, job>>

\* get_scanner_ip; after an error, or a page of one, the address is not known.
GetScannerIp ==
  /\ pc = "resolve" /\ domain = Len(Domains)
  /\ pc' = "scan"
  /\ own' \in BOOLEAN
  /\ total' = Len(proxy_candidates)
  /\ UNCHANGED <<kind, domain, tasks, counters, job>>

(***************************************************************************)
(* scan_candidate                                                          *)
(***************************************************************************)
Goto(ip, where) == at' = [at EXCEPT ![ip] = where]

InFlight == {ip \in Ips : at[ip] \in {"worker", "trace", "wait", "ask"}}

\* buffer_unordered: the stream's next future.
Start ==
  /\ pc = "scan" /\ proxy_candidates # <<>>
  /\ Cardinality(InFlight) < Window
  /\ Goto(Head(proxy_candidates), "worker")
  /\ proxy_candidates' = Tail(proxy_candidates)
  /\ UNCHANGED <<kind, pc, domain, total, own, code, tries, permits, queue, validated, counters, job>>

\* What a probe through ip can answer in time: that the request came from another
\* address, from the scanner's, or nothing that can be used.
Answers(ip) ==
  IF kind[ip] = "proxy" THEN {"other", "self", "none"} ELSE {"self", "none"}

\* The answer has an address, and it is not scanner_ip.
Forwards(answer) == answer = "other" \/ (answer = "self" /\ ~own)

\* Mutant: a permit that is dropped at once, as of `let _ = acquire()'.
Acquire_Dropped(ip) ==
  /\ Goto(ip, "ask")
  /\ UNCHANGED <<permits, queue>>

\* RISK_CONCURRENCY.acquire()
Acquire(ip) ==
  IF permits > 0
  THEN permits' = permits - 1 /\ Goto(ip, "ask") /\ UNCHANGED queue
  ELSE queue' = Append(queue, ip) /\ Goto(ip, "wait") /\ UNCHANGED permits

\* Of the two probes the first that shows a proxy leads to register_success.
Probe(ip, from, otherwise) ==
  /\ pc = "scan" /\ at[ip] = from
  /\ \E answer \in Answers(ip) :
       IF Forwards(answer)
       THEN /\ \E c \in Codes : code' = [code EXCEPT ![ip] = c]
            /\ Acquire(ip)
            /\ UNCHANGED failed
       ELSE /\ Goto(ip, otherwise)
            /\ failed' = failed + (IF otherwise = "dead" THEN 1 ELSE 0)
            /\ UNCHANGED <<code, permits, queue>>
  /\ UNCHANGED <<kind, pc, domain, proxy_candidates, total, own, tries, validated,
                 live, scored, unknown, job>>

ProbeWorker(ip) == Probe(ip, "worker", "trace")

ProbeTrace(ip) == Probe(ip, "trace", "dead")

(***************************************************************************)
(* fetch_risk_assessment_balanced and the rest of register_success         *)
(***************************************************************************)
Asking(ip) == pc = "scan" /\ at[ip] = "ask"

\* A host does not answer, or with something else than a score: the next one is
\* asked.
AskNext(ip) ==
  /\ Asking(ip) /\ tries[ip] + 1 < RiskHosts
  /\ tries' = [tries EXCEPT ![ip] = @ + 1]
  /\ UNCHANGED <<kind, pc, domain, proxy_candidates, total, own, at, code, permits, queue, validated,
                 counters, job>>

\* Mutant: without a score the permit is kept.
Release_OnScore(ip, score) ==
  IF score = -1
  THEN Goto(ip, "live") /\ UNCHANGED <<permits, queue>>
  ELSE IF queue = <<>>
  THEN permits' = permits + 1 /\ Goto(ip, "live") /\ UNCHANGED queue
  ELSE /\ queue' = Tail(queue)
       /\ at' = [at EXCEPT ![ip] = "live", ![Head(queue)] = "ask"]
       /\ UNCHANGED permits

\* The permit goes to the task that waits longest.
Release(ip, score) ==
  IF queue = <<>>
  THEN permits' = permits + 1 /\ Goto(ip, "live") /\ UNCHANGED queue
  ELSE /\ queue' = Tail(queue)
       /\ at' = [at EXCEPT ![ip] = "live", ![Head(queue)] = "ask"]
       /\ UNCHANGED permits

Info(ip, score) == [ip |-> ip, country |-> Clip[code[ip]], score |-> score]

Count(score) ==
  IF score = -1
  THEN unknown' = unknown + 1 /\ UNCHANGED scored
  ELSE scored' = scored + 1 /\ UNCHANGED unknown

\* The risk is known, or all hosts have failed (or there is no client to ask with);
\* nothing is awaited until the candidate is listed.  The slice of the country code
\* panics when it would split a character.
Register(ip) ==
  /\ Asking(ip)
  /\ \E score \in Scores \union {-1} :
       /\ Count(score)
       /\ IF Info(ip, score).country = Split
          THEN /\ pc' = "failed"
               /\ UNCHANGED <<at, permits, queue, validated, live>>
          ELSE /\ Release(ip, score)
               /\ live' = live + 1
               /\ validated' = Append(validated, Info(ip, score))
               /\ UNCHANGED pc
  /\ UNCHANGED <<kind, domain, proxy_candidates, total, own, code, tries, failed, job>>

Task(ip) == ProbeWorker(ip) \/ ProbeTrace(ip) \/ AskNext(ip) \/ Register(ip)

(***************************************************************************)
(* The reports                                                             *)
(***************************************************************************)
\* The table of the proxies with these numbers: their order and layout left out
Table(proxies, I) == [n |-> Cardinality(I), infos |-> {proxies[i] : i \in I}]

Sections(proxies, I) ==
  [ countries |-> [c \in {proxies[i].country : i \in I} |->
                     Table(proxies, {i \in I : proxies[i].country = c})],
    providers |-> [p \in Providers |-> Table(proxies, {i \in I : p \in Isp[proxies[i].ip]})] ]

\* The badge with their number, and the tables
Report(proxies, I) == [active |-> Cardinality(I), sections |-> Sections(proxies, I)]

\* write_markdown_report
Markdown(proxies) == Report(proxies, DOMAIN proxies)

\* The proxies whose address no earlier one has.
Unseen(proxies) == {i \in DOMAIN proxies : \A j \in 1..(i - 1) : proxies[j].ip # proxies[i].ip}

\* write_zizifn_json
Zizifn(proxies) == Report(proxies, Unseen(proxies))

\* The stream has ended when every task has.
WriteMarkdown ==
  \/ /\ pc = "scan" /\ proxy_candidates = <<>> /\ InFlight = {}
     /\ pc' = "markdown"
     /\ files' = [files EXCEPT !.md = Cut]
  \/ /\ pc = "markdown"
     /\ pc' = "json"
     /\ files' = [files EXCEPT !.md = Markdown(validated)]

WriteZizifn ==
  \/ /\ pc = "json"
     /\ pc' = "write"
     /\ files' = [files EXCEPT !.json = Cut]
  \/ /\ pc = "write"
     /\ pc' = "exit"
     /\ files' = [files EXCEPT !.json = Zizifn(validated)]

WriteReports ==
  /\ WriteMarkdown \/ WriteZizifn
  /\ UNCHANGED <<kind, domain, total, own, tasks, counters, main>>

\* git push, and what may end the scan or the job before it
Publish == Push /\ UNCHANGED <<kind, domain, total, own, tasks, counters>>
BreakOff == Fail /\ UNCHANGED <<kind, domain, total, own, tasks, counters>>

(***************************************************************************)
(* Specification                                                           *)
(***************************************************************************)
Prepare == CreateReport \/ ReadProxyFile \/ ResolveDomain \/ GetScannerIp

ProxyNext ==
  \/ Prepare \/ Start \/ WriteReports \/ Publish \/ BreakOff
  \/ \E ip \in Ips : Task(ip)

\* Every request has a timeout, so that each task goes on by itself.
ProxySpec ==
  /\ ProxyInit /\ [][ProxyNext]_proxyVars
  /\ WF_proxyVars(Prepare \/ Start \/ WriteReports \/ Publish)
  /\ \A ip \in Ips : WF_proxyVars(Task(ip))

-----------------------------------------------------------------------------
(***************************************************************************)
(* Properties                                                              *)
(***************************************************************************)
\* The figures of the summary (proxies-main.rs:159-169) and the diagnostics of the
\* risk hosts (188-236): every candidate is counted once, as live or as failed; the
\* live ones are the ones that are listed, each once; and each of these is counted
\* once, as a failure of the risk hosts or as a success, as its score is.
EachCountedOnce ==
  /\ pc = "scan" => live + failed + Cardinality(InFlight) + Len(proxy_candidates) = total
  /\ live = Len(validated)
  /\ \A i, j \in DOMAIN validated : i # j => validated[i].ip # validated[j].ip
  /\ pc # "failed" =>
       /\ unknown = Cardinality({i \in DOMAIN validated : validated[i].score = -1})
       /\ scored = Cardinality({i \in DOMAIN validated : validated[i].score # -1})

\* RISK_CONCURRENCY: six candidates at most ask for their risk, and none waits
\* while a permit is free.
RiskIsRationed ==
  pc = "scan" =>
    /\ Cardinality({ip \in Ips : at[ip] = "ask"}) <= Permits
    /\ queue # <<>> => permits = 0

\* The branch has the reports of one scan, both of them, complete and with the same
\* proxies in the same sections, whenever a scan breaks off.
PublishedIsWhole ==
  \/ main.md = Old /\ main.json = Old
  \/ main.md = main.json /\ main.md = Markdown(validated) /\ pc = "pushed"

\* Every scan comes to an end: no task waits for a permit for ever.
ProxyScanEnds == <>(pc \in Ended)
=============================================================================
