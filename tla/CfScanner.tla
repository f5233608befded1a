----------------------------- MODULE CfScanner -----------------------------
(***************************************************************************)
(* The scan for Cloudflare addresses (edge/cf-scanner.rs) and the job that *)
(* publishes its four files (.github/workflows/Preprocessor.yml).          *)
(*                                                                         *)
(* Random addresses of the priority ranges are probed three times each; if *)
(* too few work, random addresses of Cloudflare's published ranges are,    *)
(* too.  The best are written, with a few IPv6 addresses that are random   *)
(* and not probed.  The tasks of a scan share nothing but the list their   *)
(* results go to, so that each is one step.                                *)
(*                                                                         *)
(* An address has W bits (32 in the code, 128 for IPv6); a range is an     *)
(* address and the length of its prefix.                                   *)
(***************************************************************************)
EXTENDS DailyJob, Integers, Sequences, FiniteSets, Functions

CONSTANTS
  W,                 \* bits of an address
  LongPrefix,        \* a priority range with this prefix or longer is small (24)
  PriorityRanges,    \* PRIORITY_RANGES, a set
  BlockedRanges,     \* BLOCKED_RANGES
  DefaultIpv6,       \* DEFAULT_IPV6_RANGES
  ApiRanges,         \* what the API may answer: records [ipv4, ipv6]
  PrioritySamples,   \* PRIORITY_SAMPLES_PER_RANGE
  Samples,           \* IPV4_SAMPLES_PER_RANGE
  MinPriority,       \* MIN_PRIORITY_RESULTS
  OutputCount,       \* IPV4_OUTPUT_COUNT
  Ipv6Count,         \* IPV6_OUTPUT_COUNT
  Latencies,         \* how long a probe may take
  Timeout            \* TEST_TIMEOUT, for all probes of an address

Attempts == 3        \* PROBE_ATTEMPTS

Size(net) == 2 ^ (W - net.prefix)
Ranges == PriorityRanges \union BlockedRanges \union DefaultIpv6
            \union UNION {r.ipv4 \union r.ipv6 : r \in ApiRanges}

ASSUME ScanAssumption ==
  /\ {W, 2 ^ W, PrioritySamples, Samples, MinPriority, OutputCount, Timeout} \subseteq Nat \ {0}
  /\ Latencies \subseteq Nat \ {0}
  /\ \A net \in Ranges :
       /\ net.prefix \in 0..W /\ Size(net) \in Nat \ {0}
       /\ net.address \in Nat /\ net.address % Size(net) = 0
       /\ net.address + Size(net) <= 2 ^ W

VARIABLES
  ranges,        \* the ranges of the API, or the built-in ones
  candidates,    \* addresses of the present scan that are not probed yet
  fallback,      \* results of the fallback scan
  results,       \* ipv4_results
  found,         \* history: the first result of each address that worked
  ipv6           \* the IPv6 addresses drawn

lists == <<ranges, candidates, fallback, results, found, ipv6>>
cfVars == <<pc, lists, files, main>>

Names == {"Cf-ipv4", "Cf-ipv6", "Cf-ip-bpb", "Cloudflare-IPs"}

CfInit ==
  /\ pc = "fetch"
  /\ ranges = [ipv4 |-> {}, ipv6 |-> {}]
  /\ candidates = {} /\ fallback = <<>> /\ results = <<>> /\ found = {}
  /\ ipv6 = {}
  /\ Checkout(Names)

\* fetch_ranges_or_default
FetchRanges ==
  /\ pc = "fetch"
  /\ pc' = "generate"
  /\ ranges' \in ApiRanges \union {[ipv4 |-> PriorityRanges, ipv6 |-> DefaultIpv6]}
  /\ UNCHANGED <<candidates, fallback, results, found, ipv6, files, main>>

(***************************************************************************)
(* Candidates                                                              *)
(***************************************************************************)
\* gen_range(1..host_count - 1)
Offsets(net) == IF Size(net) > 2 THEN 1..(Size(net) - 2) ELSE {0}

\* What n draws with replacement can give.
Draws(net, n) ==
  {s \in SUBSET {(net.address + offset) % (2 ^ W) : offset \in Offsets(net)} :
     IF n = 0 THEN s = {} ELSE Cardinality(s) \in 1..n}

\* The union of one choice for each range.
Samplings(draws) ==
  LET choices == {c \in [DOMAIN draws -> UNION Range(draws)] :
                    \A net \in DOMAIN draws : c[net] \in draws[net]}
  IN  {UNION Range(c) : c \in choices}

Less(a, b) == IF a < b THEN a ELSE b
PrioritySampled(net) ==
  IF net.prefix >= LongPrefix
  THEN Less(PrioritySamples, IF Size(net) > 2 THEN Size(net) - 2 ELSE 0)
  ELSE Samples

\* Ipv4Net::contains: the address under the mask of the net.
Contains4(net, ip) == ip - (ip % Size(net)) = net.address

\* Mutant: an address is left out only when all blocked ranges have it.
Unblocked_All(ips) == {ip \in ips : ~\A net \in BlockedRanges : Contains4(net, ip)}

Unblocked(ips) == {ip \in ips : ~\E net \in BlockedRanges : Contains4(net, ip)}

GeneratePriority ==
  /\ pc = "generate"
  /\ pc' = "priority"
  /\ candidates' \in Samplings([net \in PriorityRanges |-> Draws(net, PrioritySampled(net))])
  /\ UNCHANGED <<ranges, fallback, results, found, ipv6, files, main>>

(***************************************************************************)
(* test_ipv4: three probes one after the other, within one timeout         *)
(***************************************************************************)
NoAnswer == 0
Probes == [1..Attempts -> Latencies \union {NoAnswer}]
Answered(probes) == {k \in 1..Attempts : probes[k] # NoAnswer}

\* A probe that fails takes no time, or runs into the timeout, and then there is no
\* result.
InTime(probes) == FoldFunction(+, 0, probes) <= Timeout

\* latencies[latencies.len() / 2], once they are sorted
Median(probes, latency) ==
  LET slower(l) == Cardinality({k \in Answered(probes) : probes[k] < l})
      half == Cardinality(Answered(probes)) \div 2
  IN  slower(latency) <= half /\ half < slower(latency + 1)

Result(probes, latency) ==
  [latency |-> latency, loss |-> ((Attempts - Cardinality(Answered(probes))) * 100) \div Attempts]

\* The three probes of an address that works: at least one is answered.
Working ==
  {Result(x[1], x[2]) : x \in {y \in Probes \X Latencies : InTime(y[1]) /\ Median(y[1], y[2])}}

WorkingResults(ip) == {[ip |-> ip, latency |-> r.latency, loss |-> r.loss] : r \in Working}

\* scan_ipv4: results come in any order.
TestIpv4(ip) ==
  /\ pc \in {"priority", "fallback"} /\ ip \in candidates
  /\ candidates' = candidates \ {ip}
  /\ \/ UNCHANGED <<results, fallback, found>>
     \/ \E r \in WorkingResults(ip) :
          /\ found' = IF \E f \in found : f.ip = ip THEN found ELSE found \union {r}
          /\ IF pc = "priority"
             THEN results' = Append(results, r) /\ UNCHANGED fallback
             ELSE fallback' = Append(fallback, r) /\ UNCHANGED results
  /\ UNCHANGED <<pc, ranges, ipv6, files, main>>

(***************************************************************************)
(* Ranking                                                                 *)
(***************************************************************************)
Better(a, b) == a.loss < b.loss \/ (a.loss = b.loss /\ a.latency < b.latency)

\* A stable sort by loss and latency, of the results with these numbers
Before(s, i, j) == Better(s[i], s[j]) \/ (~Better(s[j], s[i]) /\ i < j)
Rank(s, I, i) == Cardinality({j \in I : Before(s, j, i)}) + 1
Sorted(s, I) == [k \in 1..Cardinality(I) |-> s[CHOOSE i \in I : Rank(s, I, i) = k]]

sort_results(s) == Sorted(s, DOMAIN s)

truncate(s) == SubSeq(s, 1, Less(Len(s), OutputCount))

\* Mutant: what the fallback found again is appended again.
Merge_All(s, more) == sort_results(s \o more)

\* The results of addresses that are not there yet are appended and sorted with the
\* others.  That they are sorted before, too, changes nothing, the sort being stable.
Merge(s, more) ==
  LET new == {i \in DOMAIN more : \A j \in DOMAIN s : s[j].ip # more[i].ip}
  IN  Sorted(s \o more, DOMAIN s \union {Len(s) + i : i \in new})

\* Enough, or the fallback's candidates.
EndPriority ==
  /\ pc = "priority" /\ candidates = {}
  /\ IF Len(results) < MinPriority
     THEN /\ pc' = "fallback"
          /\ results' = sort_results(results)
          /\ \E c \in Samplings([net \in ranges.ipv4 |-> Draws(net, Samples)]) :
               candidates' = Unblocked(c)
     ELSE /\ pc' = "ipv6"
          /\ results' = truncate(sort_results(results))
          /\ UNCHANGED candidates
  /\ UNCHANGED <<ranges, fallback, found, ipv6, files, main>>

\* No working address is an error.
EndFallback ==
  /\ pc = "fallback" /\ candidates = {}
  /\ results' = truncate(Merge(results, fallback))
  /\ pc' = IF results' = <<>> THEN "failed" ELSE "ipv6"
  /\ UNCHANGED <<ranges, candidates, fallback, found, ipv6, files, main>>

(***************************************************************************)
(* generate_ipv6_candidates                                                *)
(***************************************************************************)
\* Mutant: the random bits are the ones under the mask, and lost.
RandomIpv6_Network(net) == {net.address}

RandomIpv6(net) == net.address .. (net.address + Size(net) - 1)

\* Draws go on until enough different addresses are there.  One that was there is a
\* step that changes nothing.
DrawIpv6 ==
  /\ pc = "ipv6" /\ ranges.ipv6 # {} /\ Cardinality(ipv6) < Ipv6Count
  /\ \E net \in ranges.ipv6 : \E ip \in RandomIpv6(net) :
       ip \notin ipv6 /\ ipv6' = ipv6 \union {ip}
  /\ UNCHANGED <<pc, ranges, candidates, fallback, results, found, files, main>>

(***************************************************************************)
(* The files, in the order they are written                                *)
(***************************************************************************)
make_record(r) == [ip |-> r.ip, latency |-> r.latency, loss |-> r.loss, node |-> "NETCUP"]

\* An address nobody has probed looks like the best there is.
make_ipv6_record(ip) == [ip |-> ip, latency |-> 0, loss |-> 0, node |-> "Diana"]

ipv4_records == [i \in DOMAIN results |-> make_record(results[i])]
ipv6_records == {make_ipv6_record(ip) : ip \in ipv6}
bpb_ips == [ipv4 |-> [i \in DOMAIN results |-> ipv4_records[i].ip],
            ipv6 |-> {r.ip : r \in ipv6_records}]

Content ==
  [ f \in Names |->
      CASE f = "Cf-ipv4" -> [day |-> "new", ipv4 |-> ipv4_records]
        [] f = "Cf-ipv6" -> [day |-> "new", ipv6 |-> ipv6_records]
        [] f = "Cf-ip-bpb" -> [day |-> "new", bpb |-> bpb_ips]
        [] f = "Cloudflare-IPs" -> [day |-> "new", ipv4 |-> ipv4_records, ipv6 |-> ipv6_records] ]

Writes == <<"Cf-ipv4", "Cf-ipv6", "Cf-ip-bpb", "Cloudflare-IPs">>

\* Truncated and then written.
WriteFile(i) ==
  LET f == Writes[i]
  IN  /\ \A j \in 1..(i - 1) : files[Writes[j]] = Content[Writes[j]]
      /\ \/ files[f] = Old /\ files' = [files EXCEPT ![f] = Cut]
         \/ files[f] = Cut /\ files' = [files EXCEPT ![f] = Content[f]]

WriteFiles ==
  /\ pc = "ipv6" /\ (ranges.ipv6 = {} \/ Cardinality(ipv6) = Ipv6Count)
  /\ IF files = Content
     THEN pc' = "exit" /\ UNCHANGED files
     ELSE (\E i \in DOMAIN Writes : WriteFile(i)) /\ UNCHANGED pc
  /\ UNCHANGED <<lists, main>>

\* git push, and what may end the scan or the job before it: an error of a range's
\* syntax, or of the file system
PushFiles == Push /\ UNCHANGED lists
Abort == Fail /\ UNCHANGED lists

(***************************************************************************)
(* Specification                                                           *)
(***************************************************************************)
Step ==
  \/ FetchRanges \/ GeneratePriority \/ EndPriority \/ EndFallback
  \/ DrawIpv6 \/ WriteFiles \/ PushFiles
  \/ \E ip \in candidates : TestIpv4(ip)

CfNext == Step \/ Abort

\* Every probe ends by the timeout, and random draws find what can be drawn.
CfSpec == CfInit /\ [][CfNext]_cfVars /\ WF_cfVars(Step)

-----------------------------------------------------------------------------
(***************************************************************************)
(* Properties                                                              *)
(***************************************************************************)
Ranked == pc \in {"ipv6", "exit", "pushed", "rejected"}

\* The best are written, and at least one: in order, each address once, with its first
\* result, and none is left out that is better than one that is written, or while
\* there is room.
BestAreKept ==
  Ranked =>
    /\ results # <<>>
    /\ \A i, j \in DOMAIN results :
         i < j => results[i].ip # results[j].ip /\ ~Better(results[j], results[i])
    /\ Len(results) = Less(OutputCount, Cardinality(found))
    /\ Range(results) \subseteq found
    /\ \A f \in found \ Range(results) : \A i \in DOMAIN results : ~Better(f, results[i])

\* Every address that is written is a host of a priority range, or one of a range of
\* the API that is not blocked; neither its first nor its last address.
OnlyHostsOfRanges ==
  Ranked => \A i \in DOMAIN results :
    LET ip == results[i].ip
        HostOf(nets) == \E net \in nets :
          Contains4(net, ip) /\ (Size(net) > 2 => ip % Size(net) \notin {0, Size(net) - 1})
    IN  HostOf(PriorityRanges) \/ (HostOf(ranges.ipv4) /\ ~\E net \in BlockedRanges : Contains4(net, ip))

\* A scan comes to an end, if there are as many IPv6 addresses to draw as it wants.
CfScanEnds ==
  <>( \/ pc \in Ended
      \/ pc = "ipv6" /\ Cardinality(UNION {net.address .. (net.address + Size(net) - 1) : net \in ranges.ipv6}) < Ipv6Count)
=============================================================================
