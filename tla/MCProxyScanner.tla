--------------------------- MODULE MCProxyScanner ---------------------------
\* ProxyScanner for TLC: a list with a repeated address and another port, a domain
\* with one address of the list and one of its own.
EXTENDS ProxyScanner, TLC

MCLines == <<[ip |-> "a", port |-> 443], [ip |-> "b", port |-> 443],
             [ip |-> "a", port |-> 443], [ip |-> "c", port |-> 8443]>>
MCDomains == << <<"b", "c">> >>
MCIsp == [ip \in Ips |-> IF ip = "a" THEN {"OVH"} ELSE {}]
MCClip == "DE" :> "DE" @@ "DEU" :> "DE" @@ "US" :> "US" @@ "wide" :> Split
=============================================================================
