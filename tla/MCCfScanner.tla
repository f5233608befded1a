---------------------------- MODULE MCCfScanner ----------------------------
\* CfScanner for TLC, with addresses of four bits.
EXTENDS CfScanner

Net(address, prefix) == [address |-> address, prefix |-> prefix]

MCPriority == {Net(4, 2), Net(8, 2), Net(14, 3)}
MCBlocked == {Net(0, 3), Net(6, 3)}
MCDefaultIpv6 == {Net(8, 3)}
MCApi == {[ipv4 |-> {Net(0, 2), Net(6, 3)}, ipv6 |-> {Net(0, 4), Net(8, 4)}],
          [ipv4 |-> {Net(0, 2)}, ipv6 |-> {Net(3, 4)}],
          [ipv4 |-> {}, ipv6 |-> {}]}
=============================================================================
