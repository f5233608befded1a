----------------------------- MODULE AntiReplay -----------------------------
(***************************************************************************)
(* What a WireGuard session promises about the counters of the data        *)
(* packets it receives, whatever the data structure behind it: a counter   *)
(* is judged fresh when it was never accepted and is at most `Window'      *)
(* behind the next expected one, a fresh counter is accepted, and any      *)
(* other is refused.  ReplayWindow (the bitmap of noise/session.rs)        *)
(* implements this.                                                        *)
(***************************************************************************)
EXTENDS Naturals

CONSTANTS
  Window,      \* how far behind the next expected counter a packet may be
  MaxCounter   \* bound: the largest counter an authentic packet carries

VARIABLES
  accepted,    \* the counters accepted so far
  next,        \* one more than the largest counter accepted
  verdict      \* the answer to the last packet that was judged

vars == <<accepted, next, verdict>>

Counters == 0..MaxCounter

Fresh(c) == c \notin accepted /\ c + Window >= next

Init ==
  /\ accepted = {}
  /\ next = 0
  /\ verdict = [counter |-> 0, ok |-> FALSE]

Accept(c) ==
  /\ Fresh(c)
  /\ accepted' = accepted \union {c}
  /\ next' = IF c >= next THEN c + 1 ELSE next
  /\ verdict' = [counter |-> c, ok |-> TRUE]

Refuse(c) ==
  /\ ~Fresh(c)
  /\ verdict' = [counter |-> c, ok |-> FALSE]
  /\ UNCHANGED <<accepted, next>>

Next == \E c \in Counters : Accept(c) \/ Refuse(c)

Spec == Init /\ [][Next]_vars
=============================================================================
