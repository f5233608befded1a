-------------------------- MODULE EventPollProofs --------------------------
(***************************************************************************)
(* Proofs about the registry of events, for any numbers of workers,        *)
(* descriptors and events.  The three properties follow from one inductive *)
(* invariant.  Its heart is GuardsDisarmed: the entry of an event in a     *)
(* worker's hand stays in the kernel's list, one-shot and spent, until     *)
(* that worker arms it or removes it, so that neither a second worker nor  *)
(* a second socket can come by it; AloneInside covers the one place where  *)
(* an event is freed that is not in the hand of the worker that frees it.  *)
(***************************************************************************)
EXTENDS EventPoll, TLAPS

(***************************************************************************)
(* The inductive invariant                                                 *)
(***************************************************************************)
Places == {"wait", "out", "run", "eof", "act", "insert", "add", "done", "rearm",
           "cancel", "upgrade", "write", "clear", "bind"}

TypeOK ==
  /\ events \in [Fds -> Ids \union {None}]
  /\ event \in [Ids -> Fds \union {None}]
  /\ lock \in Workers \union {Nobody}
  /\ interest \in [Fds -> [id : Ids \union {None}, armed : BOOLEAN]]
  /\ notice \in BOOLEAN
  /\ file \in [Fds -> {"open", "shut", "closed"}]
  /\ kind \in [Fds -> {"listen", "conn", "other"}]
  /\ held \in [Fds -> BOOLEAN]
  /\ readable \in [Fds -> BOOLEAN]
  /\ hand \in [Workers -> [at : Places, id : Ids \union {None}, fd : Socks \union {None}]]
  /\ upgrading \in BOOLEAN

\* The two directions of the table agree, and the events that are never removed
\* have their own numbers.
TableAgrees ==
  /\ \A fd \in Fds : events[fd] # None => event[events[fd]] = fd
  /\ \A id \in Ids : event[id] # None => events[event[id]] = id
  /\ \A fd \in {Api, Timer} : events[fd] = fd /\ file[fd] = "open"

\* What a worker has in hand where it is.
HandsFit ==
  \A t \in Workers :
    /\ At(t, "wait") => hand[t] = Waiting
    /\ At(t, "out") => hand[t] = Out
    /\ hand[t].at \notin {"wait", "out", "cancel"} => hand[t].id # None
    /\ At(t, "cancel") => hand[t].id = None
    /\ hand[t].at \in {"insert", "add", "cancel", "clear"} <=> hand[t].fd # None
    /\ hand[t].at \in {"upgrade", "write", "clear", "bind"} => hand[t].id = Api

\* A worker is alone in the loop from the upgrade to the return of the command.
Exclusive(t) ==
  /\ hand[t].id = Api
  /\ \/ hand[t].at \in {"write", "clear", "bind", "insert", "add"}
     \/ At(t, "done") /\ upgrading

AloneInside ==
  \A t \in Workers :
    /\ At(t, "upgrade") => upgrading
    /\ Exclusive(t) => upgrading /\ \A u \in Workers \ {t} : hand[u] = Out

LockFits == \A t \in Workers : hand[t].at \in {"cancel", "clear"} => lock = t

\* A guard's event is alive, registered and disarmed: no one else can get it.
GuardsDisarmed ==
  \A t \in Workers : HasGuard(t) =>
    /\ event[hand[t].id] # None
    /\ interest[event[hand[t].id]].id = hand[t].id /\ ~interest[event[hand[t].id]].armed
    /\ At(t, "eof") => file[event[hand[t].id]] = "shut"

GuardsDiffer ==
  \A t, u \in Workers : HasGuard(t) /\ t # u => hand[u].id # hand[t].id

\* The kernel points to the table's event, but for the socket that is being cleared.
Pointers ==
  \A fd \in Fds :
    /\ interest[fd].id = None => interest[fd] = Unregistered
    /\ \/ interest[fd].id \in {None, events[fd]}
       \/ \E t \in Workers : At(t, "clear") /\ hand[t].fd = fd

\* A worker that registers a socket is the only one to have it.
Fresh ==
  \A t \in Workers :
    /\ At(t, "insert") => events[hand[t].fd] = None
    /\ At(t, "add") => events[hand[t].fd] # None
    /\ hand[t].at \in {"insert", "add"} =>
         /\ interest[hand[t].fd] = Unregistered
         /\ file[hand[t].fd] # "closed"
         /\ \A u \in Workers \ {t} : hand[u].at \in {"insert", "add"} => hand[u].fd # hand[t].fd
    /\ hand[t].at \in {"cancel", "clear"} => events[hand[t].fd] = None

\* A socket that was closed has no event and is not in the kernel's list; one that
\* was shut down is not the device's any more.
Sockets ==
  \A fd \in Fds :
    /\ file[fd] = "closed" => events[fd] = None /\ interest[fd] = Unregistered
    /\ file[fd] # "open" => ~held[fd]

IInv ==
  /\ TypeOK /\ TableAgrees /\ HandsFit /\ AloneInside /\ LockFits
  /\ GuardsDisarmed /\ GuardsDiffer /\ Pointers /\ Fresh /\ Sockets

-----------------------------------------------------------------------------
(***************************************************************************)
(* Facts about the data                                                    *)
(***************************************************************************)
\* The numbers of events and descriptors, and the marks, are apart.
LEMMA IdsDiffer ==
  /\ None \notin Ids /\ None \notin Fds
  /\ Api \in Ids /\ Api \in Fds /\ Timer \in Ids /\ Timer \in Fds
  /\ Api \notin SockIds /\ Timer \notin SockIds /\ Api \notin Socks /\ Timer \notin Socks
  /\ SockIds \subseteq Ids /\ Socks \subseteq Fds /\ 1 \in Socks /\ 1 \in SockIds
BY PollAssumption DEF None, Api, Timer, Ids, Fds, SockIds, Socks

\* Where a worker can be, with what in hand.
Hands == [at : Places, id : Ids \union {None}, fd : Socks \union {None}]

\* A worker that moves on has again a hand of the type.
LEMMA HandTyped ==
  ASSUME TypeOK, NEW t \in Workers,
         NEW at \in Places, NEW id \in Ids \union {None}, NEW fd \in Socks \union {None},
         hand' = [hand EXCEPT ![t] = [at |-> at, id |-> id, fd |-> fd]]
  PROVE  hand' \in [Workers -> Hands]
<1>1. [at |-> at, id |-> id, fd |-> fd] \in Hands
  BY DEF Hands
<1>2. hand \in [Workers -> Hands]
  BY DEF TypeOK, Hands
<1> HIDE DEF Hands
<1> QED
  BY <1>1, <1>2

-----------------------------------------------------------------------------
(***************************************************************************)
(* The invariant holds at first, and each step keeps it.                   *)
(***************************************************************************)
\* At first the device has the events of one socket, the control socket and a timer.
LEMMA InitIInv == Init => IInv
<1> SUFFICES ASSUME Init PROVE IInv
  OBVIOUS
<1>1. \A fd \in Fds : fd <= 1 => fd \in Ids
  BY PollAssumption DEF Fds, Ids, Socks, SockIds, Api, Timer
<1>2. \A id \in Ids : id <= 1 => id \in Fds
  BY PollAssumption DEF Fds, Ids, Socks, SockIds, Api, Timer
<1>3. TypeOK
  <2>1. hand \in [Workers -> Hands]
    BY DEF Init, Hands, Waiting, Hand, Places
  <2>2. \A fd \in Fds : IF fd <= 1 THEN Armed(fd) \in [id : Ids \union {None}, armed : BOOLEAN]
                                   ELSE Unregistered \in [id : Ids \union {None}, armed : BOOLEAN]
    BY <1>1 DEF Armed, Unregistered
  <2>3. interest \in [Fds -> [id : Ids \union {None}, armed : BOOLEAN]]
    BY <2>2 DEF Init
  <2>4. events \in [Fds -> Ids \union {None}] /\ event \in [Ids -> Fds \union {None}]
    BY <1>1, <1>2 DEF Init
  <2> QED
    BY <2>1, <2>3, <2>4 DEF Init, TypeOK, Hands
<1>4. TableAgrees
  <2>1. \A fd \in Fds : events[fd] # None => fd <= 1 /\ events[fd] = fd
    BY DEF Init
  <2>2. \A id \in Ids : event[id] # None => id <= 1 /\ event[id] = id
    BY DEF Init
  <2>3. \A fd \in {Api, Timer} : events[fd] = fd /\ file[fd] = "open"
    BY IdsDiffer DEF Init, Api, Timer
  <2> QED
    BY <1>1, <1>2, <2>1, <2>2, <2>3 DEF Init, TableAgrees
<1>5. HandsFit /\ AloneInside /\ LockFits /\ GuardsDisarmed /\ GuardsDiffer
  BY DEF Init, HandsFit, AloneInside, LockFits, GuardsDisarmed, GuardsDiffer, Exclusive,
     HasGuard, At, Waiting, Out, Hand, None, Api
<1>6. Pointers
  <2> SUFFICES ASSUME NEW fd \in Fds
               PROVE  /\ interest[fd].id = None => interest[fd] = Unregistered
                      /\ interest[fd].id \in {None, events[fd]}
    BY DEF Pointers
  <2>1. CASE fd <= 1
    BY <2>1, IdsDiffer DEF Init, Armed
  <2>2. CASE ~(fd <= 1)
    BY <2>2 DEF Init, Unregistered
  <2> QED
    BY <2>1, <2>2
<1>7. Fresh
  BY DEF Init, Fresh, At, Waiting, Hand
<1>8. Sockets
  <2>1. \A fd \in Fds : file[fd] # "open" => events[fd] = None /\ interest[fd] = Unregistered /\ ~(fd <= 1)
    BY DEF Init
  <2>2. \A fd \in Fds : held[fd] <=> fd = 1
    BY Zenon DEF Init
  <2> QED
    BY <2>1, <2>2 DEF Sockets
<1> QED
  BY <1>3, <1>4, <1>5, <1>6, <1>7, <1>8 DEF IInv

\* Something arrives: only what there is to read changes.
LEMMA ArriveIInv ==
  ASSUME IInv, NEW fd \in Fds, Arrive(fd)
  PROVE  IInv'
<1>1. TypeOK'
  BY DEF IInv, TypeOK, Arrive, tables
<1>2. TableAgrees' /\ Pointers' /\ Sockets'
  BY DEF IInv, TableAgrees, Pointers, Sockets, Arrive, tables, At
<1>3. HandsFit' /\ AloneInside' /\ LockFits'
  BY DEF IInv, HandsFit, AloneInside, LockFits, Arrive, tables, At, Exclusive
<1>4. GuardsDisarmed' /\ GuardsDiffer'
  BY DEF IInv, GuardsDisarmed, GuardsDiffer, Arrive, tables, At, HasGuard
<1>5. Fresh'
  BY DEF IInv, Fresh, Arrive, tables, At, None
<1> QED
  BY <1>1, <1>2, <1>3, <1>4, <1>5 DEF IInv

\* The entry that is taken was armed: no worker has its event.
LEMMA WaitIInv ==
  ASSUME IInv, NEW t \in Workers, NEW fd \in Fds, Wait(t, fd)
  PROVE  IInv'
<1>1. TypeOK' /\ GuardsDisarmed'
  <2> DEFINE at == IF file[fd] = "shut" THEN "eof" ELSE "run"
             id == interest[fd].id
  <2>1. id \in Ids \union {None} /\ at \in Places
    BY DEF IInv, TypeOK, Places
  <2>2. hand' = [hand EXCEPT ![t] = [at |-> at, id |-> id, fd |-> None]]
    BY DEF Wait, Go, Hand
  <2>3. hand' \in [Workers -> Hands]
    BY <2>1, <2>2, HandTyped DEF IInv
  <2>4. interest' \in [Fds -> [id : Ids \union {None}, armed : BOOLEAN]]
    <3>1. [interest[fd] EXCEPT !.armed = FALSE] \in [id : Ids \union {None}, armed : BOOLEAN]
      <4>1. interest[fd] \in [id : Ids \union {None}, armed : BOOLEAN]
        BY DEF IInv, TypeOK
      <4> HIDE DEF id
      <4> QED
        BY <4>1, Zenon
    <3> QED
      BY <3>1 DEF Wait, IInv, TypeOK
  <2>5. TypeOK'
    BY <2>3, <2>4 DEF IInv, TypeOK, Hands, Wait, files
  <2>6. id = events[fd] /\ id # None /\ event[id] = fd /\ interest[fd].armed
    BY DEF Wait, IInv, Pointers, HandsFit, AloneInside, Exclusive, At, Waiting, Out, Hand,
       TableAgrees, Unregistered
  <2>7. ASSUME NEW u \in Workers \ {t}, HasGuard(u)
        PROVE  event[hand[u].id] # fd
    BY <2>6, <2>7 DEF IInv, GuardsDisarmed
  <2>8. GuardsDisarmed'
    <3> SUFFICES ASSUME NEW u \in Workers, HasGuard(u)'
                 PROVE  /\ event[hand'[u].id] # None
                        /\ interest'[event[hand'[u].id]].id = hand'[u].id
                        /\ ~interest'[event[hand'[u].id]].armed
                        /\ hand'[u].at = "eof" => file[event[hand'[u].id]] = "shut"
      BY DEF GuardsDisarmed, At, Wait, files
    <3>1. CASE u = t
      <4>1. hand'[t] = [at |-> at, id |-> id, fd |-> None]
        BY <2>2 DEF IInv, TypeOK
      <4>2. interest'[fd].id = id /\ ~interest'[fd].armed
        BY DEF Wait, IInv, TypeOK
      <4> QED
        BY <3>1, <4>1, <4>2, <2>6, IdsDiffer
    <3>2. CASE u # t
      <4>1. hand'[u] = hand[u]
        BY <2>2, <3>2 DEF IInv, TypeOK
      <4>2. HasGuard(u) /\ event[hand[u].id] # fd
        BY <3>2, <4>1, <2>7 DEF HasGuard
      <4>3. event[hand[u].id] # None /\ event[hand[u].id] \in Fds
        BY <4>2 DEF IInv, GuardsDisarmed, TypeOK, HasGuard
      <4>4. interest'[event[hand[u].id]] = interest[event[hand[u].id]]
        BY <4>2, <4>3 DEF Wait, IInv, TypeOK
      <4> QED
        BY <4>1, <4>2, <4>4 DEF IInv, GuardsDisarmed, At
    <3> QED
      BY <3>1, <3>2
  <2> QED
    BY <2>5, <2>8
<1>2. /\ \A f \in Fds : f # fd => interest'[f] = interest[f]
      /\ interest'[fd].id = interest[fd].id /\ interest[fd] # Unregistered
  BY DEF Wait, Unregistered, IInv, TypeOK
<1>3. HandsFit' /\ AloneInside' /\ LockFits'
  BY IdsDiffer DEF IInv, TypeOK, HandsFit, AloneInside, LockFits, Pointers, Unregistered,
       Exclusive, Wait, files, Go, Hand, At, Waiting, Out
<1>4. GuardsDiffer'
  BY DEF IInv, TypeOK, GuardsDiffer, GuardsDisarmed, HasGuard, TableAgrees, Pointers,
       HandsFit, AloneInside, Exclusive, Wait, files, Go, Hand, At, Waiting, Out,
       Unregistered
<1>5. TableAgrees' /\ Pointers' /\ Sockets'
  <2>1. TableAgrees' /\ Sockets'
    BY <1>2 DEF IInv, TableAgrees, Sockets, Wait, files
  <2>2. interest[fd].id # None
    BY <1>2 DEF IInv, Pointers
  <2>3. Pointers'
    BY <1>2, <2>2 DEF IInv, TypeOK, Pointers, At, Wait, Go, Hand
  <2> QED
    BY <2>1, <2>3
<1>6. Fresh'
  <2>1. ASSUME NEW u \in Workers, hand[u].at \in {"insert", "add"}
        PROVE  interest'[hand[u].fd] = interest[hand[u].fd]
    <3>1. hand[u].fd \in Fds
      BY <2>1, IdsDiffer DEF IInv, TypeOK, HandsFit
    <3>2. hand[u].fd # fd
      BY <1>2, <2>1 DEF IInv, Fresh
    <3> QED
      BY <1>2, <3>1, <3>2
  <2>2. ASSUME NEW u \in Workers
        PROVE  hand'[u] = hand[u] \/ hand'[u].at \in {"eof", "run"}
    BY DEF IInv, TypeOK, Wait, Go, Hand
  <2> QED
    BY <2>1, <2>2 DEF IInv, Fresh, At, Wait, files
<1> QED
  BY <1>1, <1>3, <1>4, <1>5, <1>6 DEF IInv

\* A waiting worker leaves the loop.
LEMMA YieldIInv ==
  ASSUME IInv, NEW t \in Workers, Yield(t)
  PROVE  IInv'
<1>1. TypeOK'
  BY DEF IInv, TypeOK, Yield, tables, files, Hand, Out, Places
<1>2. TableAgrees' /\ Pointers' /\ Sockets'
  BY DEF IInv, TableAgrees, Pointers, Sockets, Yield, tables, files, At
<1>3. HandsFit' /\ AloneInside' /\ LockFits'
  BY DEF IInv, HandsFit, AloneInside, LockFits, Yield, tables, Hand, Out, At, Exclusive
<1>4. GuardsDisarmed' /\ GuardsDiffer'
  BY DEF IInv, GuardsDisarmed, GuardsDiffer, Yield, tables, files, Hand, Out, At, HasGuard
<1>5. Fresh'
  BY DEF IInv, Fresh, Yield, tables, files, Hand, Out, At, None
<1> QED
  BY <1>1, <1>2, <1>3, <1>4, <1>5 DEF IInv

\* A worker enters the loop again, when no one is alone in it.
LEMMA ReenterIInv ==
  ASSUME IInv, NEW t \in Workers, Reenter(t)
  PROVE  IInv'
<1>1. TypeOK'
  BY DEF IInv, TypeOK, Reenter, tables, files, Hand, Waiting, Places
<1>2. TableAgrees' /\ Pointers' /\ Sockets'
  BY DEF IInv, TableAgrees, Pointers, Sockets, Reenter, tables, files, At
<1>3. HandsFit' /\ AloneInside' /\ LockFits'
  BY DEF IInv, HandsFit, AloneInside, LockFits, Reenter, tables, Hand, Waiting, At,
       Exclusive
<1>4. GuardsDisarmed' /\ GuardsDiffer'
  BY DEF IInv, GuardsDisarmed, GuardsDiffer, Reenter, tables, files, Hand, Waiting, At,
       HasGuard
<1>5. Fresh'
  BY DEF IInv, Fresh, Reenter, tables, files, Hand, Waiting, At, None
<1> QED
  BY <1>1, <1>2, <1>3, <1>4, <1>5 DEF IInv

\* The handler has run.
LEMMA ReadIInv ==
  ASSUME IInv, NEW t \in Workers, Read(t)
  PROVE  IInv'
<1>1. TypeOK' /\ GuardsDisarmed'
  <2>1. hand[t].id \in Ids \union {None}
    BY DEF IInv, TypeOK
  <2>2. hand' = [hand EXCEPT ![t] = [at |-> "act", id |-> hand[t].id, fd |-> None]]
    BY DEF Read, Go, Hand
  <2>3. hand' \in [Workers -> Hands]
    BY <2>1, <2>2, HandTyped DEF IInv, Places
  <2>4. readable' \in [Fds -> BOOLEAN]
    BY DEF Read, IInv, TypeOK
  <2>5. TypeOK'
    BY <2>3, <2>4 DEF IInv, TypeOK, Hands, Read, tables
  <2>6. GuardsDisarmed'
    BY <2>2 DEF IInv, TypeOK, GuardsDisarmed, HasGuard, At, Read, tables
  <2> QED
    BY <2>5, <2>6
<1>2. TableAgrees' /\ Pointers' /\ Sockets'
  BY DEF IInv, TypeOK, TableAgrees, Pointers, Sockets, Read, tables, Go, Hand, At
<1>3. HandsFit' /\ AloneInside' /\ LockFits'
  BY DEF IInv, TypeOK, HandsFit, AloneInside, LockFits, Exclusive, Read, tables, Go, Hand,
       At, Waiting, Out
<1>4. GuardsDiffer'
  BY DEF IInv, TypeOK, GuardsDiffer, HasGuard, Read, Go, Hand, At
<1>5. Fresh'
  BY DEF IInv, TypeOK, Fresh, Read, tables, Go, Hand, At
<1> QED
  BY <1>1, <1>2, <1>3, <1>4, <1>5 DEF IInv

\* A new socket, whose descriptor was closed, is in one hand only.
LEMMA ConnectIInv ==
  ASSUME IInv, NEW t \in Workers, NEW fd \in Socks, Connect(t, fd)
  PROVE  IInv'
<1>1. TypeOK'
  BY DEF IInv, TypeOK, Connect, Open, tables, Hand, Go, Places
<1>2. TableAgrees' /\ Pointers' /\ Sockets'
  BY DEF IInv, TypeOK, TableAgrees, Pointers, Sockets, Connect, Open, tables, Go, At
<1>3. HandsFit' /\ AloneInside' /\ LockFits'
  BY IdsDiffer DEF IInv, HandsFit, AloneInside, LockFits, Connect, Open, Serves, tables,
       Hand, Out, Go, At, Exclusive
<1>4. GuardsDisarmed' /\ GuardsDiffer'
  BY DEF IInv, GuardsDisarmed, GuardsDiffer, Connect, Open, tables, Hand, Go, At, HasGuard
<1>5. Fresh'
  BY DEF IInv, TypeOK, Fresh, Sockets, Connect, Open, tables, Hand, Go, At, Fds, Socks, None
<1> QED
  BY <1>1, <1>2, <1>3, <1>4, <1>5 DEF IInv

\* A socket that is shut down is closed only when nothing refers to it.
LEMMA shutdown_endpointIInv ==
  ASSUME IInv, NEW t \in Workers, NEW fd \in Socks, shutdown_endpoint(t, fd)
  PROVE  IInv'
<1>1. TypeOK'
  BY DEF IInv, TypeOK, shutdown_endpoint, tables
<1>2. TableAgrees' /\ Pointers' /\ Sockets'
  BY IdsDiffer DEF IInv, TypeOK, TableAgrees, HandsFit, AloneInside, Pointers, Sockets,
       shutdown_endpoint, Referred, tables, Hand, Out, At, Exclusive
<1>3. HandsFit' /\ AloneInside' /\ LockFits'
  BY DEF IInv, HandsFit, AloneInside, LockFits, shutdown_endpoint, tables, At, Exclusive
<1>4. GuardsDisarmed' /\ GuardsDiffer'
  BY DEF IInv, TypeOK, TableAgrees, GuardsDisarmed, GuardsDiffer, shutdown_endpoint,
       Referred, tables, At, HasGuard
<1>5. Fresh'
  BY DEF IInv, Fresh, shutdown_endpoint, Referred, tables, At, None
<1> QED
  BY <1>1, <1>2, <1>3, <1>4, <1>5 DEF IInv

\* The new event was nowhere, and the descriptor has none.
LEMMA insert_atIInv ==
  ASSUME IInv, NEW t \in Workers, NEW id \in SockIds, insert_at(t, id)
  PROVE  IInv'
<1>1. GuardsDisarmed'
  <2> DEFINE fd == hand[t].fd
  <2>1. events[fd] = None /\ event[id] = None /\ id # None
    BY IdsDiffer DEF insert_at, IInv, Fresh, At, InSight
  <2>2. /\ \A u \in Workers : hand'[u].id = hand[u].id /\ (hand'[u].at = "eof" => hand[u].at = "eof")
        /\ interest' = interest /\ file' = file
    BY <2>1 DEF insert_at, IInv, TypeOK, Go, Hand, files
  <2>3. \A i \in Ids : i # id => event'[i] = event[i]
    BY <2>1, IdsDiffer DEF insert_at
  <2>4. \A u \in Workers : hand[u].id \in Ids \union {None} /\ hand[u].id # id
    BY DEF insert_at, InSight, IInv, TypeOK
  <2> QED
    BY <2>2, <2>3, <2>4 DEF IInv, GuardsDisarmed, HasGuard, At
<1>2. TypeOK'
  BY DEF IInv, TypeOK, insert_at, files, Hand, Go, Unregistered, Fds, Ids, Places
<1>3. TableAgrees'
  BY IdsDiffer DEF IInv, TypeOK, TableAgrees, HandsFit, insert_at, InSight, files, At
<1>4. Pointers'
  BY DEF IInv, HandsFit, Pointers, Fresh, insert_at, Go, At, None
<1>5. Sockets'
  BY DEF IInv, Fresh, Sockets, insert_at, files, At, None
<1>6. HandsFit' /\ AloneInside' /\ LockFits'
  BY DEF IInv, HandsFit, AloneInside, LockFits, insert_at, Hand, Out, Go, At, Exclusive
<1>7. GuardsDiffer'
  BY DEF IInv, GuardsDiffer, insert_at, Hand, Go, HasGuard
<1>8. Fresh'
  BY NobodyAssumption DEF IInv, TypeOK, HandsFit, LockFits, Fresh, insert_at, files, Hand,
       Go, At, Fds, SockIds, None
<1> QED
  BY <1>1, <1>2, <1>3, <1>4, <1>5, <1>6, <1>7, <1>8 DEF IInv

\* A socket is registered under the event that the table has for it.
LEMMA register_eventIInv ==
  ASSUME IInv, NEW t \in Workers, register_event(t)
  PROVE  IInv'
<1>1. Fresh'
  <2> DEFINE fd == hand[t].fd
  <2>1. hand[t].at = "add" /\ hand' = [hand EXCEPT ![t] = [at |-> "done", id |-> hand[t].id, fd |-> None]]
    BY DEF register_event, Go, Hand, At
  <2>2. /\ interest' = [interest EXCEPT ![fd] = Armed(events[fd])]
        /\ events' = events /\ file' = file
    BY DEF register_event, files
  <2>3. hand'[t].at = "done"
    BY <2>1 DEF IInv, TypeOK
  <2>4. ASSUME NEW u \in Workers, u # t
        PROVE  /\ hand'[u] = hand[u]
               /\ hand[u].at \in {"insert", "add"} => hand[u].fd # fd /\ interest'[hand[u].fd] = interest[hand[u].fd]
    BY <2>1, <2>2, <2>4 DEF IInv, Fresh, TypeOK
  <2> QED
    BY <2>2, <2>3, <2>4 DEF IInv, Fresh, At
<1>2. TypeOK'
  BY DEF IInv, TypeOK, register_event, files, Hand, Go, Armed, Places
<1>3. TableAgrees'
  BY DEF IInv, TableAgrees, register_event, files
<1>4. Pointers'
  BY DEF IInv, TypeOK, Pointers, Fresh, register_event, Go, At, Armed
<1>5. Sockets'
  BY DEF IInv, Fresh, Sockets, register_event, files
<1>6. HandsFit' /\ AloneInside' /\ LockFits'
  BY DEF IInv, HandsFit, AloneInside, LockFits, register_event, Hand, Out, Go, At, Exclusive
<1>7. GuardsDisarmed' /\ GuardsDiffer'
  BY DEF IInv, GuardsDisarmed, GuardsDiffer, register_event, files, Hand, Go, At, HasGuard,
       Unregistered
<1> QED
  BY <1>1, <1>2, <1>3, <1>4, <1>5, <1>6, <1>7 DEF IInv

\* The handler is done.
LEMMA DropReadIInv ==
  ASSUME IInv, NEW t \in Workers, DropRead(t)
  PROVE  IInv'
<1>1. TypeOK'
  BY DEF IInv, TypeOK, DropRead, tables, Hand, Go, Places
<1>2. TableAgrees' /\ Pointers' /\ Sockets'
  BY DEF IInv, TableAgrees, Pointers, Sockets, DropRead, tables, Go, At
<1>3. HandsFit' /\ AloneInside' /\ LockFits'
  BY DEF IInv, HandsFit, AloneInside, LockFits, DropRead, tables, Hand, Out, Go, At,
       Exclusive
<1>4. GuardsDisarmed' /\ GuardsDiffer'
  BY DEF IInv, GuardsDisarmed, GuardsDiffer, DropRead, tables, Hand, Go, At, HasGuard
<1>5. Fresh'
  BY DEF IInv, Fresh, DropRead, tables, Hand, Go, At, None
<1> QED
  BY <1>1, <1>2, <1>3, <1>4, <1>5 DEF IInv

\* The event is armed by the worker that had it.
LEMMA DropRearmIInv ==
  ASSUME IInv, NEW t \in Workers, DropRearm(t)
  PROVE  IInv'
<1>1. TypeOK'
  <2> DEFINE id == hand[t].id
             fd == event[id]
  <2>1. id \in Ids \union {None} /\ id # None
    BY DEF IInv, TypeOK, HandsFit, DropRearm, At
  <2>2. hand' \in [Workers -> Hands]
    BY HandTyped DEF IInv, Places, DropRearm, Waiting, Hand
  <2>3. [id |-> id, armed |-> TRUE] \in [id : Ids \union {None}, armed : BOOLEAN]
    BY <2>1
  <2>4. interest' = interest \/ interest' = [interest EXCEPT ![fd] = [id |-> id, armed |-> TRUE]]
    BY DEF DropRearm, Armed
  <2>5. interest' \in [Fds -> [id : Ids \union {None}, armed : BOOLEAN]]
    BY <2>3, <2>4 DEF IInv, TypeOK
  <2> QED
    BY <2>2, <2>5 DEF IInv, TypeOK, Hands, DropRearm, files
<1>2. TableAgrees' /\ Pointers' /\ Sockets'
  BY DEF IInv, TypeOK, TableAgrees, HandsFit, Pointers, Sockets, DropRearm, files, At,
       Armed, Fds, Socks, None
<1>3. HandsFit' /\ AloneInside' /\ LockFits'
  BY DEF IInv, HandsFit, AloneInside, LockFits, DropRearm, Hand, Waiting, Out, At, Exclusive
<1>4. GuardsDisarmed' /\ GuardsDiffer'
  BY DEF IInv, TypeOK, HandsFit, GuardsDisarmed, GuardsDiffer, DropRearm, files, Hand,
       Waiting, At, HasGuard
<1>5. Fresh'
  BY DEF IInv, Fresh, DropRearm, files, Hand, Waiting, At, None
<1> QED
  BY <1>1, <1>2, <1>3, <1>4, <1>5 DEF IInv

\* The event that is freed is in this worker's hand, and nobody else's.
LEMMA CancelFreeIInv ==
  ASSUME IInv, NEW t \in Workers, CancelFree(t)
  PROVE  IInv'
<1> DEFINE id == hand[t].id
           fd == event[id]
<1>1. /\ hand[t].at = "eof" /\ lock = Nobody /\ lock' = t
      /\ hand' = [hand EXCEPT ![t] = [at |-> "cancel", id |-> None, fd |-> fd]]
      /\ id \in Ids /\ id # None
  BY IdsDiffer DEF CancelFree, Go, Hand, At, IInv, HandsFit, TypeOK
<1>2. /\ interest[fd].id = id /\ file[fd] = "shut" /\ events[fd] = id
      /\ fd \in Fds
  BY <1>1 DEF IInv, GuardsDisarmed, TableAgrees, HasGuard, At, TypeOK
<1>3. fd \in Socks /\ ~held[fd]
  BY <1>2 DEF IInv, TableAgrees, Sockets, Fds
<1>4. /\ file' = [file EXCEPT ![fd] = "closed"]
      /\ interest' = [interest EXCEPT ![fd] = Unregistered]
      /\ events' = [events EXCEPT ![fd] = None]
      /\ event' = [i \in Ids |-> IF i = id THEN None ELSE event[i]]
  BY <1>2, <1>3 DEF CancelFree, Drop, IInv, TypeOK
<1>5. readable' \in [Fds -> BOOLEAN] /\ notice' = notice /\ kind' = kind /\ held' = held /\ upgrading' = upgrading
  BY <1>3 DEF CancelFree, IInv, TypeOK
<1>6. hand'[t] = [at |-> "cancel", id |-> None, fd |-> fd] /\ \A u \in Workers : u # t => hand'[u] = hand[u]
  BY <1>1 DEF IInv, TypeOK
<1>7. id \in SockIds
  BY <1>1, <1>2, <1>3, IdsDiffer DEF IInv, TableAgrees, Ids
<1>8. TypeOK'
  <2>1. hand' \in [Workers -> Hands]
    BY <1>1, <1>3, HandTyped DEF IInv, Places
  <2>2. Unregistered \in [id : Ids \union {None}, armed : BOOLEAN]
    BY DEF Unregistered
  <2>3. interest' \in [Fds -> [id : Ids \union {None}, armed : BOOLEAN]]
    BY <1>4, <2>2 DEF IInv, TypeOK
  <2>4. file' \in [Fds -> {"open", "shut", "closed"}] /\ events' \in [Fds -> Ids \union {None}] /\ event' \in [Ids -> Fds \union {None}]
    BY <1>4 DEF IInv, TypeOK
  <2> QED
    BY <1>1, <1>5, <2>1, <2>3, <2>4 DEF IInv, TypeOK, Hands
<1>9. TableAgrees'
  BY <1>2, <1>3, <1>4, IdsDiffer DEF IInv, TableAgrees, TypeOK
<1>10. HandsFit' /\ LockFits' /\ GuardsDiffer'
  <2>1. HandsFit'
    BY <1>3, <1>6, IdsDiffer DEF IInv, HandsFit, At, Waiting, Out, Hand
  <2>2. LockFits'
    BY <1>1, <1>6, NobodyAssumption DEF IInv, LockFits, At
  <2>3. GuardsDiffer'
    BY <1>1, <1>6 DEF IInv, GuardsDiffer, HasGuard
  <2> QED
    BY <2>1, <2>2, <2>3
<1>11. AloneInside'
  BY <1>1, <1>5, <1>6 DEF IInv, AloneInside, Exclusive, At, Out, Hand
<1>12. GuardsDisarmed'
  <2>1. ASSUME NEW u \in Workers, HasGuard(u)'
        PROVE  /\ hand'[u] = hand[u] /\ hand[u].id \in Ids /\ hand[u].id # id /\ HasGuard(u)
               /\ event'[hand[u].id] = event[hand[u].id] /\ event[hand[u].id] \in Fds \ {fd}
    <3>1. u # t /\ hand'[u] = hand[u] /\ HasGuard(u)
      BY <1>6, <2>1 DEF HasGuard
    <3>2. hand[u].id \in Ids /\ hand[u].id # id
      BY <1>1, <3>1 DEF IInv, GuardsDiffer, HasGuard, TypeOK
    <3>3. event[hand[u].id] \in Fds \ {fd}
      BY <1>2, <3>1, <3>2 DEF IInv, GuardsDisarmed, TypeOK
    <3> QED
      BY <1>1, <1>4, <3>1, <3>2, <3>3
  <2> QED
    <3> SUFFICES ASSUME NEW u \in Workers, HasGuard(u)'
                 PROVE  /\ event'[hand[u].id] # None
                        /\ interest'[event[hand[u].id]] = interest[event[hand[u].id]]
                        /\ file'[event[hand[u].id]] = file[event[hand[u].id]]
      BY <2>1 DEF IInv, GuardsDisarmed, HasGuard, At
    <3> QED
      BY <1>4, <2>1, IdsDiffer DEF IInv, TypeOK
<1>13. Pointers'
  BY <1>1, <1>4, <1>6 DEF IInv, Pointers, At, TypeOK, Unregistered
<1>14. Fresh'
  <2>1. events'[fd] = None /\ hand'[t].at = "cancel" /\ hand'[t].fd = fd
    BY <1>2, <1>4, <1>6 DEF IInv, TypeOK
  <2>2. ASSUME NEW u \in Workers, u # t, hand[u].at \in {"insert", "add", "clear"}
        PROVE  /\ hand[u].fd # fd /\ hand[u].fd \in Fds
               /\ interest'[hand[u].fd] = interest[hand[u].fd]
               /\ file'[hand[u].fd] = file[hand[u].fd] /\ events'[hand[u].fd] = events[hand[u].fd]
    <3>1. hand[u].fd \in Fds
      BY <2>2, IdsDiffer DEF IInv, HandsFit, TypeOK
    <3>2. hand[u].fd # fd
      BY <1>1, <1>2, <2>2, IdsDiffer DEF IInv, Fresh, Unregistered, At
    <3> QED
      BY <1>4, <3>1, <3>2 DEF IInv, TypeOK
  <2>3. \A u \in Workers : u # t => hand[u].at # "cancel"
    BY <1>1, NobodyAssumption DEF IInv, LockFits
  <2> QED
    BY <1>6, <2>1, <2>2, <2>3 DEF IInv, Fresh, At
<1>15. Sockets'
  BY <1>3, <1>4, <1>5 DEF IInv, Sockets, TypeOK
<1> QED
  BY <1>8, <1>9, <1>10, <1>11, <1>12, <1>13, <1>14, <1>15 DEF IInv

\* The descriptor was out of the kernel's list already, and is not registered again before.
LEMMA CancelDelIInv ==
  ASSUME IInv, NEW t \in Workers, CancelDel(t)
  PROVE  IInv'
<1>1. HandsFit'
  <2>1. hand' = [hand EXCEPT ![t] = Waiting]
    BY DEF CancelDel
  <2>2. hand'[t] = Waiting /\ \A u \in Workers : u # t => hand'[u] = hand[u]
    BY <2>1 DEF IInv, TypeOK
  <2> QED
    BY <2>2 DEF IInv, HandsFit, At, Waiting, Hand
<1>2. TypeOK'
  BY DEF IInv, TypeOK, CancelDel, files, Hand, Waiting, Unregistered, Places
<1>3. TableAgrees' /\ Pointers' /\ Sockets'
  BY DEF IInv, TableAgrees, Pointers, Sockets, CancelDel, files, At, Unregistered, None
<1>4. AloneInside'
  BY DEF IInv, AloneInside, CancelDel, Hand, Waiting, Out, At, Exclusive
<1>5. LockFits'
  BY DEF IInv, TypeOK, LockFits, CancelDel, Hand, Waiting, At
<1>6. GuardsDisarmed' /\ GuardsDiffer'
  BY DEF IInv, TypeOK, TableAgrees, GuardsDisarmed, GuardsDiffer, Fresh, CancelDel, files,
       Hand, Waiting, At, HasGuard
<1>7. Fresh'
  BY DEF IInv, Fresh, CancelDel, files, Hand, Waiting, At, None
<1> QED
  BY <1>1, <1>2, <1>3, <1>4, <1>5, <1>6, <1>7 DEF IInv

\* A command claims the device: no other worker has its event.
LEMMA ClaimIInv ==
  ASSUME IInv, NEW t \in Workers, Claim(t)
  PROVE  IInv'
<1>1. TypeOK'
  BY DEF IInv, TypeOK, Claim, tables, files, Hand, Go, Places
<1>2. TableAgrees' /\ Pointers' /\ Sockets'
  BY DEF IInv, TableAgrees, Pointers, Sockets, Claim, tables, files, Go, At
<1>3. HandsFit' /\ AloneInside' /\ LockFits'
  BY DEF IInv, HandsFit, AloneInside, LockFits, GuardsDiffer, Claim, tables, Hand, Go, At,
       HasGuard, Exclusive
<1>4. GuardsDisarmed' /\ GuardsDiffer'
  BY DEF IInv, GuardsDisarmed, GuardsDiffer, Claim, tables, files, Hand, Go, At, HasGuard
<1>5. Fresh'
  BY DEF IInv, Fresh, Claim, tables, files, Hand, Go, At, None
<1> QED
  BY <1>1, <1>2, <1>3, <1>4, <1>5 DEF IInv

\* The command is alone when all others are out.
LEMMA UpgradeIInv ==
  ASSUME IInv, NEW t \in Workers, Upgrade(t)
  PROVE  IInv'
<1>1. TypeOK'
  <2>1. hand' \in [Workers -> Hands]
    BY HandTyped, IdsDiffer DEF IInv, Places, Upgrade, Go, Hand
  <2> QED
    BY <2>1 DEF IInv, TypeOK, Hands, Upgrade, files, tables
<1>2. TableAgrees' /\ Pointers' /\ Sockets'
  BY DEF IInv, TableAgrees, Pointers, Sockets, Upgrade, tables, files, Go, At
<1>3. HandsFit' /\ AloneInside' /\ LockFits'
  BY DEF IInv, HandsFit, AloneInside, LockFits, Upgrade, Hand, Out, Go, At, Exclusive
<1>4. GuardsDisarmed' /\ GuardsDiffer'
  BY DEF IInv, HandsFit, GuardsDisarmed, GuardsDiffer, Upgrade, tables, Hand, Out, Go, At,
       HasGuard
<1>5. Fresh'
  BY DEF IInv, Fresh, Upgrade, Hand, Out, Go, At
<1> QED
  BY <1>1, <1>2, <1>3, <1>4, <1>5 DEF IInv

\* The event of the listening socket is freed: no one else is in the loop.
LEMMA ClearFreeIInv ==
  ASSUME IInv, NEW t \in Workers, NEW fd \in Socks, ClearFree(t, fd)
  PROVE  IInv'
<1>1. TypeOK'
  BY DEF IInv, TypeOK, ClearFree, Drop, files, Hand, Go, Ids, Places
<1>2. TableAgrees' /\ Pointers' /\ Sockets'
  BY IdsDiffer DEF IInv, TypeOK, TableAgrees, Pointers, Sockets, ClearFree, Drop, files,
       Hand, Go, At
<1>3. HandsFit' /\ AloneInside' /\ LockFits'
  BY IdsDiffer DEF IInv, HandsFit, AloneInside, LockFits, ClearFree, Hand, Out, Go, At,
       Exclusive
<1>4. GuardsDisarmed' /\ GuardsDiffer'
  BY IdsDiffer DEF IInv, TableAgrees, HandsFit, AloneInside, GuardsDisarmed, GuardsDiffer,
       ClearFree, Drop, Hand, Out, Go, At, HasGuard, Exclusive
<1>5. Fresh'
  BY IdsDiffer DEF IInv, TypeOK, HandsFit, AloneInside, Fresh, ClearFree, Drop, Hand, Out,
       Go, At, Exclusive
<1> QED
  BY <1>1, <1>2, <1>3, <1>4, <1>5 DEF IInv

\* The listening socket is closed.
LEMMA ClearDelIInv ==
  ASSUME IInv, NEW t \in Workers, ClearDel(t)
  PROVE  IInv'
<1>1. TypeOK'
  BY DEF IInv, TypeOK, ClearDel, Hand, Go, Unregistered, Ids, Places
<1>2. TableAgrees' /\ Pointers' /\ Sockets'
  BY IdsDiffer DEF IInv, TypeOK, TableAgrees, Pointers, Fresh, Sockets, ClearDel, Go, At,
       Unregistered
<1>3. HandsFit' /\ AloneInside' /\ LockFits'
  BY DEF IInv, TypeOK, HandsFit, AloneInside, LockFits, ClearDel, Hand, Go, At, Exclusive
<1>4. GuardsDisarmed' /\ GuardsDiffer'
  BY DEF IInv, TypeOK, TableAgrees, HandsFit, GuardsDisarmed, GuardsDiffer, Fresh, ClearDel,
       Hand, Go, At, HasGuard
<1>5. Fresh'
  BY DEF IInv, HandsFit, AloneInside, Fresh, ClearDel, Hand, Out, Go, At, Exclusive
<1> QED
  BY <1>1, <1>2, <1>3, <1>4, <1>5 DEF IInv

\* The command opens a socket: it is alone, and the descriptor was closed.
LEMMA ListenIInv ==
  ASSUME IInv, NEW t \in Workers, NEW fd \in Socks, Listen(t, fd)
  PROVE  IInv'
<1>1. TypeOK'
  BY DEF IInv, TypeOK, Listen, Open, tables, Hand, Go, Places
<1>2. TableAgrees' /\ Pointers' /\ Sockets'
  BY DEF IInv, TypeOK, TableAgrees, Pointers, Sockets, Listen, Open, tables, Go, At
<1>3. HandsFit' /\ AloneInside' /\ LockFits'
  BY IdsDiffer DEF IInv, HandsFit, AloneInside, LockFits, Listen, Open, Hand, Out, Go, At,
       Exclusive
<1>4. GuardsDisarmed' /\ GuardsDiffer'
  BY DEF IInv, GuardsDisarmed, GuardsDiffer, Listen, Open, tables, Hand, Go, At, HasGuard
<1>5. Fresh'
  BY DEF IInv, TypeOK, Fresh, Sockets, Listen, Open, tables, Hand, Go, At, Fds, Socks, None
<1> QED
  BY <1>1, <1>2, <1>3, <1>4, <1>5 DEF IInv

\* The command returns.
LEMMA ReturnIInv ==
  ASSUME IInv, NEW t \in Workers, Return(t)
  PROVE  IInv'
<1>1. TypeOK'
  <2>1. hand' \in [Workers -> Hands]
    BY HandTyped, IdsDiffer DEF IInv, Places, Return, Go, Hand
  <2> QED
    BY <2>1 DEF IInv, TypeOK, Hands, Return, files, tables
<1>2. TableAgrees' /\ Pointers' /\ Sockets'
  BY DEF IInv, TableAgrees, Pointers, Sockets, Return, tables, files, Go, At
<1>3. HandsFit' /\ AloneInside' /\ LockFits'
  BY DEF IInv, TypeOK, HandsFit, AloneInside, LockFits, Return, Hand, Out, Go, At, Exclusive
<1>4. GuardsDisarmed' /\ GuardsDiffer'
  BY DEF IInv, HandsFit, GuardsDisarmed, GuardsDiffer, Return, tables, files, Hand, Go, At,
       HasGuard
<1>5. Fresh'
  BY DEF IInv, HandsFit, AloneInside, Fresh, Return, Hand, Out, Go, At, Exclusive
<1> QED
  BY <1>1, <1>2, <1>3, <1>4, <1>5 DEF IInv

-----------------------------------------------------------------------------
(***************************************************************************)
(* The theorems                                                            *)
(***************************************************************************)
\* What a worker does by itself.
LEMMA StepIInv ==
  ASSUME IInv, NEW t \in Workers, Step(t)
  PROVE  IInv'
BY YieldIInv, ReenterIInv, ReadIInv, insert_atIInv, register_eventIInv, DropRearmIInv, CancelFreeIInv,
   CancelDelIInv, UpgradeIInv, ClearDelIInv, ReturnIInv, DropReadIInv DEF Step

\* Any step.
LEMMA NextIInv == IInv /\ [Next]_vars => IInv'
<1> SUFFICES ASSUME IInv, [Next]_vars PROVE IInv'
  OBVIOUS
<1>1. CASE \E fd \in Fds : Arrive(fd) \/ \E t \in Workers : Wait(t, fd)
  BY <1>1, ArriveIInv, WaitIInv
<1>2. CASE \E t \in Workers : Step(t) \/ Claim(t)
  BY <1>2, StepIInv, ClaimIInv
<1>3. CASE \E t \in Workers, fd \in Socks :
             Connect(t, fd) \/ shutdown_endpoint(t, fd) \/ ClearFree(t, fd) \/ Listen(t, fd)
  BY <1>3, ConnectIInv, shutdown_endpointIInv, ClearFreeIInv, ListenIInv
<1>4. CASE UNCHANGED vars
  BY <1>4 DEF vars, tables, files, IInv, TypeOK, TableAgrees, HandsFit, AloneInside, LockFits,
     GuardsDisarmed, GuardsDiffer, Pointers, Fresh, Sockets, Exclusive, HasGuard, At
<1> QED
  BY <1>1, <1>2, <1>3, <1>4 DEF Next

\* The invariant holds of every behaviour.
LEMMA AlwaysIInv == Spec => []IInv
<1>1. Init => IInv
  BY InitIInv
<1>2. IInv /\ [Next]_vars => IInv'
  BY NextIInv
<1> QED
  BY <1>1, <1>2, PTL DEF Spec

\* epoll.rs:80: an event is in one worker's hand at most, and neither freed nor replaced
\* while it is there, for any number of workers, descriptors and events.
THEOREM GuardsAreAlwaysSound == Spec => []GuardsAreSound
<1>1. IInv => GuardsAreSound
  BY DEF IInv, GuardsAreSound, GuardsDisarmed, GuardsDiffer, TableAgrees, HasGuard, TypeOK
<1> QED
  BY <1>1, AlwaysIInv, PTL

\* While a worker waits, each armed pointer in the kernel's list is the event that the
\* table has for its descriptor: epoll_wait never returns a pointer to freed memory.
THEOREM PointersAreAlwaysSound == Spec => []PointersAreSound
<1>1. IInv => PointersAreSound
  BY IdsDiffer DEF IInv, PointersAreSound, Pointers, HandsFit, AloneInside, Exclusive, At, Waiting,
     Out, Hand, Unregistered
<1> QED
  BY <1>1, AlwaysIInv, PTL

\* new_event never finds an event of an earlier socket under its descriptor, in the table
\* or in the kernel's list.
THEOREM DescriptorsAreAlwaysFresh == Spec => []DescriptorsAreFresh
<1>1. IInv => DescriptorsAreFresh
  BY DEF IInv, DescriptorsAreFresh, Fresh, At
<1> QED
  BY <1>1, AlwaysIInv, PTL
=============================================================================
