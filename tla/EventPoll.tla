----------------------------- MODULE EventPoll -----------------------------
(***************************************************************************)
(* The registry of pollable events (boringtun/src/device/epoll.rs) under   *)
(* the workers of event_loop and the handlers that use it                  *)
(* (device/mod.rs, api.rs).                                                *)
(*                                                                         *)
(* The table `events' owns the events; the kernel's interest list holds    *)
(* bare pointers to them.  An event owns its handler, and the handler of a *)
(* socket a reference to the socket: a descriptor is closed when neither a *)
(* handler nor the device (an endpoint, udp4, udp6) holds the socket, and  *)
(* the next socket may have the same number.                               *)
(*                                                                         *)
(* All workers run the loop under a read lock on the device; a set command *)
(* tells the others to yield and runs alone (DevLock shows this, here it   *)
(* is the guard of Upgrade).                                               *)
(***************************************************************************)
EXTENDS Integers, FiniteSets

CONSTANTS
  Workers,       \* threads in event_loop
  MaxFds,        \* bound: sockets open at once
  MaxEvents      \* bound: events of sockets at once

ASSUME PollAssumption == MaxFds \in Nat \ {0} /\ MaxEvents \in Nat \ {0}

Api == -1                  \* descriptors and events of the control socket,
Timer == 0                 \* and of a periodic event; these are never removed
Socks == 1..MaxFds
Fds == {Api, Timer} \union Socks
SockIds == 1..MaxEvents
Ids == {Api, Timer} \union SockIds
None == -2                 \* no event, no descriptor, a freed event
Nobody == "nobody"
ASSUME NobodyAssumption == Nobody \notin Workers

VARIABLES
  events,        \* the table: the event registered for a descriptor
  event,         \* an event in memory: its descriptor, None when freed
  lock,          \* who has the mutex of the table for more than one step
  interest,      \* the kernel's list: the pointer for a descriptor, one-shot state
  notice,        \* the yield notifier is triggered
  file,          \* what a descriptor refers to: closed, an open or a shut socket
  kind,          \* listening or connected
  held,          \* the device itself refers to the socket
  readable,      \* there is something to read
  hand,          \* where each worker is, and what it has in hand
  upgrading      \* a set command has claimed the device

tables == <<events, event, lock, interest>>
files == <<file, kind, held, readable>>
vars == <<tables, notice, files, hand, upgrading>>

\* The guard of a worker is for event id; fd is a descriptor it is busy with.
Hand(at, id, fd) == [at |-> at, id |-> id, fd |-> fd]
Waiting == Hand("wait", None, None)
Out == Hand("out", None, None)
Go(t, at, id, fd) == hand' = [hand EXCEPT ![t] = Hand(at, id, fd)]
At(t, at) == hand[t].at = at

Unregistered == [id |-> None, armed |-> FALSE]
Armed(id) == [id |-> id, armed |-> TRUE]

\* The device listens on socket 1 with event 1; the workers enter the loop.
Init ==
  /\ events = [fd \in Fds |-> IF fd <= 1 THEN fd ELSE None]
  /\ event = [id \in Ids |-> IF id <= 1 THEN id ELSE None]
  /\ lock = Nobody
  /\ interest = [fd \in Fds |-> IF fd <= 1 THEN Armed(fd) ELSE Unregistered]
  /\ notice = FALSE
  /\ file = [fd \in Fds |-> IF fd <= 1 THEN "open" ELSE "closed"]
  /\ kind = [fd \in Fds |-> IF fd = 1 THEN "listen" ELSE "other"]
  /\ held = [fd \in Fds |-> fd = 1]
  /\ readable = [fd \in Fds |-> FALSE]
  /\ hand = [t \in Workers |-> Waiting]
  /\ upgrading = FALSE

\* A datagram or a command arrives, a period ends.
Arrive(fd) ==
  /\ file[fd] = "open" /\ ~readable[fd]
  /\ readable' = [readable EXCEPT ![fd] = TRUE]
  /\ UNCHANGED <<tables, notice, file, kind, held, hand, upgrading>>

(***************************************************************************)
(* wait: epoll_wait disarms a one-shot event and returns its pointer.      *)
(***************************************************************************)
\* Mutant: the event is not one-shot.
Wait_Repeats(t, fd) ==
  /\ At(t, "wait")
  /\ interest[fd].armed /\ (readable[fd] \/ file[fd] = "shut")
  /\ Go(t, IF file[fd] = "shut" THEN "eof" ELSE "run", interest[fd].id, None)
  /\ UNCHANGED <<tables, notice, files, upgrading>>

Wait(t, fd) ==
  /\ At(t, "wait")
  /\ interest[fd].armed /\ (readable[fd] \/ file[fd] = "shut")
  /\ interest' = [interest EXCEPT ![fd].armed = FALSE]
  /\ Go(t, IF file[fd] = "shut" THEN "eof" ELSE "run", interest[fd].id, None)
  /\ UNCHANGED <<events, event, lock, notice, files, upgrading>>

\* The notifier is level-triggered: every waiting worker gets it, leaves the loop
\* and calls read(),
Yield(t) ==
  /\ At(t, "wait") /\ notice
  /\ hand' = [hand EXCEPT ![t] = Out]
  /\ UNCHANGED <<tables, notice, files, upgrading>>

\* which returns when no command has claimed the device.
Reenter(t) ==
  /\ At(t, "out") /\ ~upgrading
  /\ hand' = [hand EXCEPT ![t] = Waiting]
  /\ UNCHANGED <<tables, notice, files, upgrading>>

(***************************************************************************)
(* Handlers                                                                *)
(***************************************************************************)
\* A socket's handler reads until it would block; a timer's does not read.
Read(t) ==
  /\ At(t, "run")
  /\ LET fd == event[hand[t].id]
     IN  /\ Go(t, "act", hand[t].id, None)
         /\ readable' = IF fd = Timer THEN readable ELSE [readable EXCEPT ![fd] = FALSE]
  /\ UNCHANGED <<tables, notice, file, kind, held, upgrading>>

\* The event and the guard are for a socket of this kind.
Serves(t, k) == hand[t].id \in SockIds /\ kind[event[hand[t].id]] = k

Open(t, fd, k) ==
  /\ file[fd] = "closed"
  /\ file' = [file EXCEPT ![fd] = "open"]
  /\ kind' = [kind EXCEPT ![fd] = k]
  /\ held' = [held EXCEPT ![fd] = TRUE]
  /\ Go(t, "insert", hand[t].id, fd)
  /\ UNCHANGED <<tables, notice, readable, upgrading>>

\* The handler of a listening socket connects a socket to its peer (connect_endpoint).
Connect(t, fd) == At(t, "act") /\ Serves(t, "listen") /\ Open(t, fd, "conn")

\* Mutant: the socket is closed, although a handler has it.
shutdown_endpoint_Closes(t, fd) ==
  /\ \/ At(t, "act") /\ (Serves(t, "listen") \/ hand[t].id = Timer)
     \/ At(t, "write")
  /\ held[fd] /\ kind[fd] = "conn"
  /\ held' = [held EXCEPT ![fd] = FALSE]
  /\ file' = [file EXCEPT ![fd] = "closed"]
  /\ readable' = [readable EXCEPT ![fd] = FALSE]
  /\ interest' = [interest EXCEPT ![fd] = Unregistered]
  /\ UNCHANGED <<events, event, lock, notice, kind, hand, upgrading>>

\* A handler has the socket, or a worker is about to register one.
Referred(fd) ==
  \/ events[fd] # None
  \/ \E u \in Workers : hand[u].at = "insert" /\ hand[u].fd = fd

\* A connected socket is taken from its endpoint and shut down: by a handler that
\* moves the endpoint, by a timer, or by a command.
shutdown_endpoint(t, fd) ==
  /\ \/ At(t, "act") /\ (Serves(t, "listen") \/ hand[t].id = Timer)
     \/ At(t, "write")
  /\ held[fd] /\ kind[fd] = "conn"
  /\ held' = [held EXCEPT ![fd] = FALSE]
  /\ file' = [file EXCEPT ![fd] = IF Referred(fd) THEN "shut" ELSE "closed"]
  /\ readable' = IF Referred(fd) THEN readable ELSE [readable EXCEPT ![fd] = FALSE]
  /\ UNCHANGED <<tables, notice, kind, hand, upgrading>>

(***************************************************************************)
(* new_event: into the table under its mutex, then to the kernel.          *)
(***************************************************************************)
InSight(id) ==
  \/ event[id] # None
  \/ \E u \in Workers : hand[u].id = id
  \/ \E fd \in Fds : interest[fd].id = id

insert_at(t, id) ==
  /\ At(t, "insert") /\ lock = Nobody
  /\ ~InSight(id)
  /\ LET fd == hand[t].fd
         old == events[fd]
     IN  /\ events' = [events EXCEPT ![fd] = id]
         /\ event' = [i \in Ids |-> IF i = id THEN fd ELSE IF i = old THEN None ELSE event[i]]
         /\ interest' = IF old = None THEN interest
                        ELSE [interest EXCEPT ![fd] = Unregistered]
         /\ Go(t, "add", hand[t].id, fd)
  /\ UNCHANGED <<lock, notice, files, upgrading>>

\* EPOLL_CTL_ADD; its failure makes the handlers panic.
register_event(t) ==
  /\ At(t, "add")
  /\ LET fd == hand[t].fd
     IN  /\ interest[fd] = Unregistered
         /\ interest' = [interest EXCEPT ![fd] = Armed(events[fd])]
  /\ Go(t, "done", hand[t].id, None)
  /\ UNCHANGED <<events, event, lock, notice, files, upgrading>>

(***************************************************************************)
(* The end of a guard: the handler, which connects one socket at most, is  *)
(* done; a periodic event is read; then EPOLL_CTL_MOD.                     *)
(***************************************************************************)
DropRead(t) ==
  /\ At(t, "act") \/ (At(t, "done") /\ (hand[t].id = Api => ~upgrading))
  /\ Go(t, "rearm", hand[t].id, None)
  /\ readable' = IF hand[t].id = Timer THEN [readable EXCEPT ![Timer] = FALSE] ELSE readable
  /\ UNCHANGED <<tables, notice, file, kind, held, upgrading>>

\* Mutant: the event is not armed again.
DropRearm_Forgets(t) ==
  /\ At(t, "rearm")
  /\ hand' = [hand EXCEPT ![t] = Waiting]
  /\ UNCHANGED <<tables, notice, files, upgrading>>

DropRearm(t) ==
  /\ At(t, "rearm")
  /\ LET id == hand[t].id
         fd == event[id]
     IN  interest' = IF interest[fd] = Unregistered THEN interest
                     ELSE [interest EXCEPT ![fd] = Armed(id)]
  /\ hand' = [hand EXCEPT ![t] = Waiting]
  /\ UNCHANGED <<events, event, lock, notice, files, upgrading>>

(***************************************************************************)
(* cancel, of a socket that was shut down: clear_event_by_fd drops the     *)
(* event, with it the last reference to the socket, and then removes the   *)
(* descriptor from the kernel's list.                                      *)
(***************************************************************************)
Drop(fd) ==
  /\ events' = [events EXCEPT ![fd] = None]
  /\ event' = [id \in Ids |-> IF id = events[fd] THEN None ELSE event[id]]

CancelFree(t) ==
  LET fd == event[hand[t].id]
  IN  /\ At(t, "eof") /\ lock = Nobody
      /\ lock' = t
      /\ Drop(fd)
      /\ Go(t, "cancel", None, fd)
      /\ file' = [file EXCEPT ![fd] = IF held[fd] THEN @ ELSE "closed"]
      /\ readable' = [readable EXCEPT ![fd] = held[fd] /\ @]
      /\ interest' = IF held[fd] THEN interest ELSE [interest EXCEPT ![fd] = Unregistered]
      /\ UNCHANGED <<notice, kind, held, upgrading>>

CancelDel(t) ==
  /\ At(t, "cancel")
  /\ interest' = [interest EXCEPT ![hand[t].fd] = Unregistered]
  /\ lock' = Nobody
  /\ hand' = [hand EXCEPT ![t] = Waiting]
  /\ UNCHANGED <<events, event, notice, files, upgrading>>

(***************************************************************************)
(* A set command                                                           *)
(***************************************************************************)
\* try_writeable: claim the device and trigger the notice.
Claim(t) ==
  /\ At(t, "act") /\ hand[t].id = Api
  /\ upgrading' = TRUE
  /\ notice' = TRUE
  /\ Go(t, "upgrade", Api, None)
  /\ UNCHANGED <<tables, files>>

\* Mutant: the command does not wait for the others.
Upgrade_AtOnce(t) ==
  /\ At(t, "upgrade")
  /\ notice' = FALSE
  /\ Go(t, "write", Api, None)
  /\ UNCHANGED <<tables, files, upgrading>>

\* The write lock: all others have left the loop.  The notice is stopped.
Upgrade(t) ==
  /\ At(t, "upgrade")
  /\ \A u \in Workers \ {t} : hand[u] = Out
  /\ notice' = FALSE
  /\ Go(t, "write", Api, None)
  /\ UNCHANGED <<tables, files, upgrading>>

\* listen_port=: clear_event_by_fd of the old socket, which is closed after it,
ClearFree(t, fd) ==
  /\ At(t, "write") /\ lock = Nobody
  /\ kind[fd] = "listen" /\ held[fd]
  /\ lock' = t
  /\ Drop(fd)
  /\ Go(t, "clear", Api, fd)
  /\ UNCHANGED <<interest, notice, files, upgrading>>

ClearDel(t) ==
  LET fd == hand[t].fd
  IN  /\ At(t, "clear")
      /\ interest' = [interest EXCEPT ![fd] = Unregistered]
      /\ lock' = Nobody
      /\ held' = [held EXCEPT ![fd] = FALSE]
      /\ file' = [file EXCEPT ![fd] = "closed"]
      /\ readable' = [readable EXCEPT ![fd] = FALSE]
      /\ Go(t, "bind", Api, None)
      /\ UNCHANGED <<events, event, notice, kind, upgrading>>

\* and a new one, if it can be bound.
Listen(t, fd) ==
  /\ At(t, "bind") \/ At(t, "write")
  /\ \A f \in Socks : ~(kind[f] = "listen" /\ held[f])
  /\ Open(t, fd, "listen")

\* The command, which has one listen_port at most, returns, and the lock is a read
\* lock again.
Return(t) ==
  /\ At(t, "write") \/ At(t, "bind") \/ (At(t, "done") /\ hand[t].id = Api /\ upgrading)
  /\ upgrading' = FALSE
  /\ Go(t, "done", Api, None)
  /\ UNCHANGED <<tables, notice, files>>

(***************************************************************************)
(* Specification                                                           *)
(***************************************************************************)
\* What a worker does by itself.
Step(t) ==
  \/ Yield(t) \/ Reenter(t) \/ Read(t)
  \/ \E id \in SockIds : insert_at(t, id)
  \/ register_event(t)
  \/ DropRearm(t) \/ CancelFree(t) \/ CancelDel(t)
  \/ Upgrade(t) \/ ClearDel(t) \/ Return(t) \/ DropRead(t)

Next ==
  \/ \E fd \in Fds : Arrive(fd) \/ \E t \in Workers : Wait(t, fd)
  \/ \E t \in Workers :
       \/ Step(t) \/ Claim(t)
       \/ \E fd \in Socks :
            Connect(t, fd) \/ shutdown_endpoint(t, fd) \/ ClearFree(t, fd) \/ Listen(t, fd)

(***************************************************************************)
(* Workers run, and epoll's ready list is a queue: a descriptor that is    *)
(* ready again and again while a worker waits is handed out.               *)
(***************************************************************************)
Spec ==
  /\ Init /\ [][Next]_vars
  /\ \A t \in Workers : WF_vars(Step(t))
  /\ \A fd \in Socks : SF_vars(\E t \in Workers : Wait(t, fd))

-----------------------------------------------------------------------------
(***************************************************************************)
(* Properties                                                              *)
(***************************************************************************)
HasGuard(t) == hand[t].id # None

\* epoll.rs:80, "It is guaranteed that only a single thread can have a reference to
\* the handler at any given time", and what it refers to is there: no other worker
\* has the event, and it has not been freed or replaced in the table.
GuardsAreSound ==
  \A t \in Workers : HasGuard(t) =>
    /\ event[hand[t].id] # None
    /\ events[event[hand[t].id]] = hand[t].id
    /\ \A u \in Workers \ {t} : hand[u].id # hand[t].id

\* The kernel hands out bare pointers: while a worker waits, each one it could get is
\* the event that the table has for the descriptor.
PointersAreSound ==
  (\E t \in Workers : At(t, "wait")) =>
    \A fd \in Fds : interest[fd].armed => interest[fd].id = events[fd] /\ events[fd] # None

\* A new socket never has the descriptor of an event that is still there, neither in
\* the table nor in the kernel: an event is not overridden in another worker's hand,
\* and EPOLL_CTL_ADD, whose failure would panic, succeeds.
DescriptorsAreFresh ==
  \A t \in Workers :
    /\ At(t, "insert") => events[hand[t].fd] = None
    /\ At(t, "add") => interest[hand[t].fd] = Unregistered

\* What arrives is read, as long as the socket is there: a one-shot event is always
\* armed again, also when the datagram came while its handler was about to return.
IsServed ==
  \A fd \in Socks : []<>(file[fd] = "open" => ~readable[fd])
=============================================================================
