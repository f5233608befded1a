------------------------------- MODULE DevLock -------------------------------
(***************************************************************************)
(* The lock of the device (boringtun/src/device/dev_lock.rs) and the       *)
(* worker threads that run on it (event_loop of device/mod.rs).  A worker  *)
(* holds a read lock all the time it serves events.  The worker that gets  *)
(* an API command upgrades its lock: it raises wants_write, triggers the   *)
(* yield notice so that the others give their read locks up, writes, and   *)
(* lowers wants_write again.                                               *)
(*                                                                         *)
(* A critical section of the mutex of wants_write with nothing in it that  *)
(* blocks is one step.  read() keeps the mutex while it waits for the      *)
(* inner lock: there the mutex has an owner.                               *)
(***************************************************************************)
EXTENDS Naturals, FiniteSets

CONSTANTS
  Threads,       \* the workers
  ApiEvents,     \* events whose handler is the API: listener, inherited fd
  MaxCommands    \* bound: set commands in a run

ASSUME MaxCommandsAssumption == MaxCommands \in Nat

Nobody == "nobody"
ASSUME NobodyAssumption == Nobody \notin Threads /\ Nobody \notin ApiEvents

VARIABLES
  pc,            \* where each worker is, see Places
  mutex,         \* the worker inside read() that holds the mutex of wants_write
  wants_write,
  readers,       \* the inner RwLock: workers with a read lock,
  writer,        \* and the worker that has or waits for the write lock
  yield_notice, exit_notice,     \* the eventfds are set
  serving,       \* serving[t]: the API event whose handler t runs
  version,       \* the device: how many commands were carried out
  seen,          \* history: seen[t]: the version t saw when it prepared to write
  update_panicked \* history: a command panicked

lockVars == <<pc, mutex, wants_write, readers, writer, yield_notice, exit_notice,
              serving, version, seen, update_panicked>>

\* From raising wants_write to lowering it.
Claimed == {"relock", "prep", "upgrade", "ask", "drain", "write", "update",
            "reread", "signal"}
Places == Claimed \union
  {"read", "enter", "asleep",            \* in read()
   "wait",                               \* in the event loop
   "claim", "claim_asleep", "claim_woken", \* in try_writeable
   "exited", "panicked"}

\* event_loop up to the first device.read().
LockInit ==
  /\ pc = [t \in Threads |-> "read"]
  /\ mutex = Nobody
  /\ wants_write = FALSE
  /\ readers = {}
  /\ writer = Nobody
  /\ yield_notice = FALSE
  /\ exit_notice = FALSE
  /\ serving = [t \in Threads |-> Nobody]
  /\ version = 0
  /\ seen = [t \in Threads |-> 0]
  /\ update_panicked = FALSE

Goto(t, place) == pc' = [pc EXCEPT ![t] = place]
Stands(t, place) == pc[t] = place

(***************************************************************************)
(* read()                                                                  *)
(***************************************************************************)
\* Mutant: the mutex is released before the inner lock is taken.
Read_Releases(t) ==
  /\ Stands(t, "read") /\ mutex = Nobody
  /\ Goto(t, IF wants_write THEN "asleep" ELSE "enter")
  /\ UNCHANGED <<mutex, wants_write, readers, writer, yield_notice, exit_notice,
                 serving, version, seen, update_panicked>>

\* Test wants_write under the mutex: sleep on the condition variable, or keep the
\* mutex and go on.
Read(t) ==
  /\ Stands(t, "read") /\ mutex = Nobody
  /\ Goto(t, IF wants_write THEN "asleep" ELSE "enter")
  /\ mutex' = IF wants_write THEN Nobody ELSE t
  /\ UNCHANGED <<wants_write, readers, writer, yield_notice, exit_notice,
                 serving, version, seen, update_panicked>>

\* inner.read(): a writer that has or waits for the lock comes first.
Enter(t) ==
  /\ Stands(t, "enter") /\ writer = Nobody
  /\ readers' = readers \union {t}
  /\ mutex' = Nobody
  /\ Goto(t, "wait")
  /\ UNCHANGED <<wants_write, writer, yield_notice, exit_notice, serving,
                 version, seen, update_panicked>>

(***************************************************************************)
(* event_loop                                                              *)
(***************************************************************************)
\* The yield event: the worker drops its guard and calls read() again.
Yield(t) ==
  /\ Stands(t, "wait") /\ yield_notice
  /\ readers' = readers \ {t}
  /\ Goto(t, "read")
  /\ UNCHANGED <<mutex, wants_write, writer, yield_notice, exit_notice, serving,
                 version, seen, update_panicked>>

\* Mutant: the worker that leaves does not tell the others.
LeaveLoop_Silent(t) ==
  /\ exit_notice' = FALSE
  /\ readers' = readers \ {t}
  /\ Goto(t, "exited")
  /\ UNCHANGED <<mutex, wants_write, writer, yield_notice, serving, version,
                 seen, update_panicked>>

LeaveLoop(t) ==
  /\ exit_notice' = TRUE
  /\ readers' = readers \ {t}
  /\ Goto(t, "exited")
  /\ UNCHANGED <<mutex, wants_write, writer, yield_notice, serving, version,
                 seen, update_panicked>>

\* The exit event: trigger_exit, and return.
Exit(t) == Stands(t, "wait") /\ exit_notice /\ LeaveLoop(t)

\* A signal, a removed control socket or a lost interface ends the loop.
Stop(t) == Stands(t, "wait") /\ LeaveLoop(t)

\* An API event: EPOLLONESHOT gives it to one worker, until its handler returns.
\* The client sent set=1.
ApiCommand(t, e) ==
  /\ Stands(t, "wait")
  /\ version < MaxCommands
  /\ \A u \in Threads : serving[u] # e
  /\ serving' = [serving EXCEPT ![t] = e]
  /\ Goto(t, "claim")
  /\ UNCHANGED <<mutex, wants_write, readers, writer, yield_notice, exit_notice,
                 version, seen, update_panicked>>

(***************************************************************************)
(* try_writeable                                                           *)
(***************************************************************************)
\* Mutant: wants_write is tested once, not in a loop.
Claim_Once(t) ==
  /\ pc[t] \in {"claim", "claim_woken"} /\ mutex = Nobody
  /\ readers' = readers \ {t}
  /\ Goto(t, IF wants_write /\ Stands(t, "claim") THEN "claim_asleep" ELSE "relock")
  /\ wants_write' = TRUE
  /\ UNCHANGED <<mutex, writer, yield_notice, exit_notice, serving, version, seen,
                 update_panicked>>

\* Under the mutex and with the read lock released: raise wants_write, or sleep
\* while another worker has it.
Claim(t) ==
  /\ pc[t] \in {"claim", "claim_woken"} /\ mutex = Nobody
  /\ readers' = readers \ {t}
  /\ Goto(t, IF wants_write THEN "claim_asleep" ELSE "relock")
  /\ wants_write' = TRUE
  /\ UNCHANGED <<mutex, writer, yield_notice, exit_notice, serving, version, seen,
                 update_panicked>>

\* RwLockReadGuard::unlocked takes the read lock again.
Relock(t) ==
  /\ Stands(t, "relock") /\ writer = Nobody
  /\ readers' = readers \union {t}
  /\ Goto(t, "prep")
  /\ UNCHANGED <<mutex, wants_write, writer, yield_notice, exit_notice, serving,
                 version, seen, update_panicked>>

\* prep_func of api_set: trigger_yield.
Prep(t) ==
  /\ Stands(t, "prep")
  /\ yield_notice' = TRUE
  /\ seen' = [seen EXCEPT ![t] = version]
  /\ Goto(t, "upgrade")
  /\ UNCHANGED <<mutex, wants_write, readers, writer, exit_notice, serving,
                 version, update_panicked>>

\* The read lock is released, then lock.write() is called.
Upgrade(t) ==
  /\ Stands(t, "upgrade")
  /\ readers' = readers \ {t}
  /\ Goto(t, "ask")
  /\ UNCHANGED <<mutex, wants_write, writer, yield_notice, exit_notice, serving,
                 version, seen, update_panicked>>

\* lock.write() bars new readers, then waits for the others to leave.
Ask(t) ==
  /\ Stands(t, "ask") /\ writer = Nobody
  /\ writer' = t
  /\ Goto(t, "drain")
  /\ UNCHANGED <<mutex, wants_write, readers, yield_notice, exit_notice, serving,
                 version, seen, update_panicked>>

Drain(t) ==
  /\ Stands(t, "drain") /\ readers = {}
  /\ Goto(t, "write")
  /\ UNCHANGED <<mutex, wants_write, readers, writer, yield_notice, exit_notice,
                 serving, version, seen, update_panicked>>

\* Mutant: the yield notice stays set.
Write_NoCancel(t) ==
  /\ Stands(t, "write")
  /\ Goto(t, "update")
  /\ UNCHANGED <<mutex, wants_write, readers, writer, yield_notice, exit_notice,
                 serving, version, seen, update_panicked>>

\* mut_func of api_set begins with cancel_yield,
Write(t) ==
  /\ Stands(t, "write")
  /\ yield_notice' = FALSE
  /\ Goto(t, "update")
  /\ UNCHANGED <<mutex, wants_write, readers, writer, exit_notice, serving,
                 version, seen, update_panicked>>

\* carries the commands of the client out, and drops the write lock.
Update(t) ==
  /\ Stands(t, "update")
  /\ version' = version + 1
  /\ writer' = Nobody
  /\ Goto(t, "reread")
  /\ UNCHANGED <<mutex, wants_write, readers, yield_notice, exit_notice, serving,
                 seen, update_panicked>>

\* Or it panics (update_peer, set_key): unwinding drops the write lock, takes and
\* drops the read lock, and re-arms the event.  wants_write stays raised.
UpdatePanics(t) ==
  /\ Stands(t, "update")
  /\ update_panicked' = TRUE
  /\ writer' = Nobody
  /\ serving' = [serving EXCEPT ![t] = Nobody]
  /\ Goto(t, "panicked")
  /\ UNCHANGED <<mutex, wants_write, readers, yield_notice, exit_notice, version,
                 seen>>

Reread(t) ==
  /\ Stands(t, "reread") /\ writer = Nobody
  /\ readers' = readers \union {t}
  /\ Goto(t, "signal")
  /\ UNCHANGED <<mutex, wants_write, writer, yield_notice, exit_notice, serving,
                 version, seen, update_panicked>>

\* Mutant: only the sleeping readers are woken.
Woken_ReadersOnly(place) == IF place = "asleep" THEN "read" ELSE place

\* notify_all.
Woken(place) ==
  CASE place = "asleep" -> "read"
    [] place = "claim_asleep" -> "claim_woken"
    [] OTHER -> place

\* Under the mutex: lower wants_write and wake every sleeper.  The handler returns.
Signal(t) ==
  /\ Stands(t, "signal") /\ mutex = Nobody
  /\ wants_write' = FALSE
  /\ pc' = [u \in Threads |-> IF u = t THEN "wait" ELSE Woken(pc[u])]
  /\ serving' = [serving EXCEPT ![t] = Nobody]
  /\ UNCHANGED <<mutex, readers, writer, yield_notice, exit_notice, version, seen,
                 update_panicked>>

(***************************************************************************)
(* What a worker does by itself, and what the world makes it do.           *)
(***************************************************************************)
Work(t) ==
  \/ Read(t) \/ Enter(t)
  \/ Yield(t) \/ Exit(t)
  \/ Claim(t) \/ Relock(t) \/ Prep(t) \/ Upgrade(t) \/ Ask(t) \/ Drain(t)
  \/ Write(t) \/ Update(t) \/ Reread(t) \/ Signal(t)

LockNext ==
  \E t \in Threads :
    \/ Work(t)
    \/ UpdatePanics(t)
    \/ Stop(t)
    \/ \E e \in ApiEvents : ApiCommand(t, e)

(***************************************************************************)
(* Every worker that can go on does: the scheduler runs every thread; epoll*)
(* keeps a level-triggered notice in rotation with the other ready events, *)
(* so a waiting worker gets it; handlers return, and a client completes    *)
(* its command.  Commands, panics and stops may never come.                *)
(***************************************************************************)
LockSpec == LockInit /\ [][LockNext]_lockVars /\ \A t \in Threads : WF_lockVars(Work(t))

(***************************************************************************)
(* Properties                                                              *)
(***************************************************************************)
\* Every variable stays in its type.
LockTypeOK ==
  /\ pc \in [Threads -> Places]
  /\ mutex \in Threads \union {Nobody}
  /\ writer \in Threads \union {Nobody}
  /\ readers \in SUBSET Threads
  /\ wants_write \in BOOLEAN /\ yield_notice \in BOOLEAN
  /\ exit_notice \in BOOLEAN /\ update_panicked \in BOOLEAN
  /\ serving \in [Threads -> ApiEvents \union {Nobody}]
  /\ version \in Nat
  /\ seen \in [Threads -> Nat]

\* dev_lock.rs:87, "There is no race here because wants_write blocks other
\* threads": although the lock is given up between the preparation and the
\* write, no other worker writes in between.
UpgradeIsAtomic ==
  \A t \in Threads :
    pc[t] \in {"upgrade", "ask", "drain", "write", "update"} => seen[t] = version

\* dev_lock.rs:65: while wants_write is raised no new reader starts, not even one
\* that tested wants_write before.
NoNewReader == wants_write => \A t \in Threads : ~Stands(t, "enter")

\* The yield notice is set only for a writer that still waits for the others: no
\* worker yields for nobody, for ever.
NoStrayYield ==
  yield_notice => \E t \in Threads : pc[t] \in {"upgrade", "ask", "drain", "write"}

\* A worker that asks to write gets to write, unless a command panics.
WriterServed ==
  \A t \in Threads : Stands(t, "claim") ~> Stands(t, "update") \/ update_panicked

\* Once one worker has left its loop every worker leaves it, whatever it waits
\* for, unless a command panics.
AllExit ==
  (\E t \in Threads : Stands(t, "exited"))
    ~> (\A t \in Threads : Stands(t, "exited")) \/ update_panicked
=============================================================================
