---------------------------- MODULE StartupProofs ----------------------------
(***************************************************************************)
(* Proofs about the start of the program, for any number of workers and    *)
(* any users.  ReportIsTrue is inductive with what each step of            *)
(* drop_privileges has reached so far, and FileIsRemoved with what         *)
(* create_sock_dir prepares: the control socket can be removed by the user *)
(* the program is, and by the one it will be.                              *)
(***************************************************************************)
EXTENDS Startup, TLAPS

\* Where main is after DeviceHandle::new, and where it is in or after wait.
Spawned == {"setgid", "setuid", "check", "report", "wait", "drop"}
Reported == {"wait", "drop", "unwind"} \union Ended

ThreadType == thread \in [Threads -> {"none", "queue", "loop", "returned", "joined"} \union Panicked]
Started == \A t \in Threads : thread[t] # "none"

\* The program runs as the user who has logged in, and cannot be root again.
Dropped ==
  /\ options.login = [uid |-> uid, gid |-> gid]
  /\ ~Allowed(uid, Root) /\ ~Allowed(gid, Root)

\* main has the workers, and as much of drop_privileges as it has gone through.
StepsAreTaken ==
  /\ pc \in Spawned => Started
  /\ pc \in {"setuid", "check"} => options.login # NoLogin /\ gid = options.login.gid
  /\ pc = "check" => uid = options.login.uid
  /\ pc \in {"report", "wait"} => (options.drop => Dropped)

\* A report of success is sent after them, once and for all.
SentAfterAll ==
  /\ pc = "wait" => message = "success"
  /\ message = "success" =>
       pc \in Reported /\ Started /\ (options.drop => Dropped)
  /\ first = "succeeded" => message = "success"

\* The control socket can be removed, now and after drop_privileges.
CanRemove ==
  /\ pc \in {"fork", "detach", "device", "api"} => ~path
  /\ path => /\ Writable(dir)
             /\ uid = Root /\ options.login # NoLogin => dir = options.login.uid

IInv ==
  /\ ThreadType /\ options.login \in Logins \union {NoLogin}
  /\ StepsAreTaken /\ SentAfterAll /\ CanRemove /\ FileIsRemoved

\* The initial state satisfies the inductive invariant.
LEMMA InitIInv == Init => IInv
<1> SUFFICES ASSUME Init PROVE IInv
  OBVIOUS
<1>1. options.login \in Logins \union {NoLogin} /\ ThreadType
  BY DEF Init, ThreadType
<1>2. StepsAreTaken /\ SentAfterAll
  BY DEF Init, StepsAreTaken, SentAfterAll, Spawned
<1>3. CanRemove /\ FileIsRemoved
  BY DEF Init, CanRemove, FileIsRemoved
<1> QED
  BY <1>1, <1>2, <1>3 DEF IInv

\* What has no part in drop_privileges or in the files keeps the invariant.
LEMMA BeforeDevice == IInv /\ (Fork \/ Detach \/ Receive \/ TunSocket \/ Listen) => IInv'
<1> SUFFICES ASSUME IInv, Fork \/ Detach \/ Receive \/ TunSocket \/ Listen PROVE IInv'
  OBVIOUS
<1> USE DEF IInv, ThreadType, StepsAreTaken, SentAfterAll, CanRemove, FileIsRemoved, Started,
     Dropped, Allowed, Writable, Spawned, Reported, Ended, options_vars
<1>1. CASE Fork
  BY <1>1 DEF Fork
<1>2. CASE Detach
  BY <1>2 DEF Detach
<1>3. CASE Receive
  BY <1>3 DEF Receive
<1>4. CASE TunSocket
  BY <1>4 DEF TunSocket
<1>5. CASE Listen
  BY <1>5 DEF Listen
<1> QED
  BY <1>1, <1>2, <1>3, <1>4, <1>5

\* The control socket is made where the user to be can remove it.
LEMMA ApiHandler == IInv /\ register_api_handler => IInv'
<1> SUFFICES ASSUME IInv, register_api_handler PROVE IInv'
  OBVIOUS
<1>1. ~path /\ pc = "api" /\ pc' \in {"listen", "fail_device"} /\ UNCHANGED <<options, uid>>
  BY DEF IInv, CanRemove, register_api_handler, options_vars
<1>2. CanRemove'
  BY <1>1 DEF CanRemove, Writable, register_api_handler, create_sock_dir, options_vars
<1> QED
  BY <1>1, <1>2 DEF IInv, ThreadType, StepsAreTaken, SentAfterAll, FileIsRemoved, Started,
     Dropped, Allowed, Spawned, Reported, Ended, register_api_handler, options_vars

\* After the last worker has been started each one has.
LEMMA Spawning == IInv /\ Spawn => IInv'
<1> SUFFICES ASSUME IInv, Spawn PROVE IInv'
  OBVIOUS
<1> DEFINE left == {t \in Threads : thread[t] = "none"}
<1>1. pc = "spawn" /\ UNCHANGED <<options, first, uid, gid, dir, path, message>>
  BY DEF Spawn, options_vars
<1>2. message # "success"
  BY <1>1 DEF IInv, SentAfterAll, Reported, Ended
<1>3. CASE left = {} /\ pc' = (IF options.drop THEN "setgid" ELSE "report") /\ UNCHANGED thread
  <2>1. Started'
    BY <1>3 DEF Started
  <2> QED
    BY <1>1, <1>2, <1>3, <2>1 DEF IInv, ThreadType, StepsAreTaken, SentAfterAll, CanRemove,
       FileIsRemoved, Spawned, Reported, Ended, Writable
<1>4. CASE pc' \in {"spawn", "aborted"}
      /\ thread' \in {thread, [thread EXCEPT ![Min(left)] = "queue"]}
  <2>1. ThreadType'
    BY <1>4 DEF IInv, ThreadType
  <2> QED
    BY <1>1, <1>2, <1>4, <2>1 DEF IInv, StepsAreTaken, SentAfterAll, CanRemove, FileIsRemoved,
       Spawned, Reported, Ended, Writable
<1> QED
  BY <1>1, <1>3, <1>4 DEF Spawn

\* A step of drop_privileges reaches what StepsAreTaken says of it.
LEMMA Dropping == IInv /\ drop_privileges => IInv'
<1> SUFFICES ASSUME IInv, drop_privileges PROVE IInv'
  OBVIOUS
<1>1. /\ pc \in {"setgid", "setuid", "check"}
      /\ UNCHANGED <<options, first, dir, path, thread, exit_notice, message>>
  BY DEF drop_privileges, setgid, setuid, check, options_vars
<1>2. message # "success" /\ Started
  BY <1>1 DEF IInv, SentAfterAll, StepsAreTaken, Reported, Ended, Spawned
<1>3. pc' \in {"setuid", "check", "fail_privileges", "report"}
  BY DEF drop_privileges, setgid, setuid, check
<1>4. StepsAreTaken'
  <2>1. CASE setgid
    BY <1>1, <1>2, <2>1 DEF setgid, StepsAreTaken, Started, Spawned
  <2>2. CASE setuid
    BY <1>1, <1>2, <2>2 DEF IInv, setuid, StepsAreTaken, Started, Spawned
  <2>3. CASE check
    <3>1. options.login \in Logins
          /\ gid = options.login.gid /\ uid = options.login.uid /\ uid' = uid
      BY <2>3 DEF IInv, StepsAreTaken, check
    <3>2. options.login = [uid |-> uid, gid |-> gid]
      BY <3>1 DEF Logins
    <3>3. pc' = "report" => gid' = gid /\ ~Allowed(gid, Root) /\ ~Allowed(uid, Root)
      BY <2>3 DEF check
    <3> QED
      BY <1>1, <1>2, <2>3, <3>1, <3>2, <3>3
         DEF check, StepsAreTaken, Dropped, Allowed, Started, Spawned
  <2> QED
    BY <2>1, <2>2, <2>3 DEF drop_privileges
<1>5. CanRemove'
  <2>1. CASE setgid
    BY <1>1, <1>3, <2>1 DEF IInv, setgid, CanRemove, Writable
  <2>2. CASE setuid
    BY <1>1, <1>3, <2>2 DEF IInv, setuid, CanRemove, StepsAreTaken, Writable, Allowed
  <2>3. CASE check
    BY <1>1, <1>3, <2>3 DEF IInv, check, CanRemove, Writable
  <2> QED
    BY <2>1, <2>2, <2>3 DEF drop_privileges
<1> QED
  BY <1>1, <1>2, <1>3, <1>4, <1>5 DEF IInv, ThreadType, SentAfterAll, FileIsRemoved, Started

\* The report, the wait for the workers, and both ends of main.
LEMMA Ending == IInv /\ (fail \/ report \/ wait \/ Drop) => IInv'
<1> SUFFICES ASSUME IInv, fail \/ report \/ wait \/ Drop PROVE IInv'
  OBVIOUS
<1> USE DEF IInv, ThreadType, StepsAreTaken, SentAfterAll, CanRemove, FileIsRemoved, Started,
     Dropped, Allowed, Writable, Spawned, Reported, Ended, options_vars
<1>1. CASE fail
  BY <1>1 DEF fail
<1>2. CASE report
  BY <1>2 DEF report
<1>3. CASE wait
  BY <1>3 DEF wait
<1>4. CASE Drop
  BY <1>4 DEF Drop
<1> QED
  BY <1>1, <1>2, <1>3, <1>4

\* A worker that has been started stays so, and a killed process does nothing.
LEMMA Others ==
  ASSUME IInv, Kill \/ \E t \in Threads : \/ open_queue(t) \/ handler_panics(t)
                                           \/ \E a \in BOOLEAN : event_loop(t, a)
  PROVE  IInv'
<1> USE DEF IInv, ThreadType, StepsAreTaken, SentAfterAll, CanRemove, FileIsRemoved, Started,
     Dropped, Allowed, Writable, Spawned, Reported, Ended, options_vars
<1>1. CASE Kill
  BY <1>1 DEF Kill
<1>2. ASSUME NEW t \in Threads, open_queue(t) PROVE IInv'
  BY <1>2 DEF open_queue, Panicked
<1>3. ASSUME NEW t \in Threads, NEW a \in BOOLEAN, event_loop(t, a) PROVE IInv'
  BY <1>3 DEF event_loop
<1>4. ASSUME NEW t \in Threads, handler_panics(t) PROVE IInv'
  BY <1>4 DEF handler_panics, Panicked
<1> QED
  BY <1>1, <1>2, <1>3, <1>4

\* Every step keeps the inductive invariant.
LEMMA StepIInv == IInv /\ [Next]_vars => IInv'
<1> SUFFICES ASSUME IInv, [Next]_vars PROVE IInv'
  OBVIOUS
<1>1. CASE UNCHANGED vars
  BY <1>1 DEF IInv, ThreadType, StepsAreTaken, SentAfterAll, CanRemove, FileIsRemoved, Started,
     Dropped, Allowed, Writable, vars
<1>2. CASE Next
  BY <1>2, BeforeDevice, ApiHandler, Spawning, Dropping, Ending, Others
     DEF Next, Main, DeviceHandle
<1> QED
  BY <1>1, <1>2

\* The inductive invariant holds in every reachable state.
THEOREM Invariance == Spec => []IInv
BY InitIInv, StepIInv, PTL DEF Spec

\* main.rs:174: a success that is reported is one, for every login and every user the
\* program is started by.
THEOREM ReportsAreTrue == Spec => []ReportIsTrue
<1>1. IInv => ReportIsTrue
  BY DEF IInv, StepsAreTaken, SentAfterAll, ReportIsTrue, Started, Dropped
<1> QED
  BY <1>1, Invariance, PTL

\* api.rs:24: a program that ends in order leaves no control socket.
THEOREM FilesAreRemoved == Spec => []FileIsRemoved
<1>1. IInv => FileIsRemoved
  BY DEF IInv
<1> QED
  BY <1>1, Invariance, PTL
=============================================================================
