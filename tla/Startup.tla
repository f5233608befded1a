------------------------------ MODULE Startup ------------------------------
(***************************************************************************)
(* The life of the program boringtun (boringtun-cli/src/main.rs): it forks *)
(* itself into the background, makes the device and its workers            *)
(* (DeviceHandle, device/mod.rs), drops its privileges                     *)
(* (drop_privileges.rs), and tells the process it was forked from, which   *)
(* waits to tell its user, how that went.  At its end it removes the       *)
(* control socket that it has made (api.rs).                               *)
(*                                                                         *)
(* daemonize is version 0.4.1: the first process runs the exit action and  *)
(* ends; in the child each further step may fail, and main exits.  Users   *)
(* and groups are numbers, 0 is root; what the kernel allows is modelled   *)
(* for a process whose real, effective and saved ids are the same.         *)
(***************************************************************************)
EXTENDS Integers, FiniteSetsExt

CONSTANTS
  N_THREADS,     \* n_threads
  Users          \* ids of users, and of groups

ASSUME StartupAssumption == N_THREADS \in Nat \ {0} /\ 0 \in Users /\ Users \subseteq Nat

Root == 0
NoLogin == [uid |-> -1, gid |-> -1]      \* getlogin or getpwnam answers NULL
Logins == [uid : Users, gid : Users]
Threads == 0..N_THREADS - 1

\* How a panic ends a worker: the second is that of one which had the write lock, and
\* leaves wants_write raised (dev_lock.rs).
Panicked == {"panicked", "panicked_writing"}

VARIABLES
  options,       \* background, drop, and the login that getlogin finds
  first,         \* the process the user started
  pc,            \* where main is, or how the process that runs it ended
  uid, gid,      \* of that process
  dir,           \* the owner of SOCK_DIR
  path,          \* the control socket is in it
  thread,        \* what each worker does
  exit_notice,
  message        \* what was sent over the socket pair: 1 is success, 0 failure

options_vars == <<options, first>>
vars == <<options, first, pc, uid, gid, dir, path, thread, exit_notice, message>>

\* How a process ends: main returns; exit(1) with and without a message; a panic with
\* and without a DeviceHandle to drop; a signal it cannot catch.
Ended == {"returned", "failed", "undetached", "panicked", "aborted", "killed"}

\* Started by root, or by a user who was given what a device needs.
Init ==
  /\ options \in [background : BOOLEAN, drop : BOOLEAN, login : Logins \union {NoLogin}]
  /\ first = "main"                   \* the same process
  /\ pc = "fork"
  /\ uid \in Users /\ gid = uid
  /\ dir \in Users
  /\ path = FALSE
  /\ thread = [t \in Threads |-> "none"]
  /\ exit_notice = FALSE
  /\ message = "none"

\* sock2 is held by the first process, and by nobody when that was killed.
Heard == first # "killed"

(***************************************************************************)
(* main: into the background                                               *)
(***************************************************************************)
Fork ==
  /\ pc = "fork"
  /\ IF options.background
     THEN \/ pc' = "detach" /\ first' = "waits"
          \/ pc' = "undetached" /\ first' = "failed"      \* there is one process
     ELSE pc' = "device" /\ UNCHANGED first
  /\ UNCHANGED <<options, uid, gid, dir, path, thread, exit_notice, message>>

\* chdir, setsid, the second fork and the standard streams, in the child
Detach ==
  /\ pc = "detach"
  /\ pc' \in {"device", "undetached"}
  /\ UNCHANGED <<options_vars, uid, gid, dir, path, thread, exit_notice, message>>

\* The exit action of the first process.
Receive ==
  /\ first = "waits" /\ message # "none"
  /\ first' = IF message = "success" THEN "succeeded" ELSE "failed"
  /\ UNCHANGED <<options, pc, uid, gid, dir, path, thread, exit_notice, message>>

(***************************************************************************)
(* DeviceHandle::new: every step may fail.                                 *)
(***************************************************************************)
TunSocket ==
  /\ pc = "device"
  /\ pc' \in {"api", "fail_device"}
  /\ UNCHANGED <<options_vars, uid, gid, dir, path, thread, exit_notice, message>>

\* Mutant: the directory stays with its owner.
create_sock_dir_Keeps == UNCHANGED dir

\* SOCK_DIR is given to the user the privileges will be dropped to.
create_sock_dir ==
  dir' = IF uid = Root /\ options.login # NoLogin THEN options.login.uid ELSE dir

\* What may change the entries of SOCK_DIR.
Writable(owner) == uid \in {Root, owner}

register_api_handler ==
  /\ pc = "api"
  /\ create_sock_dir
  /\ \/ Writable(dir') /\ path' = TRUE /\ pc' = "listen"
     \/ pc' = "fail_device" /\ UNCHANGED path
  /\ UNCHANGED <<options_vars, uid, gid, thread, exit_notice, message>>

\* The rest of Device::new, and open_listen_socket.
Listen ==
  /\ pc = "listen"
  /\ pc' \in {"spawn", "fail_device"}
  /\ UNCHANGED <<options_vars, uid, gid, dir, path, thread, exit_notice, message>>

\* thread::spawn panics when there can be no more threads.
Spawn ==
  /\ pc = "spawn"
  /\ LET left == {t \in Threads : thread[t] = "none"}
     IN  IF left = {}
         THEN pc' = (IF options.drop THEN "setgid" ELSE "report") /\ UNCHANGED thread
         ELSE \/ thread' = [thread EXCEPT ![Min(left)] = "queue"] /\ UNCHANGED pc
              \/ pc' = "aborted" /\ UNCHANGED thread
  /\ UNCHANGED <<options_vars, uid, gid, dir, path, exit_notice, message>>

\* Mutant: main exits and tells nobody.
fail_Silent ==
  /\ pc \in {"fail_device", "fail_privileges"}
  /\ pc' = "failed"
  /\ UNCHANGED <<options_vars, uid, gid, dir, path, thread, exit_notice, message>>

\* send(&[0]).unwrap() and exit(1), which drops nothing; but a panic unwinds.
fail ==
  /\ pc \in {"fail_device", "fail_privileges"}
  /\ IF Heard THEN message' = "failure" /\ pc' = "failed"
     ELSE /\ pc' = IF pc = "fail_privileges" THEN "unwind" ELSE "aborted"
          /\ UNCHANGED message
  /\ UNCHANGED <<options_vars, uid, gid, dir, path, thread, exit_notice>>

(***************************************************************************)
(* drop_privileges, while the workers are at work                          *)
(***************************************************************************)
\* setgid and setuid: root may become anybody, others only what they are.
Allowed(id, wanted) == uid = Root \/ id = wanted

setgid ==
  /\ pc = "setgid"
  /\ IF options.login # NoLogin /\ Allowed(gid, options.login.gid)
     THEN pc' = "setuid" /\ gid' = options.login.gid
     ELSE pc' = "fail_privileges" /\ UNCHANGED gid
  /\ UNCHANGED <<options_vars, uid, dir, path, thread, exit_notice, message>>

setuid ==
  /\ pc = "setuid"
  /\ IF Allowed(uid, options.login.uid)
     THEN pc' = "check" /\ uid' = options.login.uid
     ELSE pc' = "fail_privileges" /\ UNCHANGED uid
  /\ UNCHANGED <<options_vars, gid, dir, path, thread, exit_notice, message>>

\* Mutant: both have to succeed.
check_Both ==
  /\ pc = "check"
  /\ pc' = IF Allowed(gid, Root) /\ Allowed(uid, Root) THEN "fail_privileges" ELSE "report"
  /\ gid' = IF Allowed(gid, Root) THEN Root ELSE gid
  /\ UNCHANGED <<options_vars, uid, dir, path, thread, exit_notice, message>>

\* "Validated we can't get sudo back again": setgid(0), and if that fails setuid(0).
check ==
  /\ pc = "check"
  /\ pc' = IF Allowed(gid, Root) \/ Allowed(uid, Root) THEN "fail_privileges" ELSE "report"
  /\ gid' = IF Allowed(gid, Root) THEN Root ELSE gid
  /\ UNCHANGED <<options_vars, uid, dir, path, thread, exit_notice, message>>

drop_privileges == setgid \/ setuid \/ check

(***************************************************************************)
(* main: its end                                                           *)
(***************************************************************************)
report ==
  /\ pc = "report"
  /\ IF Heard THEN message' = "success" /\ pc' = "wait" ELSE pc' = "unwind" /\ UNCHANGED message
  /\ UNCHANGED <<options_vars, uid, gid, dir, path, thread, exit_notice>>

\* DeviceHandle::wait joins the worker that was started last, and so on.
wait ==
  /\ pc = "wait"
  /\ LET threads == {t \in Threads : thread[t] # "joined"}
         last == Max(threads)
     IN  IF threads = {} THEN pc' = "drop" /\ UNCHANGED thread
         ELSE \/ /\ thread[last] = "returned"
                 /\ thread' = [thread EXCEPT ![last] = "joined"] /\ UNCHANGED pc
              \/ thread[last] \in Panicked /\ pc' = "unwind" /\ UNCHANGED thread
  /\ UNCHANGED <<options_vars, uid, gid, dir, path, exit_notice, message>>

\* trigger_exit, and clean, which does not mind whether a file can be removed.  The
\* process ends, and its other threads with it.  The device is read for this: while
\* wants_write is raised and nobody lowers it the program stays where it is.
Drop ==
  /\ pc \in {"drop", "unwind"}
  /\ \A t \in Threads : thread[t] # "panicked_writing"
  /\ exit_notice' = TRUE
  /\ path' = (path /\ ~Writable(dir))
  /\ pc' = IF pc = "drop" THEN "returned" ELSE "panicked"
  /\ UNCHANGED <<options_vars, uid, gid, dir, thread, message>>

(***************************************************************************)
(* The workers, and what may happen to the processes                       *)
(***************************************************************************)
Alive == pc \notin Ended

\* All but the first open a queue of the interface of their own, or panic.
open_queue(t) ==
  /\ Alive /\ thread[t] = "queue"
  /\ \/ thread' = [thread EXCEPT ![t] = "loop"]
     \/ t > 0 /\ thread' = [thread EXCEPT ![t] = "panicked"]
  /\ UNCHANGED <<options_vars, pc, uid, gid, dir, path, exit_notice, message>>

\* A signal or the monitor of the control socket ends a worker, and the notice the
\* others.
event_loop(t, asked) ==
  /\ Alive /\ thread[t] = "loop"
  /\ asked \/ exit_notice
  /\ thread' = [thread EXCEPT ![t] = "returned"]
  /\ exit_notice' = TRUE
  /\ UNCHANGED <<options_vars, pc, uid, gid, dir, path, message>>

\* A handler panics: update_peer of a known peer and set_key, which have the write lock,
\* or that of the interface, when there is no socket.
handler_panics(t) ==
  /\ Alive /\ thread[t] = "loop"
  /\ \E p \in Panicked : thread' = [thread EXCEPT ![t] = p]
  /\ UNCHANGED <<options_vars, pc, uid, gid, dir, path, exit_notice, message>>

Kill ==
  \/ /\ Alive /\ pc # "fork"
     /\ pc' = "killed"
     /\ UNCHANGED <<options_vars, uid, gid, dir, path, thread, exit_notice, message>>
  \/ /\ first = "waits"
     /\ first' = "killed"
     /\ UNCHANGED <<options, pc, uid, gid, dir, path, thread, exit_notice, message>>

(***************************************************************************)
(* Specification                                                           *)
(***************************************************************************)
DeviceHandle == TunSocket \/ register_api_handler \/ Listen \/ Spawn

Main == Fork \/ Detach \/ DeviceHandle \/ fail \/ drop_privileges \/ report \/ wait \/ Drop

Next ==
  \/ Main \/ Receive \/ Kill
  \/ \E t \in Threads :
       open_queue(t) \/ handler_panics(t) \/ (\E asked \in BOOLEAN : event_loop(t, asked))

\* System calls of main return, and a datagram that was sent is received.  A worker
\* may run for ever.
Spec == Init /\ [][Next]_vars /\ WF_vars(Main) /\ WF_vars(Receive)

-----------------------------------------------------------------------------
(***************************************************************************)
(* Properties                                                              *)
(***************************************************************************)
\* main.rs:174, "Notify parent that tunnels initialization succeeded": when the first
\* process says so the workers have been started, and unless it was asked not to, the
\* program runs as the user who has logged in and cannot be root again.
ReportIsTrue ==
  first = "succeeded" \/ pc = "wait" =>
    /\ \A t \in Threads : thread[t] # "none"
    /\ options.drop =>
         /\ options.login = [uid |-> uid, gid |-> gid]
         /\ ~Allowed(uid, Root) /\ ~Allowed(gid, Root)

\* The first process learns how the start went and ends, unless the other one ended
\* before it could tell: by a signal or a panic, or because daemonize failed in it.
FirstLearns ==
  first = "waits" ~>
    first # "waits" \/ pc \in {"killed", "aborted", "panicked", "undetached"}

\* api.rs:24, "we want to be able to delete the files there when we exit": a program
\* that had a device and returns, or panics, leaves no control socket, although it is
\* another user by then.
FileIsRemoved == pc \in {"returned", "panicked"} => ~path
=============================================================================
