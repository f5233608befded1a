# A TLA+ verification of `vless`

The repository bundles several programs around proxies and tunnels. This
directory holds the TLA+ modules that model its core, the TLC runs that check
them on small instances, and the TLAPS proofs of what holds for every instance.
Paths below are relative to the repository; `B/` stands for
`boringtun-boringtun-cli-0.5.2/boringtun/src/`.

## 1. Inventory

### The WireGuard implementation (`B/`, Rust)

| Part | State | Operations | What is hard |
| --- | --- | --- | --- |
| Session (`noise/session.rs`) | two keys, sending counter, replay window (`next`, `bitmap`) | seal a packet, open a packet (check, decrypt, mark) | the window is consulted, unlocked and marked later; ring of bits cleared by bits and words |
| Handshake (`noise/handshake.rs`) | `state`, `previous`, last timestamp, cookie, `mac1`, next index | format and receive an initiation, a response, a cookie reply | lost, duplicated, delayed and crossing messages; two outstanding handshakes |
| Tunnel (`noise/mod.rs`) | handshake, ring of 8 sessions, index of the current one, packet queue, timers | `encapsulate`, `decapsulate`, `handle_verified_packet`, `update_timers` | a session replaced while packets of the old one are under way; packets that wait for a session |
| Timers (`noise/timers.rs`) | nine stamps, age of each session, `want_keepalive`, `want_handshake` | `timer_tick`, `update_timers`, expiry | stamps are as coarse as the period of the timer; several timeouts over one state |
| Rate limiter (`noise/rate_limiter.rs`) | count, last reset, cookie secret | `verify_packet`, `reset_count` | a counter shared by all workers and reset by one; a secret that rotates under cookies that are kept |
| Device (`device/mod.rs`, `peer.rs`, `allowed_ips.rs`) | peers by key, by index and by address, endpoints, sockets | handlers of sockets, interface and timers; add, remove, clear peers; set key, port | handlers run in all workers at once; a peer's socket is opened and closed beside its use |
| Device lock (`device/dev_lock.rs`) | `wants_write`, read-write lock | `read`, `try_writeable` | a reader that upgrades gives the lock up in between; sleepers on one condition variable |
| Event poll (`device/epoll.rs`, `kqueue.rs`) | table of events by descriptor, bare pointers to them in the kernel | register, wait, re-arm, cancel, clear | an event freed while a worker has it in hand; a descriptor that is used again; a wakeup lost between the last read and the re-arming |
| API (`device/api.rs`) | the control socket | `get`, `set` with peer sections; a monitor of the socket's file | a command of many lines that fails in the middle; a panic in it; a file made as one user and removed as another |
| Program (`boringtun-cli/src/main.rs`, `device/drop_privileges.rs`) | two processes, the ids of a user, the workers | fork, make the device, start the workers, drop privileges, report, wait, clean up | every step may fail while another process waits to hear of it |
| `ffi`, `jni`, `serialization` | none | wrappers of `Tunn`, parsing of keys | - |

How they interact. Each worker thread runs `event_loop`: it takes a read lock
on the device, waits in epoll for an event, and runs its handler. The handlers
of sockets and of the interface call the methods of a peer's `Tunn`, each of
which runs under that tunnel's own write lock, and write what it returns to the
network or the interface. A periodic event calls `update_timers` on every peer.
An API `set` command upgrades the worker's read lock, telling the others to
yield, and changes the device. One worker that leaves its loop tells the others
through the exit notice.

What makes each correct: a session delivers no packet twice and refuses none
that is fresh; two ends that share a key are the two ends of one session, and
no key and counter encrypt two packets; packets that wait for a session are
pursued; silence, rekeying and expiry are noticed in time; an upgrade is atomic,
is served, and holds nobody up for ever; exit reaches everybody.

### The other programs

* `edge/proxies-main.rs` and its job `.github/workflows/RScanner.yml`: a daily
  scan for proxies. Up to 100 candidates in flight, six of them asking one of
  four hosts for their risk; counters and a list that all of them write; two
  reports that the job pushes. Correct when each candidate is counted and listed
  once, permits are given back, and the branch never gets half a report.
* `edge/cf-scanner.rs` and `.github/workflows/Preprocessor.yml`: a scan for
  Cloudflare addresses. Random candidates of fixed ranges, and of published
  ones if too few answer; ranking; four files. Correct when the best found are
  written, once each, and only hosts of allowed ranges.
* `edge/LoadBalance.js`, `all-in-one.js` and other workers: a relay between a
  WebSocket and a TCP socket with one retry through another address; caches and
  pages. Correct when bytes keep their order, and the retry loses none.
* `DNS over HTTPS/`: a proxy of queries; `Azadi-DNS` adds sessions and
  passwords in a key-value store.
* `edge/*.py`, `real address generator/`, lists, configurations, and stray
  single files of unrelated projects beside `boringtun`: nothing to model.

`PROJECT.json` lists every component with its status, and every hazard at its
line with the property that covers it or the reason none does.

## 2. Modules

| Module | Models | Extends or uses |
| --- | --- | --- |
| `AntiReplay` | what a session promises about counters: the abstract sliding window | - |
| `ReplayWindow` | `ReceivingKeyCounterValidator`, `Session::receive_packet_data` with several callers | instance of `AntiReplay` |
| `ReplayWindowProofs` | theorems about it | `ReplayWindow`, TLAPS |
| `MCReplayWindow` | symmetry of the callers | `ReplayWindow` |
| `Tunn` | one tunnel: handshake, ring of sessions, queue, timers, as operators on a record | - |
| `TunnPair` | two tunnels, a network, the device's handlers, restarts | `Tunn` |
| `TunnPairProofs` | theorems about it | `TunnPair`, TLAPS |
| `MCTunnPair` | symmetry of the two ends | `TunnPair` |
| `TunnTimers` | one tunnel against the clock and a peer that does anything | `Tunn` |
| `TunnTimersProofs` | theorems about it | `TunnTimers`, TLAPS |
| `DevLock` | the device lock, the event loops of the workers, API commands, exit | - |
| `Device` | peer tables, endpoints, connected sockets, set commands line by line | - |
| `DeviceProofs` | theorems about it and about the lock | `Device`, `DevLock`, TLAPS |
| `EventPoll` | the registry of events, the kernel's interest list, descriptors that are used again | - |
| `EventPollProofs` | theorems about it | `EventPoll`, TLAPS |
| `RateLimiter` | `verify_packet` and `reset_count` in several threads, and initiators that answer cookie replies | - |
| `RateLimiterProofs` | theorems about it | `RateLimiter`, TLAPS |
| `MCRateLimiter` | symmetry of threads and addresses | `RateLimiter` |
| `Startup` | the life of the program: two processes, device, workers, privileges, report, control socket | - |
| `StartupProofs` | theorems about it | `Startup`, TLAPS |
| `DailyJob` | the job of a day that both scans run in: checkout, failure, push | - |
| `ProxyScanner` | the scan for proxies and the job that publishes it | `DailyJob` |
| `MCProxyScanner` | its lists | `ProxyScanner` |
| `CfScanner` | the scan for Cloudflare addresses and the job that publishes it | `DailyJob` |
| `MCCfScanner` | its ranges, of addresses of four bits | `CfScanner` |
| `ScannerProofs` | theorems about both scans | `ProxyScanner`, `CfScanner`, TLAPS |

### ReplayWindow

`bitmap` is the set of the positions that are 1; `next` and `receive_cnt` are
the fields of that name. `QuickCheckPass`/`QuickCheckFail` are the first
critical section of `receive_packet_data`, `OpenFail` a tag that does not
verify, `MarkOk`/`MarkFail` the decryption followed by the second critical
section. The three loops that clear skipped counters are sets: `headEnd` and
`wordsEnd` are the values of `i` where the first two stop. `Session` takes
`&self` and does its own locking; `Tunn` today calls it under a write lock, so
the modelled interleavings are those the type allows, more than this caller
shows. The bound `MaxCounter + 1024 < 2^64` makes u64 sums natural sums.

### Tunn

A method that takes `&mut self` is an operator that returns the tunnel
afterwards, the datagrams it wrote and the packet for the interface. `Tunn`
holds its write lock through each, so each is one atomic step, including the
timer ticks and the replacement of sessions and handshakes it makes.
`format_handshake_initiation`, `encapsulate`, `send_queued_packet`,
`handle_handshake_init`, `handle_handshake_response`, `handle_cookie_reply`,
`handle_data` and `update_timers` bear the names of the code. `decapsulate` is
the entry for a datagram, and with `Repeat` (an empty datagram) that for the
flush; the packet a session opens goes through `validate_decapsulated_packet`,
where `Malformed` is one that is not IP or is shorter than it says.

Abstractions. Cryptography is symbolic: an ephemeral key is the number of keys
its owner has generated, a session key is the pair of ephemerals, a tag verifies
when both keys agree. The TAI64N timestamp of an initiation is ordered as its
ephemeral, because the stamper's clock does not step back (`stamp`, `after`,
`zero`). The window of a
session is the set `AntiReplay` allows, without a lower edge: at the counters
that occur the edge is not reached. `dst` has the room its documentation
demands. Byte counts and statistics are left out. `set_static_private` is left
out: `set_key` cannot obtain the exclusive reference it needs while a peer
exists.

### TunnPair

`net` is a set that only grows, so a datagram is delivered never, once or often
and in any order. `Deliver` is the handler of a datagram up to its first
write; if it wrote, the handler stays in its flush loop (`flushing`) and each
`FlushRound` is one call of `decapsulate` with an empty datagram. Other handlers
run in between. `Encapsulate` is the interface handler, `UpdateTimers` the
periodic event, `Restart` the removal and re-adding of a peer. The peer's
endpoint is taken to be known, so that `update_timers` is called, and its
packets to be allowed addresses.

### TunnTimers

The datagrams of the peer are exactly those a correct peer could send now: an
answer to an outstanding handshake, a new initiation, the next packet on a
session, a cookie. The variable `log` notes on the common clock when things
happened; the tunnel's stamps are only as good as its last `update_timers`. One
tick stands for the period of that event; the model runs it once per tick, and
everything else as often as it likes before and after it.

`NeverSilent` says what is promised for every setting of the persistent
keepalive. While an initiation awaits its answer `update_timers` sends no
keepalives, and repeats the initiation every `REKEY_TIMEOUT`; so with an interval
shorter than that (5 seconds) a tunnel can be silent for longer than the
interval. The attempt to prove the property showed this: an earlier form named
the interval alone, which is right for the durations of the run only.

### DevLock

`pc` follows a worker from `read()` through the event loop and the stages of
`try_writeable`. A critical section of the `wants_write` mutex that does not
block is one step; `read()` keeps that mutex while it waits for the inner lock,
so there it has an owner. `inner` is parking_lot's lock with priority for a
writer: `Ask` bars new readers, `Drain` waits for the others. `Upgrade` and `Ask`
are separate because the lock is free in between. `UpdatePanics` is `update_peer` on a
known peer or `set_key` beside peers. `Stop` is a signal, a removed control
socket, or a lost interface. A device registers one API event, the listener or the
inherited descriptor (`device/mod.rs:373`), and the event is one-shot, so that at
this commit a second worker can ask to write only after a panic. `ApiEvents` may be
larger: what is shown is the contract of `try_writeable`, which the comment at
`dev_lock.rs:87` states for any threads.

### Device

A peer object is its index, a connected socket its descriptor. `peers`,
`peers_by_idx`, `peers_by_ip` and `next_index` are the fields of `Device`
(indices start at 1 here, 0 is no peer), `peer[i]` has the key and the
`Endpoint` of a peer, `events` the part of epoll's table that holds handlers of
connected sockets. The handler of a listening socket is taken apart where it
gives its locks up: `Receive` (the datagram was accepted), `set_endpoint`,
`connect_endpoint` or `connect_fails`, `register_conn_handler`. An event is
one-shot, so there is one handler of `udp4` and one of `udp6` at a time. `Eof` is
the event loop's answer to a socket that was shut down, `Expire` the timer that
disconnects a peer. A set command begins when no handler runs (that is what
`DevLock` shows), and each of its lines is a step: it may end anywhere with an
error, and what it did until then stays. The addresses a section allows are
chosen when it is committed, since they are cleared after each commit.
`open_listen_socket` either succeeds or fails to bind. A socket's descriptor is
free again when nothing refers to it.

Left out: the `fwmark`, keepalive and preshared key of a peer, which change none
of this; failing registration of an event, which the code unwraps; and a device
without a key, which handles no datagram.

### EventPoll

`events` is the table by descriptor, `event[id]` the descriptor an event was
made for (`None` once it is freed), `interest` the kernel's list: a pointer and
whether it is armed. A worker's `hand` is where it is and the guard it has.
`Wait` takes an armed event and disarms it, which is what `EPOLLONESHOT` does;
`DropRearm` is the drop of the guard, which arms it again if its descriptor is
still registered. Each system call is a step of its own: the clearing of an
event frees it (`ClearFree`, `CancelFree`) before `EPOLL_CTL_DEL` (`ClearDel`,
`CancelDel`), and a registration puts the event in the table (`insert_at`)
before it adds it to the kernel (`register_event`), in the order of the code and
under the lock of the table where the code holds it. What the handlers do is what matters to the registry: read
until nothing is left, open and connect a socket, shut one down, or upgrade for
a set command, which listens on new sockets after it has cleared the events of
the old. A descriptor is free when the socket has no owner (`held`) and no
handler. `Device` has the peers behind these sockets, `DevLock` the lock; here
their guarantees are guards (`Upgrade`).

### RateLimiter

A worker in `verify_packet` is a `job` that takes its place in the count in one
step (`fetch_add`) and computes the cookie in a later one. A reset reads the
clock before it takes the lock (`ReadClock`, `ResetCount`). A cookie is the pair
of the address and the period of its secret, with the instant it was handed out
as history. An initiator is the part of `handshake.rs` and `timers.rs` that
concerns cookies: the last `mac1`, the cookie and its stamp, retransmission
after `REKEY_TIMEOUT`, clearing after `COOKIE_EXPIRATION_TIME`. The code stamps a
cookie with the last `update_timers`, so it may be cleared a tick earlier than its
arrival would have it (`early` in `UpdateTimers`). `log` is
history: resets, handshakes admitted since the last, the age of the last cookie
that was accepted, refusals in a row. `net` loses, delays and reorders. A
datagram whose caller gives no address (`NoAddr`; the C interface gives none) is
refused when its turn is beyond the limit.

### Startup

`first` is the process the user started, `pc` where `main` is in the one that
goes on. Every step that can fail does so in some behaviour: `daemonize`, each
part of `DeviceHandle::new`, each call of `drop_privileges`, the start of each
worker, and the opening of its queue, which it does on its own after success
may have been reported. A handler may panic too (`handler_panics`), which ends its
worker only; one that did so under the write lock leaves `wants_write` raised, and
`Drop`, which reads the device, then never ends. `Ended` tells the ends apart by what they run: a
`DeviceHandle` is dropped by a return and by a panic that has one, not by
`exit(1)` or a signal. `Writable` and `Allowed` are the kernel's rules for
files and ids.

### ProxyScanner

All tasks of the scan run in one thread and interleave where they await, so
that a step of a task (`Probe`, `AskNext`, `Register`) goes from one await to
the next. `at` is where the task of an address is, `queue` the semaphore's
queue, which hands a returned permit to its head (`Release`). `kind` is what
really is at an address; a proxy shows another address than the scanner's, an
edge shows that of its own. If the scanner's own address is not known (`own`), an
answer from it counts, as in the code. A report is its number of proxies and what
its tables say (`Report`, `Sections`), of all that are listed or of those whose
address no earlier one has (`Unseen`). What this scan shares with the next is in
`DailyJob`: `files` are those of the checkout, `main` those of the branch, `Cut` is
one that was truncated and not written, `Fail` ends a scan or its job anywhere,
and `Push` may be rejected.

### CfScanner

The candidates of a range are any set that the draws can give (`Draws`), with
the code's counts and offsets. A probe takes one of `Latencies` or fails; three
of them give the median and the loss. `results` and `found` are what is to be
written and, as history, the first result of every address that answered in
time. The tasks of a scan share only the list their results go to, so each is
one step. The order of equal results is that of their arrival, because the
code's sort is stable: `Sorted` puts each result at its `Rank`, which counts the
results that are better, or as good and earlier. `Merge` sorts once, after the
fallback's new results were appended; the code sorts the two lists before as well,
which a stable sort makes no difference to.

## 3. Runs

| Run | Question | Bounds |
| --- | --- | --- |
| `replay` | is the window exact and does it implement `AntiReplay`? | words of 2 bits, 3 words, counters to 9, two callers |
| `pair_restart` | keys, counters and deliveries across handshakes, rekeying by restart, and a hostile network | ring of 2, 4 ephemerals a peer, 1 restart each, 1 packet each, instants 0 and 1 |
| `pair_handlers` | do packets that wait always have someone to send them? | two handlers at each end at once, no restart |
| `timers` | do keepalive, rekeying, expiry come in time? | 7 ticks, 4 events |
| `devlock` | atomic upgrade, no starvation, exit | 3 workers, 2 API events, 2 commands |
| `device` | do the tables agree, and is a connected socket the one of the endpoint? | 2 keys, 2 peers in all, an IPv4 and an IPv6 address, 2 sockets, 1 allowed address |
| `rate_limiter` | is the limit kept, does a cookie prove an address recently, and is an initiator that answers admitted? | 2 workers, 1 reset, 1 initiator with 2 addresses, limit 1, 5 instants, 3 initiations, 1 other handshake |
| `event_poll` | is an event in one hand only, is no pointer left dangling, and is what arrives read? | 2 workers, 2 sockets at once, 3 events at once |
| `startup` | is a reported success one, does the first process learn what happened, is the control socket removed? | 3 workers, root and 2 users and groups |
| `proxy_scan` | is each address counted and listed once, and what does the branch get? | 3 addresses, 2 in flight, 1 permit, 2 risk hosts |
| `cf_scan` | are the best written, of allowed ranges, and does the scan end? | addresses of 4 bits, 3 priority ranges, 2 blocked ones, 3 answers of the API, 2 results wanted |
| `sections` | a statement of the sources that the code does not keep (section 5, item 1) | as `device` |

Why the bounds are enough for the question. In `replay` counters reach past
one and a half turns of the ring of 6 bits, so that skips end in each of the
three loops and clear everything. In the pair runs a ring of 2 slots with 4
indices makes a third handshake reuse a slot, 4 ephemerals allow each end two
handshakes as initiator and two as responder, and all datagrams ever sent stay
deliverable. The durations in ticks keep the order of the real ones
(`REKEY_TIMEOUT` < `KEEPALIVE_TIMEOUT` < `REKEY_ATTEMPT_TIME` and
`REKEY_AFTER_TIME` < `REJECT_AFTER_TIME`) where the horizon of the run reaches
them: 1, 2, 3, 2, 5. Seven ticks reach each of them, and two after another. The
expiry of the last keys after three times `REJECT_AFTER_TIME` needs 15 ticks and
is beyond this horizon; it ends in the same `give_up` as the expiry of an
attempt, which is reached. In `devlock` three workers give one that upgrades, one that
wants to, and one that reads. In `device` the two handlers can each move the
endpoint away under the other, two sockets are open at once, and a peer can be
removed and its key added again, by name or after clearing. In `event_poll` a
descriptor can be closed and used again while both workers are at work, and
there is an event to spare, so that a new one can be made before an old one is
freed. In `rate_limiter` the clock runs two and a half reset periods and past one
change of the secret, and an initiator has a first attempt and two retries,
which is what `NeverRefusedThrice` speaks of. In `startup` the third worker is one
that is neither the first, which shares the interface, nor the last, which is
joined first. In `proxy_scan` three addresses with two in flight and one permit
make one wait for the permit, one queue in the stream; the list has a repeated
line, another port, and an address that a domain names again. In `cf_scan` the
ranges include one of the size of the smallest sampled differently, a published
range that overlaps a blocked one, one inside it, an address found twice, and
an answer with too few IPv6 addresses.

The two pair runs stay apart because two handlers at each end together with
restarts exceed what can be searched; the hazards of the first are those of the
flush loops, of the second those of old datagrams.

What the properties say is in a comment before each. `QueuedIsRetried` holds
only because a handler that stored a session flushes; it is a property of
`Tunn` and device together. `SilenceIsNoticed` and `DataIsAcknowledged` ask that
two ticks lie between the events they compare, because within one tick the
stamps do not tell the order (section 5, item 3).

Deadlock. The pair and timer runs stop at their bounds, and the workers of
`DevLock` have all exited in its final states, so those cfgs do not check it;
`AllExit` and `WriterServed` say what would be a deadlock there. `Device` stops
after a panic under the write lock. The rate limiter stops at its bounds, the
program and the two scans at their end, where `FirstLearns`, `ProxyScanEnds` and
`CfScanEnds` say what would be a deadlock. `replay` and `event_poll` check it.

Fairness. `LockSpec` assumes weak fairness of `Work(t)` for each worker:
the scheduler runs every thread; a level-triggered notice stays in epoll's
rotation until a waiting worker gets it; handlers return, and a client ends its
command. No fairness is assumed of the outside: commands, signals and panics
may never come. `Device!Spec` assumes that handlers return, that a client ends
its command or hangs up (the code sets it no time limit), and strong fairness of
`Eof(fd)`: epoll's ready list is a queue, so a socket that is ready again and
again between commands is handed to a worker. `EventPoll!Spec` assumes the same
of the workers (weak fairness of `Step`) and, for the same queue, strong
fairness of the hand-out of each socket; nothing is assumed of arrivals or
commands. `Startup!Spec` assumes that the system calls of `main` return and that
a datagram that was sent is received; a worker may run for ever. The scanners
assume that each step is taken: every request they wait for has a timeout; and
for `CfScanner`, that drawing at random finds another address as long as there
is one. The other specifications state safety only.

## 4. Proofs

`ReplayWindowProofs` (for every word size, number of words, counter bound and
set of callers): `TypeCorrect`, `WindowIsExact`, `DeliveredAtMostOnce`,
`Implements`. The invariant is `TypeOK`, `WindowExact`, `AtMostOnce` and
`NextExact` (`next` is one more than the largest delivered counter). The last is
needed because a counter is judged by `next` and the bits, while the properties
speak of the delivered counters. The step that matters is a counter beyond
`next`: lemmas show that the three loops together clear exactly the positions
of the counters they skip, that whole words are cleared only at word
boundaries with all their counters skipped, and that two counters of one window
never share a bit. `Implements` maps each action to `Accept`, `Refuse` or a
stutter.

`DeviceProofs`, about the lock (for any workers, API events and number of
commands): `LockTypeCorrect`, `UpgradesAreAtomic`, `ReadersHeldBack`,
`YieldsAreForAWriter`. The invariant adds who may be where: at most one worker
is in the stages of an upgrade, and only while `wants_write` is raised; a worker
between the test and the lock holds the mutex; the owner of the write lock is in
a stage that has it.

`DeviceProofs`, about the device (for any keys, addresses, allowed addresses and
bounds):
`DeviceTypeCorrect`, `TablesAlwaysAgree`, `ConnectedAlwaysToEndpoint`,
`NeverStraySocket`, `RemovedStaysGone`. The properties are inductive together
with four facts. Indices from `next_index` on are not in use (`Fresh`), so a
new peer inherits no event and no route. A handler at work serves a peer of the
device that has an endpoint (`JobsServed`), because a command runs only when no
handler does (`CommandAlone`). No two peers have the same socket (`OwnSocket`),
so shutting one down harms no other. A socket that is about to be registered is
its peer's, or was shut down in between (`Registering`).

`EventPollProofs` (for any numbers of workers, descriptors and events):
`GuardsAreAlwaysSound`, `PointersAreAlwaysSound`, `DescriptorsAreAlwaysFresh`.
The invariant ties three things together. The entry of an event that a worker
has in hand stays in the kernel's list, disarmed, until that worker arms it or
removes it (`GuardsDisarmed`), so that `Wait` can give it to no one else. A
socket that was closed has no event and no entry (`Sockets`), and one that is
about to be registered is in one hand only (`Fresh`): its descriptor can be used
again at once. The command that clears the event of a listening socket, and so
frees what it has not in hand, is alone in the loop from its upgrade to its
return (`AloneInside`), which is why an entry may point elsewhere only while
nobody waits (`Pointers`).

`RateLimiterProofs` (for any threads, initiators and addresses, any limit and any
periods): `RateIsAlwaysBounded`, `CookiesAreRecent`, `NeverThreeRefusals`. The first needs that each
handshake admitted is in the count (`AdmittedAreCounted`) and that the periods of
all resets fit before the last one, while no thread holds an instant that is yet
to come (`ResetsFit`): the store of 0 is harmless because the instant that was
compared is the one that is kept. The second needs that a cookie, wherever it is
(with an initiator, in a datagram, in a job), is of the period in which it was
handed out, and that two instants of one period are less than a period apart.
The third follows an initiator over several attempts (`Track`). Its datagrams are
numbered by their `mac1` (`Numbered`); each attempt is at one place at most, in the
network, with a worker, or in the reply to it (`AtOnePlace`), so that no old refusal
is taken for that of the last attempt; and after a refusal the initiator has a
cookie for its own address, of the period of its next attempt or, after the first
refusal only, of the one just before (`Streak`). So the third attempt has a cookie
of its own period. The theorem needs that two retries fit into
`COOKIE_REFRESH`, and one into a `COOKIE_EXPIRATION_TIME` that ends a tick early
(`CookieAssumption`).

`StartupProofs` (for any number of workers and any users): `ReportsAreTrue`,
`FilesAreRemoved`. The invariant says what each step of `drop_privileges` has
reached so far (`StepsAreTaken`), that success is sent after them
(`SentAfterAll`), and that the control socket, once it is there, can be removed
by the user the program is and by the one it will be (`CanRemove`): that is what
`create_sock_dir` prepares before the privileges are dropped.

`TunnPairProofs` (for any ring of sessions, any durations, any length of the
queue, and any number of handshakes, packets and restarts): `NoncesUnique`,
`DeliveriesUnique`, `KeysAgree`, `QueuedAreRetried`. Nothing is said about order
or loss, so the invariant speaks of one tunnel and the set of all datagrams sent
so far (`Good`, one part for each property), and a step of one end has to keep
that of both.

* Each handshake message has an ephemeral of its own (`EphsDiffer`), and an answer
  that is awaited belongs to an initiation that was sent (`AwaitedWereSent`).
* A session was made from an initiation and its response, with their indices
  (`SessionsExchanged`); since both messages are determined by their ephemerals,
  `KeyAgreement` follows.
* A key is `Past` when no handshake yields it any more: the response to an
  initiation is accepted once, and a repeated initiation is refused by its
  timestamp. The key of every session, of every datagram of data and of
  everything accepted is past, so a session that is new in its slot has a key
  that nothing was sealed with, and no counter of it was used or accepted
  (`NoncesUsed`, `Accepted`). This is the step that a replaced slot, an expired
  session or a peer that was removed and added again might break; the ephemerals
  go on counting over a restart, as fresh keys do.
* A packet is in one datagram or once in the queue (`PacketsOnce`).
* `NonceUnique` compares two numbers, so the keys and counters used are counted
  (`NoncesCounted`, with the library's facts on cardinality).

`QueuedIsRetried` is kept by every step on its own, given the invariant: a session
leaves only together with the queue, or with an initiation, or before a flush.

`TunnTimersProofs` (for any durations, any persistent keepalive, any number of
events and any horizon): the invariants `GaveUpEverything`, `SessionsAreYoung`,
`AttemptsAreBounded`, `AlwaysHeardFrom`, and the action properties
`SilenceNoticed`, `DataAcknowledged`. The properties speak of instants, the code of
stamps that are as old as the last `update_timers`. The invariant has two kinds of
parts. `Timely` says on which side of its instant each stamp is: that of the
session in a slot, of an attempt and of what was sent is no later (`Young`,
`Attempting`, `SentSince`); that of data sent or received no earlier than one tick
before (`Awaiting`, `Owing`); that of what was heard no later, but before there is
a session, when the stamps may have been reset (`HeardSince`). This holds also in
the midst of `update_timers`, when the clock has been set and old sessions are gone
(`AgedFrom`). `Bounded` and `Wanting` say what the last run saw to: how old an
initiation, its attempt and a silence may be, and that a flag which was cleared has
served its purpose. A session must have a key no earlier session had, or its birth
would not be noticed (`KeysUsed`). Every step of the tunnel sends nothing, makes an
initiation, seals a packet, makes a session, or hears something that makes none:
there is one lemma for each (`NothingKeeps`, `StartedKeeps`, `SpokeKeeps`,
`NewSessionKeeps`, `HeardKeeps`), and one for giving up.

`ScannerProofs`, about the scan for proxies (for any list, domains, answers, number
of candidates in flight, permits and risk hosts): `ProxyTypes`,
`EveryCandidateCounted`, `PermitsRationRisk`, `ReportsAreWhole`. The queue holds an
address once and none that was taken from it (`CandidatesAreNew`), since `Insert`
adds only what it has not seen; that the loop over a list keeps this is shown
without induction over data: a step that breaks it would be the least of a set of
naturals (`NoLeast`). Permits that are free and tasks that ask make `Permits`
together (`PermitsAreHeld`), and the semaphore's queue is the tasks that wait, each
once (`QueueIsOfWaiting`), so that a permit is given to a task that has none. What
is listed has ended as live (`ListedAreLive`), so no task can list its address a
second time; and one that will be listed has the code of an answer (`CodesKnown`).
The reports agree because the second leaves out addresses that were listed before, and there are
none; what the files hold at each stage of the writing is `ReportsWritten`.

`ScannerProofs`, about the scan for Cloudflare addresses (for addresses of any
width, any ranges, sample sizes, latencies and limits): `CfTypes`,
`TheBestAreWritten`, `OnlyHostsAreWritten`. The lists are filled in the order of the
phases (`FilledInOrder`), an address is probed once in a scan and is no
candidate afterwards (`ProbedOnce`), `found` is the first result of each address
that is in one of the two lists (`FoundIsListed`), and candidates and results are
hosts of ranges that allow them (`OnlyAllowed`). Of the sort it is shown that ranks
are different, grow with the order and fill the numbers from 1 on (`RankGrows`), so
that sorting permutes and orders (`SortedFacts`, `SortedItems`), that its first
items are the best (`FirstAreBest`), and that merging leaves each address with its
first result (`MergeFacts`). `Remainder` and `OffsetIsHost` are the arithmetic of
masks, for ranges that are aligned.

The inductive invariants of the pair, the timers, the initiators and both scans
were checked by TLC on the instances of the runs, that of the timers also on one
whose persistent keepalive is shorter than `REKEY_TIMEOUT`, before they were
proved.

Assumptions are those the modules name: sizes, periods, durations and numbers of
threads are positive naturals (`SizesAssumption`, `TunnAssumption`,
`PollAssumption`, `LimiterAssumption`, `StartupAssumption`), the ring of sessions
divides the session indices (`mod.rs:41` asks for a power of two), a tunnel has two
ends (`PairAssumption`), bounds and users are naturals, `Nobody` is no worker,
`NoAddr` no address. `DataAcknowledged` needs `REKEY_TIMEOUT <= KEEPALIVE_TIMEOUT`
(`TimersAssumption`; 5 and 10 seconds, `timers.rs:16`): while a handshake is in
progress nothing but its initiation acknowledges data. `NeverThreeRefusals` needs
`CookieAssumption` (`rate_limiter.rs:16`, `timers.rs:16`, `18`: 128, 120 and 5
seconds): two retries fit into the life of a secret. For the scanners, sizes are
positive, lists are sequences of what the code parses (`ScannerAssumption`), and
ranges are aligned to their prefix and within the address space
(`ScanAssumption`). TLC evaluates them all in the runs.

Every invariant that a run checks is a theorem. Only model-checked: liveness under
fairness (`WriterServed`, `AllExit`, `ShutIsClosed`, `IsServed`, `FirstLearns`,
`ProxyScanEnds`, `CfScanEnds`), which the prover does not reach.

## 5. Where the sources say otherwise, and what the models show beside

A statement of the sources that a run refutes (`PROJECT.json`, "findings"):

1. A new peer section (`device/api.rs:335`) begins with the endpoint, the
   removal and the other flags of the one before (run `sections`).

Facts that the modules contain because the code does, and that no property
forbids:

2. Two handshakes in flight (`noise/handshake.rs:547`, `770`): an initiation
   received while one is outstanding, then a flush, forgets the outstanding one.
3. Unanswered data (`noise/timers.rs:119`, `265`): events are stamped with the
   last `update_timers`, so that data sent in the tick of the last datagram
   heard is never found unanswered.
4. Giving up (`noise/timers.rs:202`): the expiry of the old keys ends an attempt
   that has just begun and drops the packet that began it. After giving up,
   `Timers::clear` has also moved the stamp of the cookie, which is therefore
   kept for longer than `COOKIE_EXPIRATION_TIME`.
5. Temporary yields (`device/dev_lock.rs:54`, `90`): after a panic under the
   write lock the others sleep for ever, and so does the `Drop` of the
   `DeviceHandle` (`device/mod.rs:262`), so that the program neither ends nor
   removes its control socket.
6. "Not connected" (`device/mod.rs:399`, `762`): a `listen_port` that cannot be
   bound leaves no listening sockets, and the next packet of the interface
   panics.
7. A tunnel driven through the C interface passes no address, so beyond the limit
   its handshakes are refused without a cookie (`noise/rate_limiter.rs:170`).
8. `device/epoll.rs:122` has the period of an event counted from the release of
   its guard; the timerfd has a fixed interval, which goes on while the handler
   runs, and one read takes all expirations that have passed.
9. The start (`boringtun-cli/src/main.rs`): when `daemonize` fails in the child
   (line 137), a thread cannot be started, or the daemon is killed, nothing is
   sent and the first process waits for ever; `FirstLearns` allows for these.
   Success is reported (line 175) before the other workers have opened their
   queues, whose `unwrap` (`device/mod.rs:201`) may panic afterwards, which ends
   the program through `wait`. `exit(1)` after a failure to drop privileges drops
   no `DeviceHandle`, so the control socket stays.
10. The control sockets of all instances share one directory, which is given to
    the user of the instance that was started last (`device/api.rs:27`): one that
    has become another user cannot remove its own.
11. The scan for proxies: if the scanner's own address is not known, addresses
    that answer themselves count as live (`edge/proxies-main.rs:249`); a score
    that is missing is -1 and is listed before all others; an empty list of
    candidates publishes an empty report; a country code whose second byte is
    inside a character panics (line 322) and ends the scan of that day.
12. The scan for Cloudflare addresses: the blocked ranges contain some of the
    priority ranges, since they are only applied to the fallback
    (`edge/cf-scanner.rs:335`); an address found twice keeps its first result;
    one whose three probes take longer than five seconds together is dropped,
    though some answered; IPv6 addresses are written without a probe; and with
    ranges that hold fewer of them than wanted the draw never ends (line 415).

## 6. Not modelled

Within the modelled components: statistics, logging, the layout of texts, the
`fwmark` and the mtu, the `get` command, keepalive and preshared key of a peer as
the API sets them, `set_static_private`, and failing registration of an event,
which the code unwraps. Cryptography is symbolic throughout. Networks that are
not aligned to their prefix, in answers of Cloudflare's API, are assumed away.

Components left out, and why:

* `noise/errors.rs`, `udp_unix.rs` and the rest of `tun_linux.rs`: single system
  calls and values, with no state of their own. `kqueue.rs` and
  `tun_darwin.rs` are the macOS counterparts of what is modelled.
* The lookup of `allowed_ips.rs` is that of the `ip_network_table` crate;
  `Device` has its table.
* `ffi`, `jni` and `serialization` wrap calls of `Tunn` in a lock and convert
  pointers and keys; they add no state to what `TunnPair` has.
* `edge/LoadBalance.js` and the other workers: the relay is a chain of stream
  callbacks whose order and back-pressure are the runtime's, not the
  repository's; the rest answers requests without state.
* `DNS over HTTPS/`: what could go wrong between its handlers depends on an
  eventually consistent store that the repository only calls.
* `edge/*.py`, `real address generator/`: scripts and pages that fetch and
  format; lists and configurations; and the files of unrelated projects beside
  `boringtun` (`language.rs`, `backend.py`, `server.py`, `lapce-core`, `src/` and
  others) that no build file reaches.
* `integration_tests`, benches and tests of `boringtun`: read as documentation.
