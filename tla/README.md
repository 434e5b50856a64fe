# h3robot: TLA+ models of the message bus and what it stands on

h3robot is the software of a cleaning robot: five Linux processes (database server, network
server, peripherals server, robot schedule, supervisor) over a small platform library,
`src/src/lib_bsp`. The processes talk over **DP**, a publish/subscribe and request/reply bus with
a TCP server of its own; DP runs on **packet sockets**, every process runs on **event threads**,
and settings are kept in a **key-value store** of files. This project models these four, because
everything else rests on them and because their faults are races, lost messages and power
losses, which tests hardly reach.

## 1. Inventory

| Part (under `src/src/`) | State | Operations | Hard behaviour | What makes it correct |
|---|---|---|---|---|
| DP server, `lib_bsp/eventservice/dp/dpserver.cpp`, `dpagent.cpp` | agents by id, agents by method, per agent socket, pid and methods | accept, set name, listen, remove, broadcast, forward request, route reply, close | clients die at any moment with packets in flight; agent id packed into 16 bits | registries agree; one listener of a REQUEST; a reply goes to its caller, once; no echo |
| DP client, `dp/dpclient.cpp`, `event/signalevent.cpp` | id counter, request map, signal pool, method table, socket | blocking send, listen, remove, reply; service thread reads replies, breaks, reconnects, re-listens | user threads, service thread and local workers share messages with few locks; a timeout races a late reply | a call returns once, with its own answer; no signal shared; nothing left behind |
| Event threads, `event/thread.cpp`, `event/messagequeue.cpp`, `net/networkservice.cpp` | posted, delayed and sent messages, stop flag, wake-up event | Post, PostDelayed, PostAt, Send, Get, ReceiveSends, Quit, Wait | nested sends, wake-ups used up by the wrong wait, stop racing a post, 32-bit clock | no lost wake-up; sends return; timers in order; nothing pending is dropped |
| Packet sockets, `net/asyncpacketsocket.cpp`, `net/networktinterfaceimpl.cpp` | read and write buffers | framing, asynchronous write, close | partial writes, reads cut anywhere, close while writing | packets whole and in order; nothing that waits is forgotten |
| Key-value store, `lib_bsp/kvdb` | one file per key and a backup | set, get, delete, clear, backup, restore | power loss in a write, failed file operations, Clear without the lock | an old or the new value, never neither, never a part of one |
| Watchdog, `lib_bsp/watchdog` | module table in shared memory | register, feed, set timeout, check, reset | unlocked feeds against the scan; restarted server | a stuck module is reported, a healthy one is not |
| Supervisor, `run_app/ipc_daemon` | running services, database and backup | start, monitor, stop, factory reset, upgrade | monitor restarts what reset kills; torn copies | a reset leaves the default database |
| Robot schedule, `lib_app/robot_schedule/schedule` | job command, robot and cleaning state, timers | set and take a command, timers | four threads, no locks | no command lost |
| Navigation socket, `lib_app/robot_schedule/socket` | linked queue, thread pool | enqueue, dequeue | two locks for one queue | no message lost |
| Database, network and peripherals servers, `lib_app` | SQLite, cloud sessions, devices | request handlers of the bus | I/O | outside the models |
| HTTP, vty, log, util, base, mem | | | text and I/O | outside the models |
| `lib_bsp/shmc`, `third_part` (boost and others), ST sensor driver | | | vendored | outside the models |

How they interact: a user thread calls `DpClient::SendDpMessage`. If a listener lives in the
same process, `DpLocalDisp` posts the request to that client's event thread and the reply
triggers the caller's signal directly; otherwise the packet goes to the DP server, which
forwards it to the listener's connection with the sender's agent id packed into the message id,
and takes the id out of the reply to find the way back. The client's service thread looks the
id up in `request_map_` and triggers the signal. Server, service threads and workers are event
threads: each sleeps in `NetworkService::Wait` and is woken by posts, sends, timers and sockets.

The hazards the models are about, each at its line, are listed in `PROJECT.json`. Others that were
met, in parts no module covers or at a level of detail none goes into:

- bus client: `packet_socket_` is a `shared_ptr` replaced without a lock (`dpclient.cpp:172`);
  `ListenMessage` changes `request_map_` without `dp_req_crit_` (`:799`) and holds `method_crit_`
  for up to 5 s, while local senders wait for it under `dp_mutex_` (`:778`);
- sockets: `Wait` holds the lock of `NetworkService` while handlers run (`networkservice.cpp:1157`);
  `IsConnected` tests a pointer and then uses it (`networktinterfaceimpl.cpp:115`);
- key-value store: `ReadFile` recurs as long as an old file cannot be rewritten
  (`kvdboperatefile.cpp:385`); its DP server answers `RET_OK` whatever `SetKey` returned
  (`kvdbserver.cpp:120`);
- watchdog: feeds without the lock against a scan that read the clock before (`watchdog.cpp:234`),
  and a table cleared under modules that keep their keys (`:203`);
- robot schedule: a command set meanwhile is overwritten by `EJOB_NULL` (`RobotSchedule.cpp:229`), a
  thread replaced while it runs (`:198`), state changed without a lock (`DateModel.cpp:127`), timers
  cancelled from callbacks (`heap_timer.cpp:43`, `wheel_timer.cpp:52`), a queue with a lock for each
  end (`msgqueue.cpp:68`).

## 2. Modules

### DpBroker: the server and its connections
`DpServer`, `DpAgent` and `DpAgentManager`. One event thread runs all their handlers to the
end, so a handler is one action, with its lookups, registrations and sends. A connection, its
socket and its agent are one element of `Conn`; a reconnect is a fresh element with the same
process. Connections are FIFO and may die with packets in flight. Clients (`dpclient.cpp`) are
the environment: they do whatever the library lets them, in any order. `OnSocketConnectEvent`
publishes the socket (`Connect`) before it sends the name (`SetName`), and the other threads of a
client, which look at the socket without a lock, may use it in between. `RemoveMessage`
(`SendRemove`) does not wait for a `ListenMessage` that waits for its answer (`SendListen`), because
the two take different locks. A lost connection clears the calls that wait, not the requests already
handed to the application (`todo`). A payload is the
identity of the call it belongs to, so a property can say whose answer a packet is.
`dp_agents_`, `method_agents_`, `agent_id_`, `method_map_`, `remote_pid_` are the members of
those names; `srv_agents` is `DpServer::dp_agents_`. The message id is a pair, the agent part
modulo `IdMod` (2^16 in the code). Two history variables name what the code leaves open: `early`
(the connection carried an `ADD_MESSAGE` before its name) and `removed` (the methods removed while
`ListenMessage` waits).

### DpCall and DpClient: the blocking call
`DpCall` is what `dpclient.h` promises the caller: a call blocks, then returns once, with a
failure or with a success whose response, if any, answers this very call. `DpClient` is one
`DpClientImpl` with user threads, service thread and local worker as separate processes. A step
ends where another thread can run: at a lock, a signal, a socket, or an unlocked access to a
shared field of the message. So `is_timeout` and `TriggerSignal`, the two halves of
`++message_id_`, and the map operations outside `dp_req_crit_` are separate steps. The signal of
`Init`, which `OnSocketConnectEvent` triggers, belongs to `DpSession`. The
refinement `DpClient => DpCall` maps a call to "returned" once its thread is back.

### DpSession: how a client stays connected
One `DpClientImpl` again, seen from its connection: `Init`, `ReConnect`, `ReListen`, `ListenMessage`
and `RemoveMessage` against connections that come, come late, fail and break. The threads are the
one of `msg_proc_evs_` (`"msg"`), a user in `ListenMessage` (`"user"`), a user in `RemoveMessage`
(`removing`) and the service thread (`svc`). `ListenMessage` holds `method_crit_` from its start to
its return, so one caller stands for any number; `RemoveMessage` holds `dp_req_crit_` instead, so
one of it may run beside, with its erase and its send as two steps; and `ReListen` walks
`method_map_` under no lock: `cursor` is its iterator. The agents of the server are those of
`DpBroker`, reduced to what this client registered on each connection (`regs`). Signals are pooled
as in `DpClient`, because a connection that comes after its `Init` has timed out triggers a signal
that is back in the pool. Message ids are fresh here.

Four history variables say what the properties except. `early`: the last `Init` was ended by such a
late trigger, before its own attempt had an outcome. `wild`: `RemoveMessage` erased the element the
iterator of `ReListen` stood on, after which the walk may go anywhere. `crossed`: the methods of
which, the last time, one of `ListenMessage` and `RemoveMessage` changed `method_map_` between the
other's change and its send, so that `ADD_MESSAGE` and `REMOVE_MESSAGE` may go out in the wrong
order. `accepted`: the methods whose last registration the server agreed to; a `REQUEST` method that
is refused because the server has not yet noticed the end of the old connection is not among them,
and is indeed lost.

### PacketChannel and PacketSocket: the packets under the bus
`PacketChannel` is what the bus relies on: packets arrive whole, in order, once, and all of them
while the connection is up. `PacketSocket` is one direction of a connection: `AsyncPacketSocket`
over `AsyncSocketImpl` on both sides and the kernel in between, which takes and gives any number of
*units*, so that a header, a block or a packet may be cut anywhere. `crit_` is held by the service
thread while it sends (`writer = "sending"`); a user thread appends under it and posts after it.
`IsChannel` is the refinement, liveness included. It excepts what the code does not keep: a socket
reported readable that has nothing to read is deaf from then on (`spurious`), because
`SocketReadEvent` returns with `DE_READ` removed. `TailDelivered` excepts a stream that ends exactly
where `Recv` has filled a block: `Recv` then returns 0 and throws away what it read (`eaten`). The
Base64 encoding of packets is left out: no socket of the bus turns it on.

### Kvdb: the key-value store
`KvdbOperateFile` behind `KvdbNetClientImpl`. A file is a content of up to four parts (flag,
length, checksum, data), written in that order; a crash or a full disk leaves a prefix, of a text of
the old format too when the folder is copied. `crit_`
serialises all calls but `Clear` and `SetProperty`, which may come between any two file operations of
the call under way. Files of the old format are converted when they are read, as the code does;
the rules of `kvdbparamcheck.cpp` are the set of values they accept. Two history
variables name what the code does not keep. `exposed`: one copy of the key is known to be older than the
last successful `SetKey`. `mistaken`: pairs of a key and a text nobody set, marked at the step of
a read that makes the text: `ReadOld` takes a main file without a flag that is empty or a part of a text
for a value of the old format; `AfterData` takes a record cut off in its header for one of length
0; `Convert` could not open the old file to rewrite it, so that `ReadFile` calls itself and appends the
text to what it has (`Joined`). A mark is about that text only; another wrong text of the
same key is still an error.

`SetKey` of the empty value is left out: `DataAssumption` says that `Value` does not contain it.
`WriteKey` accepts it, replaces both files by an empty record and reports a failure, because
`write_data` gives -1 for a count of 0.

### EventThread: threads, queues and the select loop
Each thread has a stack of frames: `Get`, `ReceiveSends`, a handler, `Post`, `PostDelayed`,
`Send`, each with the place it has reached. That is what makes nesting visible: a handler that
sends, waits, and while it waits serves handlers sent to it, or socket events, which send
again. `crit_` is never held between two steps; reads the code makes without it (`fStop_`,
`has_sends_`, `*ready`) are steps of their own. `fWait_` and the eventfd belong to the thread's
`NetworkService` and are shared by nested waits, as in the code. `process_io` is ignored, as
`Wait` ignores it. `Clear` is one step under the lock; since messages have no handler or id in
the model, any non-empty part of a thread's queues may be what `Match` picks. Senders are event
threads (`AutoThread` is not modelled).

### How they fit
`DpBroker` relies on the event thread for "one handler at a time" and on FIFO delivery per
connection, which `PacketSocket` shows by implementing `PacketChannel`. `DpClient` treats the
server as an environment that may answer late or never, which is weaker than what `DpBroker`
guarantees. `DpSession` composes a client with the registrations of its agents in the server,
across connections.

## 3. Runs

| Run | Question | Result |
|---|---|---|
| broker | registries, unique listener, confirmed means bound, replies go home, one answer, no echo, unbound only by the owner | hold |
| broker_live | every call is answered unless a client is lost; a lost client is forgotten | hold |
| client | the client implements `DpCall`; every call returns | hold |
| client_pool | types, no signal shared, map holds only calls in progress, with colliding ids | hold |
| client_stale | success means answered | **violated** |
| session | a client without connection is not given up; registrations outlive connections; what was removed does not come back, unless listen and removal of it overlapped | hold |
| socket | no unit lost, no data forgotten, the end of the stream delivered; the sockets implement `PacketChannel` | hold |
| event | no lost wake-up, a send returns only after its handler, types | hold |
| event_live | with `Clear`: sends return, handled or cleared; posts are handled or cleared; a thread does not sleep past a delayed message | hold |
| event_quit | what is pending is delivered before a stopped thread ends | **violated** |
| kvdb | a value in two copies survives; reads in safe mode return a recent value somebody set, with three named exceptions | hold |
| kvdb_cutoff | a damaged main file makes the backup be read | **violated** |

The three violations are disagreements between the code and its own comments:

- **client_stale.** The service thread tests `is_timeout` and then triggers the signal; the
  timing-out caller sets `is_timeout`, resets the signal and returns it to the pool without the
  lock. A trigger after the reset stays in the pooled signal, and the next call that draws it
  returns success at once, unanswered.
- **event_quit.** `Get` finds the queue empty under the lock and reads `fStop_` after releasing
  it. A post completed in between, followed by `Quit`, is left behind.
- **kvdb_cutoff.** A main file that a crash left truncated has no flag, so `ReadFile` takes it for
  the old format, writes it back as a record of an empty value and succeeds; the backup is never
  read.

Where a property stops, because the code does:

- `RepliesGoHome` holds while the agents numbered so far fit the agent field of the message id.
  `HandleDpMessage` cuts the 32-bit agent id to 16 bits and ids are never reused: with
  `IdMod = 2` and three connections TLC shows a reply that reaches another client.
- `KeepsPromise` is checked with one thread per client. `message_id_` is incremented without a
  lock (an atomic increment is commented out beside it), so two threads can get one id and the
  reply of one goes to the other. With two threads `MapOnlyInFlight` and `SignalsExclusive` still hold.
- `DelayedNotForgotten` is checked away from the wrap of the 32-bit clock. `DelayedMessage::operator<`
  compares times as plain numbers, `Get` with the wrap-aware `TimeIsLater`: around the wrap (every
  49.7 days) a later message hides an earlier one.
- `ConfirmedIsBound` excepts a method removed while `ListenMessage` waits for it: the server reads
  `ADD_MESSAGE` and `REMOVE_MESSAGE`, and `ListenMessage` returns a success for a method that is no
  longer bound.
- `NoEcho` excepts, as to the other connections of the same process, an agent that began to listen
  before it was named: its pid is -1 until `SET_NAME` is read, and what its process sends comes
  back. That a connection never gets its own message back has no exception.
- `NoGhost` excepts `crossed`: insert (`dpclient.cpp:779`), erase and `REMOVE_MESSAGE` (836, 844), then
  `ADD_MESSAGE` (800) leave a registration of a method the client has removed. TLC finds
  it when the exception is dropped. `Registered` excepts the reverse order.
- `NeverInvents` and `ReadRecent` except `mistaken`, the three texts of section 2, and `CrashSafe` a
  main file with such a text.
- `NotGivenUp` and `Registered` except `early`: an `Init` deceived by a late connection may have its
  own attempt fail, and then no reconnect is posted; or its connection replaces the one `ReListen`
  has used.

### Bounds
- *broker*: three connections of two processes, one method. `c1` calls; `c2` does everything and
  may be lost; `c3`, of the same process as `c2`, listens and may do so before it is named
  (`Hasty`); `c2` numbers two packets, the others one. Two connections of one process are needed
  for the echo rule, three for two rival listeners and a caller, two packets for a listen with a
  removal inside and one after it. 1.6 million states. `broker_live` uses two connections, each
  of which does everything.
- *client*: two calls, two signals, one broken connection; every race found or excluded is
  between two calls. `client` has one thread because two threads break the promise by the id
  race. `client_pool` makes ids collide at once (`IdMax = 1`).
- *session*: two methods, one of them of type `REQUEST`; two connections, used again once the server
  has noticed their end; two signals, one for each thread that waits; one break and two calls of the
  user, which are enough for a listen and a removal that overlap either way. A late connection, a
  second `Init` and a `ReListen` overlapped by a removal all occur within these. Connections and
  signals are interchangeable (symmetry): 2.3 million states.
- *socket*: two writers, two packets with 0, 1 or 3 units of data, headers and blocks of two
  units, batches of two blocks and three units in the kernel, so that header, block, batch and
  packet boundaries fall together and apart.
- *event*: two threads; three messages, since the wake-up that `Send` makes good is only missed by a
  post and a send inside a send; two socket events, so that both threads can start something; either
  thread may be told to stop. `event_live` has the clock, two delays and `Clear` instead, with two
  messages. Symmetry is used for invariants only.
- *kvdb*: one key, two values, four calls and one crash or failed operation, next to a `Clear`; the
  files of different keys never meet except in `FoldCopy`. One failure is enough for a conversion
  that cannot open its file. 2 million states. `kvdb_cutoff` needs two calls.

Deadlock checking is off in all runs: clients and handlers may fall silent, and the bounds on
calls, packets and socket events end every behaviour.

### Fairness
- *broker_live*: the server's and the clients' event threads run, and an application replies to
  the requests it is handed. Nothing is assumed of new calls or losses.
- *client*: threads inside a call run and `select` times out; the service thread leaves its
  lock. Nothing is assumed of the server, the worker or the connection.
- *socket*: the two service threads go on while they have something to do, and a user thread in
  `AsyncWrite` comes to its post. The kernel moves bytes as part of these steps.
- *event_live*: threads get the processor, handlers end and time passes. Nothing is assumed of
  sockets, or of what handlers start.

## 4. Proofs

All theorems hold for every number of connections, methods, threads, signals and calls, under
the named assumptions of the modules (finite connections, types of the constants). Each rests on
an inductive invariant that TLC checked first.

- **DpBroker_proof.** `TypeCorrect`; `RegistryAlwaysConsistent` and
  `RequestListenerAlwaysUnique` from `RegistryInv`. `RegistryConsistent` is not inductive by
  itself: accepting must give an id no agent has, which `AgentsNumbered` (ids in use lie between 1
  and `agent_num_`, an agent without a socket has id 0) supplies; and a refused or accepted
  listen keeps the unique listener because `method_agents_` is exactly what `CheckMessage` sees.
- **DpBrokerFlow_proof.** `RepliesAlwaysGoHome`, as long as the agents numbered so far fit the agent
  field (section 3 says why this is needed), and `NeverEcho`. The invariant `FlowInv` follows a call
  round its whole way: every request, forwarded request, request in a handler's hands and reply
  carries an id that leads home (`Homed`), and an agent that listens has its name, or a thread of
  its client overtook `SET_NAME` (`NamedFirst`), which is what the test on the pid needs.
  `NeverEcho` has the exception of `NoEcho`.
- **DpBrokerCalls_proof.** `OnlyOwnerUnbinds` is an action property: one lemma (`BindingStep`) says
  what any step may do to a binding. `ConfirmedAlwaysBound` from `ListenSound`, about both
  queues of a connection: a success the client still waits for was sent after all its removals
  were read but those that fell into the wait (`removed`), and an answer it no longer waits for has
  another id. `AnsweredAtMostOnce`,
  under the same bound on agents as `RepliesAlwaysGoHome`, from `CallInv`: a call is in one
  place at most on its way (`Once`), and a new call has an id no earlier one has (`Numbered`).
- **DpClient_proof.** `TypeCorrect`, `SignalsAlwaysExclusive`, `MapAlwaysInFlight`, together
  inductive as `ClientInv` with `CallsOwned` (threads in a call own different calls) and
  `MapKeyed` (an entry sits under its call's id, so erasing by id removes nobody else's call).
- **DpSession_proof.** `SpecTypeOK`, inductive with `Holds` (a thread that waits has a signal, one
  that listens or removes a method); `SpecNotGivenUp` from `Recovering`: while `Init` waits, a
  connection its attempt has brought is still there or its loss has posted a message, and `early` is
  false. `SpecRegistered` and `SpecNoGhost` from `SessInv`, seven parts that say how connections, the
  threads, the attempt under way, calls, their answers and the registrations the server keeps or is
  about to drop belong together. For the methods no overlap has touched (`Live`), an
  agreed one is registered, or its walk by `ReListen` is still to come, and no removal
  follows its packet (`LastWord`); a method nobody listens to and no `RemoveMessage` is at
  (`Dropped`) has no registration that an unread `REMOVE_MESSAGE` does not end (`Undone`).
- **PacketSocket_proof.** `SpecTypeOK`; `SpecStreamKept` and `SpecNoStall`, inductive as `SInv` with
  `WaitInv`: a socket that is not writeable is watched for `DE_WRITE`, and the service thread sends
  only while it is writeable. `SpecTailDelivered` adds what the reader has left when it is idle.
  `ImplementsChannel` is the refinement of `PacketChannel`, fairness aside: the stream is the
  packets written, laid end to end (`LaidOut`), so what the reader cuts off is the next of them
  (`Framed`), because what the kernel took is the beginning of what was written (`CarriedFirst`).
  `HeadersMakeSense` follows from the same invariant.
- **Kvdb_proof.** `SpecTypeOK` and `SpecCrashSafe`, inductive as `KInv`. `CrashSafe` says nothing of
  the backup while the main file is in order, and the next write damages the main file: `KInv` adds
  what each copy holds by itself (`Holds`), and what the call under way has done (`PartOf` for an
  unfinished write). `SpecNeverInvents` and `SpecReadRecent` from `RInv`: every copy in both
  folders, unless cut off, holds a text that fits its key or is a known mistake of it (`Fit`), and
  `get_data` meets a second text only after a rewrite that could not open the file (`GetSound`).
- **EventThread_proof.** `SpecTypeOK` and `SpecSendMeansHandled` from `SendInv`: a message is in one
  place, a queue or the frame about to queue it, until its handler starts, and a handler that is awaited
  runs right above the frame that waits. That a handler starts at most once is part of
  `TypeOK` and needs this too. `SpecNoLostWakeUp` from `WakeInv`, which speaks of every frame of
  every stack: a frame that must not sleep (`Cause`) has the signal, a wait that is over, or a send
  nested above it that will give the signal back (`Relief`). `NoLostWakeUp` itself, which is
  about the running frame only, is lost by the first wait inside a handler inside a wait.
  `SpecDelayedNotForgotten` from `DelayInv`, under the hypothesis `EarlyClock`: no time in use
  reaches the wrap of the clock, and they are less than half its range apart (the property is
  false otherwise, see "Where a property stops"; the constants of `event_live` satisfy it). The
  queue is in order, what `Get` leaves in it is later than its clock, and a `Get` that
  has looked, or sleeps below nested waits, sleeps for no longer than the first message allows, or has a
  `Relief`.

Induction over data is out of the provers' reach, but not the least number of a set
(`LeastNatural`): what `Pick`, `Due` and `Insert` return is proved from it and from the theorems on
cardinality.

Only model-checked: liveness, with the fairness part of `IsChannel`; and `KeepsPromise`, the
refinement of `DpCall`.

## 5. Not modelled

- Of the modelled parts: destruction of clients and threads, `Peek`, `Dispose` and `Restart` of a
  queue, the dispatcher list and lock of `NetworkService`, UDP sockets and listeners, the DP server
  of the key-value store, vty commands.
- Locks across modules: each module has the locks of its own component. Chains such as `dp_req_crit_`,
  the socket's `crit_` and the lock of `NetworkService` are listed as hazards only.
- Undefined behaviour beyond its visible outcomes: concurrent use of a `std::map` is explored
  as an order of operations.
- The parts with status `not_modelled` in `PROJECT.json`, with the reasons there.

Differences from the documentation that no run is about: a failed call returns `TYPE_FAILURE`
(7) where `dpclient.h` says -1; `ListenMessage` of a client without a server returns
`TYPE_SUCCEED` (6) where it says 0.

## 6. Plan

1. Proofs: `KeepsPromise` for a client with one thread.
2. `IpcDaemon`: monitor against factory reset, the configuration database and its backup across
   power loss.
3. `EventThread`: the end of a thread; the dispatcher list under the lock of `NetworkService`, with
   the locks of sockets and clients.
4. `MsgQueue`, timers and `JobCommand` of the robot schedule; `Watchdog` once a process starts it.
