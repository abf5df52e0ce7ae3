# TLA+ specifications of ipc_session

These modules model the session layer of Flow-IPC (`src/src/ipc/session`): how a
client process and a server process establish a session, open channels in it,
learn of its end, and take it down; how a session server accepts sessions and is
destroyed; how the `sync_io` adapters bring results to a user's event loop; and
what processes that start, stop and die leave to one another: the file that names
the server, its mutex, and the names of message queues. TLC checks them on small
instances; TLAPS proves the safety properties these check, among them three
refinements, for all values of the constants.

Paths below are relative to `src/src/ipc/session/`.

## 1. The system

### Components

| Component | State | Operations | Modelled in |
|---|---|---|---|
| `Session_base` (`detail/session_base.hpp`) | `m_peer_state_err_code_or_ok` (hosed), on-error and passive-open handlers, namespaces, `Graceful_finisher` with its promise | `hose()`, `hosed()`, `set_*()`, `on_dtor_start()`, `on_master_channel_hosed()` | `SessionBase` |
| `Client_session_impl` (`detail/client_session_impl.hpp`) | `m_state` (NULL, CONNECTING, PEER), `m_master_channel`, init-channels being collected | `sync_connect()`/`async_connect()`, `mdt_builder()`, `open_channel()`, `session_token()`, `cancel_peer_state_to_null()`, `cancel_peer_state_to_connecting()`, `complete_async_connect_after_canceling_peer_state()`, handlers of the master channel, destructor | `ClientSession` |
| `Server_session_impl` (`detail/server_session_impl.hpp`) | `m_log_in_on_done_func`, `m_pre_init_err_code`, `m_master_channel` | `async_accept_log_in()`, `init_handlers()`, `mdt_builder()`, `open_channel()`, `session_token()`, handlers of the master channel, destructor | `ServerSession` |
| Session master channel (`struc::Channel` of ipc_transport_structured; external) | messages in flight, cached unexpected messages, one error per side | `send`, `async_request`, `sync_request`, `expect_msg(s)`, error handler | in `SessionBase`, from its use here |
| `Session_server_impl` (`detail/session_server_impl.hpp`, `session_server.hpp`) | `State`: acceptor, `m_incomplete_sessions` with `m_mutex`, graveyard thread | `async_accept()`, handlers in threads Wa and Ws, destructor | `SessionServer`, promise in `AcceptContract` |
| CNS (PID) file and its named mutex (in the constructor of `Session_server_impl`, in `async_connect()`) | file contents, mutex | write by a server, read by clients, death of either | `NamespaceStore` |
| Message queues of a channel (`make_channel_mqs()`, `create_channel_and_resources()`, `create_channel_obj()`) | names of queues, `m_last_channel_mq_id`, `m_last_cli_namespace` | create, send, open, remove, clean up at start | `ChannelQueues`, with the store in `Restarts` |
| `sync_io` session adapters (`sync_io/detail/session_adapter.hpp`) | queue of results, two pipes, handlers | `start_ops()`, `replace_event_wait_handles()`, `init_handlers()`, events of the core and of the loop, destructor | `SessionAdapter`, promise in `AdapterContract` |
| `sync_io` `Session_server_adapter` (`sync_io/session_server_adapter.hpp`) | one handler, one code, one pipe | `start_ops()`, `async_accept()`, `accept_write()`, `accept_read()`, destructor | `ServerAdapter`, promise in `AcceptContract`; both adapters in `SyncIo` |
| `Client_session_mv`, `Server_session_mv`, `Session_mv` | a pointer | forwarding | not modelled: no behaviour of their own |
| `Shared_name`, `app.*`, `error.*`, `*_fwd.hpp` | values | naming, declarations | not modelled: data only |

### How they interact

Every session object has a worker thread **W** that owns all its state; a public
call, made in the user's thread **U**, posts a task onto W and waits for it. The
master channel has a callback thread of its own (**Wc**), which does nothing but
post tasks onto W. Connecting goes: connect the socket, `LogInReq`, `LogInRsp`,
then, if init-channels were asked for, one request per channel from the server
and one acknowledgement of the last of them. In PEER state either side sends an
open-channel request and waits in W for the response, at most
`S_OPEN_CHANNEL_TIMEOUT`; the other side sends that response first and then calls its
user's passive-open handler. A subclass may take a connect that has succeeded back from
within the on-done handler: to NULL, having failed (SHM-classic), or to CONNECTING while
it sets SHM up (`S_GRACEFUL_FINISH_REQUIRED`, SHM-jemalloc). In the latter variant the
destructor waits until the other side is being destroyed too (`GracefulSessionEnd`).

A session server's accepts run in the acceptor's thread **Wa**; each makes a
session with a thread **Ws** whose log-in handler removes the session from
`m_incomplete_sessions` and gives it to the user, or, having failed, to the
graveyard thread **G**, because a session cannot be destroyed in its own thread. Before
the log-in response Ws calls `m_per_app_setup_func()`, with a reference of its own to
the session (`pre_rsp_setup_func`).

Before any of that the processes find each other: the constructor of a session
server removes every queue name of earlier server processes, writes its PID into
the CNS file under a named mutex and listens under a name with that PID in it;
`sync_connect()` reads the file under the same mutex. When channels have message
queues the server makes two under names built from the PID, the client's number
and a counter, and sends the names; the client opens them; whichever end of the
channel goes removes them.

A `sync_io` adapter wraps one of these asynchronous objects, its core: a handler
run by the core's thread stores the result and writes a byte into a pipe; the
user's event loop, told that the pipe is readable, reads the byte and runs the
user's handler in the user's thread.

### What is hard

* One error, many finders: a failing send, a broken `sync_request()`, the error
  handler, a cached almost-PEER error and `GracefulSessionEnd` may each hose a
  session, and not all of them look whether it is hosed already.
* Tasks in W's queue outlive what they are about: an earlier connection, PEER
  state, the registration of a handler.
* The meaning of one message type changes with log-in (init-channel, or request
  by the user) while another thread receives.
* Blocking in W: during `open_channel()` and during the server's wait for the
  acknowledgement nothing else of the session runs, at both ends at once perhaps.
* Timeouts: a request that has timed out may still be answered.
* Destruction against everything: a destructor joins threads that still run
  handlers, and `State`'s members go one by one while other threads use them, or hold
  the last reference to what they are part of.
* Between an answer and what it is about: the response to an open-channel request is on
  its way before the passive-open handler is called.
* Kernel-persistent state: a file that is empty for a moment, a mutex whose holder
  has died, queue names nobody owns, PIDs that come again.
* Adapters: storing a result and signalling it, running a handler and consuming its
  byte are two steps each, of different threads.

`PROJECT.json` lists these as hazards, each at its line, with the properties that
would catch it going wrong, and why a few have none.

### What correctness means

* Session: errors reach the user once and only in PEER state (`ErrOnce`,
  `HosedOnlyInPeer`), and are never lost (`ErrorNotLost`); a hosed session opens
  nothing (`NothingOpensWhenHosed`), and none is hosed while it waits for an answer or
  gives its user a channel (`WaitingIsNotHosed`); PEER is for ever (`PeerIsForever`);
  tasks find the channel they use (`TasksFindChannel`); each call ends (`CallsEnd`),
  with one result (`ConnectDoneOnce`).
* Both ends together: they agree about init-channels (`InitChannelsAgree`,
  `InitNotMixed`) and about opened channels (`ActiveImpliesPassive`); SHM
  sessions end together (`GracefulBarrier`, `FinFulfilsOnce`).
* Session server: `async_accept()` keeps its contract (`ImplementsContract`);
  incomplete sessions are accounted for (`IncompleteIsOutstanding`,
  `OwnedBySomebody`); failed ones are destroyed (`FailedSessionsDie`);
  destruction answers everybody and ends (`AllAreAnswered`, `DtorReturns`).
* Store and queues: a client never meets half a file by its timing
  (`HalfWrittenUnseen`); the file names the server that listens (`ListenerIsNamed`);
  a queue name always belongs to somebody (`NamesAreOwned`), the next one is free
  (`NextNameIsNew`), and one that is on its way to a client still leads to the
  channel it was made for (`PendingIsOpenable`, `OpensItsOwn`); the calls end
  (`ConnectEnds`, `ConstructorEnds`) unless a process died with the mutex.
* Adapters: one byte stands for each result (`BytesMatchResults`), one accept for the
  one slot (`OneAcceptInFlight`), and the code a handler was given by reference stays
  its own (`CodeIsOwn`); channels come in order and once, the error once, and nothing
  after destruction (`KeepsContract`, `KeepsAcceptContract`); nothing is forgotten
  (`ChannelsGiven`, `ErrorTold`, `AcceptsAnswered`).

## 2. The modules

```
SessionBase <- ClientSession  <-+- SessionPair <- MCSessionPair
            <- ServerSession  <-+              <- SessionPairProofs <- PeerProofs
                                                  <- OpenProofs <- EndProofs <- InitProofs
AcceptContract  <-(INSTANCE)- SessionServer <- SessionServerProofs
AcceptContract  <-(INSTANCE)-+
AdapterContract <-(INSTANCE)-+- SyncIo <- SyncIoProofs
SessionAdapter, ServerAdapter <-+
NamespaceStore <- ChannelQueues <- Restarts <- RestartsProofs
```

**SessionBase**: the state both ends share, as functions on the side, and the
actions that are one code at both ends. A task is an element of `wq[s]`; `Task(s)`
lets W take the first if it is in no call (`inside[s]`: a `sync_request()`, the user's
passive-open handler, or the on-done handler of a connect). `Open`, `OpenAnswered`,
`OpenTimeout`, `OpenBroken` are `open_channel()` up to its `sync_request()` and
the three ends of that. The passive side is two steps: `OnOpenReq` sends the response,
and `OnPassiveOpen` is the return of the handler called after it; in between the channel
is `BeingGiven`. `Deliver*` and
`DetectError` are Wc's. `Dtor*` are the steps of the destructor, with
`Graceful_finisher::on_dtor_start()`. `Send` gives the three results of `send()`:
sent, failed now (this call emits the error), failed earlier (no error code).

**ClientSession**: `sync_connect()` (`CallConnect`), its connect step
(`ConnectRefused`, `ConnectFails`, `ConnectReaches`), `on_master_channel_log_in_rsp()`
(`LogInRsp*`), `on_master_channel_init_open_channel()` (`InitOpen*`), the on-done handler
they call when all has succeeded (`Connected`) and its three ends: PEER (`OnDoneOk`),
`cancel_peer_state_to_null()` (`OnDoneToNull`, if `CancelsToNull`),
`cancel_peer_state_to_connecting()` (`OnDoneToConnecting`, if `GracefulFinish`); the rest
of the latter's detour (`SubclassPosts`, `Complete*`), `on_master_channel_error()`
(`CliErr*`). Each action is one exit path of the handler it is named for.

**ServerSession**: `async_accept_log_in()` (`Accept*`, `LogInReq*`, `LogInRspUnsent`,
`Init*`), `init_handlers()` (`InitHandlers*`), `mdt_builder()`, `open_channel()`,
`on_master_channel_error()` (`SrvErr*`).

**SessionPair**: the two together, the scheduling, and the properties.

**SessionServer**: `async_accept()` and what follows from it, thread by thread,
and the destructor of `State`, member by member. `ws[r]` is where the session's
thread is; the log-in is only its outcome here, with two of its stages kept: the
per-application set-up (`SetUp` to `SetUpEnds`), because Ws has a reference to the
session during it and may come to hold the last one, and the wait for the last
acknowledgement (`"acking"`), because a destructor that joins Ws waits for it.

**AcceptContract**: what `session_server.hpp` promises about the handler of
`async_accept()`: called once; with operation-aborted only if the destructor has
been called; a session given with success, and only then.
`SessionServer!ImplementsContract` is the refinement; `CallOf` maps the handler's
runs to the contract's `call`.

**SessionAdapter**: one session adapter and its core. `w` is where the core's
thread is between storing a result (`StoreChan`, `StoreErr`) and signalling it
(`SignalChan`, `SignalErr`); `u` is whether the event loop is in the user's channel
handler (`OnChanEvent` to `OnChanHandled`). `chanQ` is `m_target_channel_open_q`,
`chanBytes` and `errByte` are the pipes. The core is reduced to what the other
modules show of it: PEER or not, one error, channels if it has a handler for them.
`role` makes the same module `Client_session_adapter` and `Server_session_adapter`.

**ServerAdapter**: `Session_server_adapter`, whose core answers each call once,
which is `AcceptContract`. `onDone` is `m_on_done_func_or_empty`, `accErr`
`m_target_err_code`, `accByte` the pipe. `accept_read()` is two steps, `AcceptRead` up to
the call of the handler, which is given the code by reference, and `AcceptHandled`, its
return; in between the handler may call `async_accept()` (`inDone`).

**AdapterContract**: what a session adapter owes the user: each channel once and in
the order opened, the error once and only if there was one, nothing once the
destructor has been called.

**SyncIo**: the adapters in one loop; the first accept's target is the session. It
refines both contracts: `KeepsContract`, and `KeepsAcceptContract`, so the adapter
keeps towards its user the same contract its core keeps towards it, save that the
destructor leaves the outstanding call unanswered.

**NamespaceStore**: one step for each access to the mutex or the file, on both sides,
with its failures; `SrvCrash` and `CliCrash` may come between any two. `spoiled` says
that a constructor that had truncated the file could not complete it.

**ChannelQueues**: the names of queues, with the pair of queues each belongs to, so
that opening the wrong one shows. `MakeC2s`, `MakeS2c`, `NoS2c`, `HookUp`, `NoHookUp`
are the ways through `make_channel_mqs()` and `create_channel_and_resources()`;
`TakeChannel`, `CannotTake` are `create_channel_obj()`, its two openings in one step
(what either finds is settled by whether both names are there); `DropAtServer`,
`DropAtClient` the destruction of either end.

**Restarts**: the two composed, through several server processes.

The operators marked "Faulty" are plausible bugs, each next to the definition it
would replace; they are not part of any specification. `PROJECT.json` pairs each
property with one that breaks it.

### Conventions and abstractions

* Assertions are not guards: the model does what the code does without them
  (`NDEBUG`), and those that matter are properties.
* Undefined behaviour. In `SessionServer`, a thread that uses a destroyed member
  is recorded in `misuse` and nothing is modelled after it, so "no thread is
  lost" is a visible premise of the liveness properties. `m_state` is a
  `std::optional`; reaching through it while it is being reset is taken to reach
  the members not yet destroyed, as the usual build does.
* The master channel: reliable FIFO, one error per side, emitted by a call or by
  the handler, unexpected requests cached. A link may break at any time
  (`LinkMayFail`); what was sent before may still arrive.
* One server session at a time: the client connects again only after the server
  session of the previous attempt has stopped.
* The client's `undo_expect_msgs()` followed by `expect_msgs()` is one step.
* Names, credentials, metadata and versions are reduced to whether they are
  acceptable (`LogInMayFail`); channels are numbers.
* The user's handlers run inside the task of W that calls them and return; the on-error
  handler is one step with what calls it. Users
  do not call a session's destructor from its handler (documented as forbidden),
  nor `async_accept()` once the server's destructor has begun.
* Adapters: a wait is one-shot; the loop serves a pipe that is readable while waited
  for, in either order when both are. `async_accept()` before `start_ops()` throws out
  of an empty function after it has asked the core: modelled as a call with no wait.
* Store: as the sources say, one server process is active at a time (a second
  constructor runs after the first process has ended). `named_mutex` is not robust: one
  whose holder has died stays locked. A client's log-in is one step with its socket
  connect, its server session ends whenever the server likes, and the direction in
  which a channel was asked for makes no difference to its queues.
* The subclasses for shared memory are external (ipc_shm): one takes the session after
  `cancel_peer_state_to_connecting()` and completes it with success or failure
  (`GracefulFinish`); one may go back to NULL at once (`CancelsToNull`).

## 3. The runs

Bounds are constants: `MaxAttempts` connects, `MaxOpens` requests by side,
`NByCli + NBySrv` init-channels, `Reqs` accepts. The state numbers are TLC's.

| Run | Bounds | Question and answer |
|---|---|---|
| `pair_open` | one attempt, client opens twice and server once, no init-channels; about 1,092,000 states | PEER state under timeouts, lacking resources, link failure and destruction. Two opens by one side make a late answer to the first meet the second; each answer may overtake the passive-open handler. |
| `pair_connect` | two attempts, an init-channel for each side, server opens once, the subclass may go back to NULL (`CancelsToNull`); about 151,000 states, with fairness | Everything log-in does, at every failure, and again after it. Two init-channels give a first and a last; two attempts let tasks of the first meet the second. |
| `pair_graceful` | SHM variant, each side opens once; about 821,000 states | The connect detour, and destructors that wait for each other. Only the client has a passive-open handler here, so a refusal for lack of one is covered too. |
| `server_accept` | three accepts; about 51,000 states, with fairness | All threads and the destructor interleaved. Three let one be queued with the acceptor, one be logging in and one be in the graveyard at once. |
| `syncio` | three channels, two `init_handlers()`, three accepts; about 50,000 states, with fairness | Both adapters against their cores' threads. Three channels let one be with the user, one signalled and one only stored; three accepts let a slot be used again after a success and after an error, or while the handler of an earlier call runs. |
| `store` | two processes, two PIDs, two clients, one connect each, two pairs of queues; about 204,000 states, with fairness | Every process may die anywhere. Two processes give a restart, with a PID of its own or the same again; two pairs give an id that is undone and used again. |
| `pair_null_channel`, `pair_promise`, `pair_late_request`, `server_members`, `syncio_init`, `store_client_open` | the smallest that shows it | Each finds violated what a comment, a document or an assertion says: section 5. |

Deadlock is not checked: users may stop calling, all accepts may have been
answered, both sessions may have been destroyed, a process may have died with the
mutex, and misuse ends the model.

**Fairness.** `SessionPair`: weak fairness of W, Wc, the timeout, the destructor
once begun, the discarding of a failed server session by its owner, the subclass and
the user's handlers, which return, each of which is a thread, a timer or code that has nothing
else to do. There is none for users, for the link breaking, or for connects.
`SessionServer`: weak fairness of Wa, Ws (so `m_per_app_setup_func()` returns), G, the
destructor, and the end of
the wait for an acknowledgement (the client's W answers it, or the idle timer of
the master channel breaks it). No client must connect or log in, no user call.
`SyncIo`: weak fairness of a core's thread that has stored a result (it signals next),
of the loop for each pipe it waits for while it is in no other handler, of the user's
handlers, which return, and of the joins. The core need never report.
`Restarts`: weak fairness of a constructor and of a `sync_connect()` in progress; a mutex that is free again and again may still be
missed, but the calls on it are few, so in the end it stays free. Nobody must start,
crash or open anything.

## 4. What is proved

All for arbitrary constants that satisfy the ASSUMEs of the modules. These are:
`SessionBase`, the two sides differ, bounds are natural numbers, switches are
Boolean; `SessionServer`, its switch is Boolean (`Reqs` is any set);
`SessionAdapter`, `ServerAdapter`, `ChannelQueues`, `NamespaceStore`, bounds are
natural numbers and PIDs positive ones (`Clients` is any set). TLC evaluates them in
every run.

* The pair of sessions.
  * `SessionPairProofs!TypeCorrect`: `Spec` keeps `TypeOK`.
  * `SessionPairProofs!ErrOnceHolds`, `WaitingIsNotHosedHolds`: the user's on-error
    handler has run once if the session is hosed, never otherwise. `ErrOnce` alone
    is not inductive: `OpenBroken`, the end of a `sync_request()` that the channel's
    failure breaks, hoses without looking at `hosed()`. What saves it is that the
    session was not hosed when the wait began and that no task of W has run since;
    that is `WaitingIsNotHosed`, which also has it that W hoses nothing between the
    response to an open-channel request and the handler.
    `ErrInv == TypeOK /\ ErrOnce /\ WaitingIsNotHosed` is inductive: initial states, one lemma per kind of step, and PTL.
  * `SessionPairProofs!NothingOpens`: the action property `NothingOpensWhenHosed`
    from the same invariant.
  * `PeerProofs!PeerIsForeverHolds`: `PeerIsForever`. The client leaves PEER state
    only in handlers of the log-in, and none of them asks for the state, so what is
    shown is that none runs in it. `CliInv`: the user's call is in one place at a
    time, in NULL state nothing of an earlier connection is to come, nothing of the
    log-in comes after the error that ends a connection, and the tasks of requests are
    those of the handler registered last. `LogInInv`: the log-in's request or response
    is in one place and nothing is expected before it is handled (`OneLogIn`); the
    requests on their way to the client, kept or in W's queue, are the init-channels
    not collected yet, in order and numbered above those collected, so that the last
    announced is the last to come (`InitInOrder`); the server's user can ask for
    nothing until the client has registered the ordinary handler (`AfterAck`). The
    queues are compared by what the invariant watches for in them (`Less`), so that
    the many steps that bring none of it are one lemma (`QuietKeepsLogIn`).
  * `PeerProofs!ConnectDoneOnceHolds`: `ConnectDoneOnce`. `Counted`: a result is given
    only by a step that ends a connect which was going on (queued, or CONNECTING with
    the master channel up), and with it the call of the user returns, so by `CliInv`
    nothing is connecting after it.
  * `OpenProofs!ActiveImpliesPassiveHolds`: `ActiveImpliesPassive`. The answer leaves
    before the passive-open handler is called, in one task of W, so every answer on its
    way that says a channel is open is about one the passive user has or is being given
    (`RspBacked`), through queues that lose their head, gain messages or are dropped.
    W leaves that handler by its return only, and a channel being given is then given;
    in particular the destructor does not stop W in it (`NotCutShort`). A new
    connection finds a server that has been given nothing: it is made in NULL state,
    and out of PEER state a client has opened nothing, waits for nothing and has no
    call of `open_channel()` in W's queue (`OpensInPeer`), which stays so because
    a client in PEER state stays in it.
  * `EndProofs!AllInvHolds`: `AllInv`, the invariants above with `EndInv`, which says
    where each task and message may be while sessions end. Its parts: a destructor's
    stages and its tasks go together and it starts with no call under way
    (`DtorInOrder`); the server's user has one call at a time (`SrvOneCall`); a log-in
    request is ahead of the error that ends its connection (`SrvLogIn`, `Before`); what
    needs PEER state is found in it only (`SrvInPeer`, `CliInPeer`); an error has its
    reason (`ErrReason`) and somebody who has reported it or will (`Alarm`);
    a `GracefulSessionEnd` is in one place, ahead of the error, and was sent by a
    destructor that waits for ours (`FinOnce`). A new connection starts things afresh
    and is a proof of its own (`EndInvAnew`); of the other steps each part of `EndInv`
    is looked at by which tasks a step posts (`Posts`) and which messages it sends
    (`Sends`), all others only losing some. From it:
    * `ErrorNotLostHolds`, `GracefulBarrierHolds`, `FinFulfilsOnceHolds`, whatever the
      switches.
    * `TasksFindChannelHolds`, whatever the switches. `TasksFindChannel` excuses one
      task, because the code does not save it: the client's open-channel request in NULL
      state, when there is a subclass that gives up connects that have succeeded
      (`MayCancel`; run `pair_late_request`). What is proved is that it is the only one.
      Requests are expected before on-done is called, so `CliInPeer` lets them arrive
      during it, and after a subclass has dropped the channel (`AtOnDone`).
    * `HosedOnlyInPeerHolds`, without `S_GRACEFUL_FINISH_REQUIRED` only, because with it
      the code does not keep it: a client that its SHM subclass has put back to
      CONNECTING answers open-channel requests already. `SrvHosedOnlyInPeer` is what is
      left with it: the server keeps it.
  * `InitProofs!InitNotMixedHolds`, `InitChannelsAgreeHolds` from `InitInv`
    (`InitInvHolds`): until ordinary requests are expected every request on its way is
    for an init-channel (`AllOfOneKind`), the init-channels on the way have no gap after
    those collected (`NoGaps`), and these are the first of the server's, in order, and
    all of them once ordinary requests are expected (`Collected`). `LogInInv` has the
    order; the absence of gaps is what counts them without induction: when the last is
    handled none is missing, since every number between would still be on its way.
* The session server.
  * `SessionServerProofs!ServerTypeCorrect`, `OwnedHolds`: types, and the ownership
    of every living session, the references that Ws takes in `pre_rsp_setup_func` and in
    the handler included. With its types the latter is inductive: each step that takes an
    owner away (erase, bury, drop) leaves another in its place, and the set-up ends with
    the set still an owner, or with a thread that destroys its own session, after which
    nothing is modelled (`NotDestroyedByItself`). The lemmas on
    `Append` and `Tail` say that the graveyard loses nobody but its head.
  * `SessionServerProofs!IncompleteHolds` and `ServerImplementsContract`, the refinement of
    `AcceptContract`. Neither follows from what a step looks at: WaFailed does not ask
    whether its call was answered, nor Dies whether the server is being destroyed.
    `ServerInv` says why they need not. A call without a session is once in one of the
    two queues (`WaitingOnce`: lemmas that the acceptor's serving and cancelling keep
    every call's place, and that Wa takes the first); the stages of a log-in come
    before the user's handler (`HandlerIsLast`); what dies before the destructor comes
    to `m_incomplete_sessions` came from the graveyard (`GraveyardIsPast`), so that
    operation-aborted from a dying session means the server's destructor was called;
    cancelled accepts mean the same (`CancelledWhenClosing`).
* The adapters, in `SyncIoProofs`.
  * `SyncIoTypeCorrect`, `BytesAlwaysMatch`, `SessionKeepsContract` from `ChanInv`:
    the bytes of the pipe, the result stored and not signalled yet and the one whose handler runs make up the difference to
    the queued results; channels are queued in order; an error not told yet is where
    it should be.
  * `OneAcceptAtATime`, `CodeIsAlwaysOwn`, `AdapterKeepsAcceptContract` from `AccInv`: at
    most one call is between asking and its handler, every earlier one is over
    (`CallsInOrder`), so the one slot is not overwritten before it is read, nor while
    the handler runs that was given it, until that handler asks again.
* The store and the queues, in `RestartsProofs`.
  * `RestartsTypeCorrect` from `TypeInv`; `HalfWrittenIsUnseen`,
    `ListenerIsAlwaysNamed` from `StoreInv`: only the mutex's holder is at the file
    (`MutexInv`), and what the file says follows from the holder's place (`FileInv`).
  * `NamesAreAlwaysOwned`, `NextNamesAreNew` from `NamesInv`: every name has an owner
    (`AllOwned`), the sessions of one server differ in their numbers
    (`SessionsDiffer`), the ids in use are behind the counter (`IdsAreBehind`), and
    between the two creations the second name is still free (`SecondIsNew`).
  * `OpensItsOwnHolds`, `PendingIsOpenableHolds` from `KeysInv`, both while PIDs are
    unique (`PidsUnique`, an assumption of the source, and a hypothesis of the properties
    themselves). Removals go by key, so what is needed is that a key is of one channel
    wherever that channel is: at the server, on its way, or at a client, whose side may
    outlive the process the key is of (`Past`, `KeysTell`). New keys are new because old
    ones are of another process or behind the server's counters (`KeysAreBehind`); each
    channel is on its way or taken, once (`SentOnce`); and what W has made of a pair is
    there until it is done with it (`MadeIsThere`). That a PID is new when a
    process starts follows from counting them (`UsedCounted`, with the library's
    theorems on cardinality).

Every safety invariant and action property the passing runs check is stated by one of
these theorems. Only model-checked: liveness (`CallsEnd`, `DtorEnds`,
`FailedSessionsDie`, `AllAreAnswered`, `DtorReturns`, `ChannelsGiven`, `ErrorTold`,
`AcceptsAnswered`, `ConnectEnds`, `ConstructorEnds`), which like ENABLED is out of the
prover's reach; and the runs with an expected violation. No module declares a RECURSIVE
operator, and nothing here needs induction over data, which the prover's library cannot
instantiate.

## 5. Disagreements met

Each of these has a run with expected violation and is quoted in `PROJECT.json`:

* NULL state with a live master channel, after the acknowledgement of the last
  init-channel fails to be sent (`NullHasNoChannel`).
* The graceful-end promise is not fulfilled when a call, not the handler, finds the
  channel's error (`PromiseKept`).
* After a subclass has given up a connect that had succeeded, at once
  (`cancel_peer_state_to_null()`, SHM-classic) or later
  (`complete_async_connect_after_canceling_peer_state()`), a request task that was queued
  already meets a null master channel (`RequestsFindChannel`; the run shows the second
  way, and with `CancelsToNull` TLC finds the first).
* `m_incomplete_sessions` is destroyed while a thread Ws may be erasing from it
  (`SetDestroyedAlone`).
* `init_handlers()` returns true, and keeps handlers the core does not have, for a session
  that is not in almost-PEER state: one whose core has not been filled, as a
  default-constructed one, and one whose error event has emptied the member the guard
  looks at (`InitHandlersMeansPeer`).
* The client opens the queues of a channel whose names are gone (`ClientOpens`).

These are stated in the modules as properties, and TLC finds them violated when they
are put in a cfg, but no run is kept for them:

* If the server is destroyed while `m_per_app_setup_func()` runs, thread Ws releases the
  last reference to its own session and is to join itself (`NotDestroyedByItself`, with
  the constants of `server_accept`). The comment at `detail/session_server_impl.hpp:875`
  rules that out.
* The server namespace is set again by a second attempt (`NamespaceSetOnce`, with two
  attempts), against the assertion at `detail/session_base.hpp:874`.
* `session_token()` before PEER state returns the real token (`TokenOnlyInPeer`).
* The graveyard's thread never runs if the server was constructed to throw, so that a
  failed session lives until the destructor (`FailedSessionsDie` with
  `GivesErrCode = FALSE`).
* A handler may run after `~Session_server()` has returned (`AnsweredByDtor`), since the
  destructor does not wait for a thread Ws that holds its session.
* A mutex whose holder has died blocks `sync_connect()`, documented as non-blocking
  (`client_session.hpp:220`, `:247`), for ever (`ConnectIsNonBlocking`).

Seen while reading, and not modelled as a property:

* Two `open_channel()` calls, one at each end, block both workers until the timeout.
* In the SHM variant a client can be hosed while CONNECTING.
* The assertion on the error code of an expired incomplete session
  (`detail/session_server_impl.hpp:953`) does not hold when the log-in fails in the
  same moment.
* `init_handlers()` and `async_accept()` before `start_ops()` are documented to return
  false (`sync_io/detail/session_adapter.hpp:176`, `sync_io/session_server_adapter.hpp:130`),
  which nothing checks.
* A handler of a `sync_io` `async_accept()` that itself calls `async_accept()` may see the
  code it was given change: it is a reference to the slot the next answer is written to
  (`sync_io/session_server_adapter.hpp:428`). No document promises otherwise.
* `*target_session` of an adapter is assigned by the core's thread before the user is
  told.
* The comment at `sync_io/detail/session_adapter.hpp:267` says the pipe is back in
  steady state before the user's handler runs; the byte is consumed after it.
* An adapter may tell its user of the error before it gives channels that were opened
  earlier.
* A failure to flush the CNS file when it is closed goes unnoticed
  (`detail/session_server_impl.hpp:707`).
* PIDs come again, so names with a PID in them are not unique across time, as
  `detail/session_server_impl.hpp:485` has it; the removal of old names at start is
  what saves `NextNameIsNew`. A second `Session_server` in one process would defeat it.

## 6. Not modelled, and what is left

Not modelled, by choice:

* `Client_session_mv`, `Server_session_mv`, `Session_mv`, the `Session` concept,
  `session_server.hpp`'s public class: a pointer each, and forwarding. What
  `async_accept()` promises there is `AcceptContract`.
* `Shared_name`, `app.*`, `error.*`, `*_fwd.hpp`, build files: data and declarations;
  names appear as the tuples of what they are built from.
* `link_test`: checks that the library links.
* The transport underneath (`ipc_transport_structured`, socket acceptor and streams,
  `boost.interprocess`) is not in the repository; it appears as its use here shows it.
  The master channel is therefore only partly modelled: one message type per role, no
  idle timer but its effect.
* The subclasses for shared memory, in another repository: `OnDoneToNull`,
  `OnDoneToConnecting`, `SubclassPosts` and `Complete*` are what they may do.
* `replace_event_wait_handles()` of `Session_server_adapter`; that of the session
  adapters, which is the same code, is `ReplaceEventWaitHandles`.

Left to do: properties for three hazards that have none (two workers that wait for
each other in `sync_request()`, a channel only the passive user knows of after a
timeout, metadata built while resources were lacking); for a session put back to
CONNECTING by its subclass, what an invariant of the subclass would have to say so that
`HosedOnlyInPeer` held there too.
