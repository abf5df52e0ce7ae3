--------------------------- MODULE SessionAdapter ---------------------------
(***************************************************************************)
(* sync_io Session_adapter: the results of an asynchronous session, its     *)
(* core, are handed to the user's event loop.                               *)
(*                                                                         *)
(* Threads: W is the core's worker and runs the handlers the adapter gave   *)
(* it; U is the user's, which runs the event loop and makes the calls.  A   *)
(* handler of W stores its result and then signals it with a byte in a      *)
(* pipe; the loop, told that the pipe is readable, runs the user's handler. *)
(* There is a pipe for the error and another for the channels.  Storing     *)
(* and signalling are two steps, and so are running the user's handler and  *)
(* consuming the byte: the other thread may move in between.                *)
(*                                                                         *)
(* The core is modelled by what it promises (ClientSession, ServerSession): *)
(* once PEER it opens channels if it has a handler for them, and it reports *)
(* at most one error, after which it opens none.  The event loop is the     *)
(* user's: a wait is one-shot and a readable pipe satisfies it.  Assertions *)
(* guard nothing: what follows one is what a build without them does.       *)
(***************************************************************************)
EXTENDS Naturals, Sequences

CONSTANTS
  MaxChans,   \* bound on the channels the core opens passively
  MaxInits    \* bound on the calls of init_handlers() that return true

ASSUME ChansIsNat == MaxChans \in Nat
ASSUME InitsIsNat == MaxInits \in Nat

VARIABLES
  role,        \* "cli": Client_session_adapter, "srv": Server_session_adapter
  core,        \* m_async_io is in the "null", "almost" (PEER) or "peer" state
  coreChan,    \* the core was given a passive-open handler
  coreErr,     \* the core has reported its error
  started,     \* m_ev_wait_func is set
  engine,      \* whose execution context the wait handles have: "own", "user"
  onErr,       \* m_on_err_func is set
  onChan,      \* m_on_channel_func_or_empty is set
  targetErr,   \* m_target_err_code_err is set
  errByte,     \* bytes in the pipe of the error
  errWait,     \* the loop waits for that pipe
  chanQ,       \* m_target_channel_open_q
  chanBytes,   \* bytes in the pipe of the channels
  chanWait,    \* the loop waits for that pipe
  w,           \* W is "idle", or has stored a "chan" or an "err" to signal
  u,           \* U is in its "loop" or in the user's "chan" handler
  opened,      \* channels opened so far: 1 .. opened
  told,        \* those the user's handler was given
  errTold,     \* times the user's on-error handler has run
  inits,       \* calls of init_handlers() that returned true
  dtor         \* "no", "joining" W, "done"

coreVars == <<core, coreChan, coreErr>>
funcVars == <<onErr, onChan, inits>>
errVars  == <<targetErr, errByte, errWait, errTold>>
chanVars == <<chanQ, chanBytes, chanWait, opened, told>>
saVars == <<role, core, coreChan, coreErr, started, engine, onErr, onChan,
            targetErr, errByte, errWait, chanQ, chanBytes, chanWait, w, u,
            opened, told, errTold, inits, dtor>>

SaTypeOK ==
  /\ role \in {"cli", "srv"} /\ core \in {"null", "almost", "peer"}
  /\ {coreChan, coreErr, started, onErr, onChan, targetErr, errWait, chanWait} \subseteq BOOLEAN
  /\ engine \in {"own", "user"}
  /\ errByte \in Nat /\ errTold \in Nat /\ inits \in 0..MaxInits
  /\ chanQ \in Seq(1..MaxChans) /\ told \in Seq(1..MaxChans)
  /\ chanBytes \in Nat /\ opened \in 0..MaxChans
  /\ w \in {"idle", "chan", "err"} /\ u \in {"loop", "chan"}
  /\ dtor \in {"no", "joining", "done"}

\* Client_session_adapter's constructor gives the core its handlers; that of
\* Server_session_adapter makes a core in NULL state without any.
SaInit ==
  /\ role \in {"cli", "srv"}
  /\ onErr = (role = "cli")
  /\ onChan \in (IF role = "cli" THEN BOOLEAN ELSE {FALSE})
  /\ coreChan = onChan
  /\ core = "null" /\ coreErr = FALSE
  /\ started = FALSE /\ engine = "own"
  /\ targetErr = FALSE /\ errByte = 0 /\ errWait = FALSE /\ errTold = 0
  /\ chanQ = <<>> /\ chanBytes = 0 /\ chanWait = FALSE
  /\ opened = 0 /\ told = <<>> /\ inits = 0
  /\ w = "idle" /\ u = "loop" /\ dtor = "no"

-----------------------------------------------------------------------------
(* Thread U: the calls.                                                     *)

\* U may call the adapter.
InLoop == u = "loop" /\ dtor = "no"

\* core()->sync_connect() has succeeded.
SyncConnect ==
  /\ role = "cli" /\ InLoop /\ core = "null"
  /\ core' = "peer"
  /\ UNCHANGED <<role, coreChan, coreErr, started, engine, funcVars, errVars,
                 chanVars, w, u, dtor>>

\* A Session_server_adapter has moved an almost-PEER session into the core.
FillCore ==
  /\ core = "null"
  /\ core' = "almost"
  /\ UNCHANGED <<role, coreChan, coreErr, started, engine, funcVars, errVars,
                 chanVars, w, u, dtor>>

\* Faulty: no wait for handlers that init_handlers() has yet to set.
StartOpsIfSet ==
  /\ InLoop /\ ~started
  /\ started' = TRUE
  /\ errWait' = onErr /\ chanWait' = onChan
  /\ UNCHANGED <<role, coreVars, engine, funcVars, targetErr, errByte, errTold,
                 chanQ, chanBytes, opened, told, w, u, dtor>>

\* Both waits are made, also those nothing may ever satisfy: the handlers of a
\* server's session are set after this.
StartOps ==
  /\ InLoop /\ ~started
  /\ started' = TRUE
  /\ errWait' = TRUE /\ chanWait' = TRUE
  /\ UNCHANGED <<role, coreVars, engine, funcVars, targetErr, errByte, errTold,
                 chanQ, chanBytes, opened, told, w, u, dtor>>

ReplaceEventWaitHandles ==
  /\ InLoop /\ ~started
  /\ engine' = "user"
  /\ UNCHANGED <<role, coreVars, started, funcVars, errVars, chanVars, w, u, dtor>>

\* Both forms of init_handlers(), with or without a passive-open handler, when
\* they return true.  The core takes handlers in almost-PEER state only; in any
\* other it returns false, which the assertion alone looks at.
InitHandlers(withChan) ==
  /\ role = "srv" /\ InLoop /\ ~onErr /\ inits < MaxInits
  /\ onErr' = TRUE
  /\ onChan' = (onChan \/ withChan)
  /\ inits' = inits + 1
  /\ IF core = "almost"
       THEN core' = "peer" /\ coreChan' = withChan
       ELSE UNCHANGED <<core, coreChan>>
  /\ UNCHANGED <<role, coreErr, started, engine, errVars, chanVars, w, u, dtor>>

-----------------------------------------------------------------------------
(* Thread W: on_channel_func_sio() and on_err_func_sio().  The core's       *)
(* destructor lets W go on until it has joined it.                          *)

CoreMayReport == core = "peer" /\ ~coreErr /\ w = "idle" /\ dtor # "done"

\* The core has opened a channel: the result is queued under the mutex ...
StoreChan ==
  /\ CoreMayReport /\ coreChan /\ opened < MaxChans
  /\ opened' = opened + 1
  /\ chanQ' = Append(chanQ, opened + 1)
  /\ w' = "chan"
  /\ UNCHANGED <<role, coreVars, started, engine, funcVars, errVars, chanBytes,
                 chanWait, told, u, dtor>>

\* Faulty: no byte when others are thought to be in the pipe.
SignalChanIfFirst ==
  /\ w = "chan" /\ w' = "idle"
  /\ chanBytes' = IF Len(chanQ) = 1 THEN chanBytes + 1 ELSE chanBytes
  /\ UNCHANGED <<role, coreVars, started, engine, funcVars, errVars, chanQ,
                 chanWait, opened, told, u, dtor>>

\* ... and signalled.
SignalChan ==
  /\ w = "chan" /\ w' = "idle"
  /\ chanBytes' = chanBytes + 1
  /\ UNCHANGED <<role, coreVars, started, engine, funcVars, errVars, chanQ,
                 chanWait, opened, told, u, dtor>>

StoreErr ==
  /\ CoreMayReport
  /\ coreErr' = TRUE /\ targetErr' = TRUE
  /\ w' = "err"
  /\ UNCHANGED <<role, core, coreChan, started, engine, funcVars, errByte,
                 errWait, errTold, chanVars, u, dtor>>

SignalErr ==
  /\ w = "err" /\ w' = "idle"
  /\ errByte' = errByte + 1
  /\ UNCHANGED <<role, coreVars, started, engine, funcVars, targetErr, errWait,
                 errTold, chanVars, u, dtor>>

-----------------------------------------------------------------------------
(* Thread U: the event loop.                                                *)

\* The pipe of the error is readable: once, the wait is not made again.
OnErrEvent ==
  /\ InLoop /\ errWait /\ errByte > 0
  /\ errByte' = errByte - 1
  /\ errWait' = FALSE
  /\ onErr' = FALSE
  /\ errTold' = errTold + 1
  /\ UNCHANGED <<role, coreVars, started, engine, onChan, inits, targetErr,
                 chanVars, w, u, dtor>>

\* Faulty: the whole queue goes to the user for one byte.
OnChanEventAll ==
  /\ InLoop /\ chanWait /\ chanBytes > 0
  /\ chanQ' = <<>> /\ told' = told \o chanQ
  /\ chanWait' = FALSE
  /\ u' = "chan"
  /\ UNCHANGED <<role, coreVars, started, engine, funcVars, errVars, chanBytes,
                 opened, w, dtor>>

\* Faulty: the newest result goes first.
OnChanEventLast ==
  /\ InLoop /\ chanWait /\ chanBytes > 0
  /\ chanQ' = SubSeq(chanQ, 1, Len(chanQ) - 1)
  /\ told' = Append(told, chanQ[Len(chanQ)])
  /\ chanWait' = FALSE
  /\ u' = "chan"
  /\ UNCHANGED <<role, coreVars, started, engine, funcVars, errVars, chanBytes,
                 opened, w, dtor>>

\* The pipe of the channels is readable: the first result is popped under the
\* mutex and the user's handler starts ...
OnChanEvent ==
  /\ InLoop /\ chanWait /\ chanBytes > 0
  /\ chanQ' = SubSeq(chanQ, 2, Len(chanQ))
  /\ told' = told \o SubSeq(chanQ, 1, 1)
  /\ chanWait' = FALSE
  /\ u' = "chan"
  /\ UNCHANGED <<role, coreVars, started, engine, funcVars, errVars, chanBytes,
                 opened, w, dtor>>

\* ... and when it has returned the byte is consumed and the wait made again.
OnChanHandled ==
  /\ u = "chan" /\ u' = "loop"
  /\ chanBytes' = chanBytes - 1
  /\ chanWait' = TRUE
  /\ UNCHANGED <<role, coreVars, started, engine, funcVars, errVars, chanQ,
                 opened, told, w, dtor>>

-----------------------------------------------------------------------------
(* The destructor: m_async_io, declared last, is destroyed first and with   *)
(* it W is joined; the pipes, the queue and the handlers go after it.       *)

Destroy ==
  /\ InLoop
  /\ dtor' = "joining"
  /\ UNCHANGED <<role, coreVars, started, engine, funcVars, errVars, chanVars, w, u>>

Joined ==
  /\ dtor = "joining" /\ w = "idle"
  /\ dtor' = "done"
  /\ UNCHANGED <<role, coreVars, started, engine, funcVars, errVars, chanVars, w, u>>
=============================================================================
