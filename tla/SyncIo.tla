------------------------------- MODULE SyncIo -------------------------------
(***************************************************************************)
(* The sync_io adapters of one process in one event loop: as a client, a    *)
(* Client_session_adapter; as a server, a Session_server_adapter and the    *)
(* Server_session_adapter its first successful async_accept() call fills.   *)
(* The loop and the user's calls are thread U, which does one thing at a    *)
(* time.                                                                    *)
(***************************************************************************)
EXTENDS SessionAdapter, ServerAdapter

vars == <<saVars, accVars>>

Init == SaInit /\ AccInit

\* What U calls of the session, perhaps from the handler of async_accept().
UserOfSession ==
  \/ SyncConnect \/ StartOps \/ ReplaceEventWaitHandles
  \/ \E withChan \in BOOLEAN : InitHandlers(withChan)
  \/ Destroy

\* The loop, when it is in no handler of the server's, serves the session.
LoopOfSession == inDone = 0 /\ (OnErrEvent \/ OnChanEvent \/ OnChanHandled)

\* What W does, and its end.
Worker == StoreChan \/ SignalChan \/ StoreErr \/ SignalErr \/ Joined

\* What U does with the server, when it is in no handler of the session's and in
\* no destructor of it.
UserOfServer ==
  /\ role = "srv" /\ u = "loop" /\ dtor # "joining"
  /\ AccStartOps \/ AsyncAccept \/ AcceptRead \/ AcceptHandled \/ AccDestroy

\* The session is the target of the first call.
Accepted(result) ==
  /\ AcceptWrite(result)
  /\ IF result = "ok" /\ atCore = 1 /\ dtor = "no" THEN FillCore ELSE UNCHANGED saVars

Next ==
  \/ accDtor # "joining" /\ (UserOfSession \/ LoopOfSession) /\ UNCHANGED accVars
  \/ Worker /\ UNCHANGED accVars
  \/ UserOfServer /\ UNCHANGED saVars
  \/ \E result \in Results : Accepted(result)
  \/ (AcceptSignal \/ AcceptAborted \/ AccJoined) /\ UNCHANGED saVars

Spec == Init /\ [][Next]_vars

\* W and S run, the loop serves what is ready, a handler of the user returns,
\* and a destructor goes on.
Fairness ==
  /\ WF_vars(SignalChan /\ UNCHANGED accVars) /\ WF_vars(SignalErr /\ UNCHANGED accVars)
  /\ WF_vars(inDone = 0 /\ OnErrEvent /\ UNCHANGED accVars)
  /\ WF_vars(inDone = 0 /\ OnChanEvent /\ UNCHANGED accVars)
  /\ WF_vars(OnChanHandled /\ UNCHANGED accVars)
  /\ WF_vars(Joined /\ UNCHANGED accVars)
  /\ WF_vars(AcceptSignal /\ UNCHANGED saVars)
  /\ WF_vars(AcceptRead /\ UNCHANGED saVars)
  /\ WF_vars(AcceptHandled /\ UNCHANGED saVars)
  /\ WF_vars(AcceptAborted /\ UNCHANGED saVars) /\ WF_vars(AccJoined /\ UNCHANGED saVars)

FairSpec == Spec /\ Fairness

-----------------------------------------------------------------------------
(* Properties.                                                              *)

\* The types of all the state of both adapters.
TypeOK == SaTypeOK /\ AccTypeOK

\* on_ev_channel_open() (session_adapter.hpp:604) pops a queue another thread
\* fills, trusting the bytes of the pipe: bytes and queued results are one to
\* one, but for the result W has yet to signal and the byte whose result is
\* with the user's handler.
BytesMatchResults ==
  chanBytes + (IF w = "chan" THEN 1 ELSE 0) = Len(chanQ) + (IF u = "chan" THEN 1 ELSE 0)

\* async_accept() trusts its one slot for a handler and its one for a code
\* (session_server_adapter.hpp:345): a call is in one of its stages only, with
\* the core, stored by S, signalled, and the slots belong to that call.
OneAcceptInFlight ==
  /\ (IF atCore # 0 THEN 1 ELSE 0) + (IF s = "stored" THEN 1 ELSE 0) + accByte <= 1
  /\ atCore # 0 => onDone = atCore
  /\ accByte + (IF s = "stored" THEN 1 ELSE 0) = 1 => onDone # 0 /\ accErr # "none"

\* accept_read() gives the handler m_target_err_code by reference
\* (session_server_adapter.hpp:428) while thread S may write it: the code stays
\* what the handler was told, as long as the handler has not called
\* async_accept() itself.
CodeIsOwn == inDone # 0 /\ onDone = 0 => accErr = answers[inDone]

\* The adapter of a session keeps the promises of AdapterContract: channels in
\* order and once, the error once, nothing after the destructor is called.
Contract == INSTANCE AdapterContract WITH failed <- coreErr, closing <- (dtor # "no")
KeepsContract == Contract!Spec

\* The adapter of a server answers each call as Session_server promises, but
\* for those the destructor cuts off, which stay unanswered; and the session of
\* a call was assigned if and only if its user is told of success.
Acceptance == INSTANCE AcceptContract WITH
  Reqs <- Calls,
  closing <- (accDtor # "no"),
  call <- [n \in Calls |-> IF n > calls THEN "unmade"
                           ELSE IF answers[n] = "none" THEN "made" ELSE answers[n]],
  given <- {n \in filled : answers[n] # "none"}
KeepsAcceptContract == Acceptance!Spec

\* Every channel opened while the adapter is started is given to the user,
\* however the opening and the loop interleave (session_adapter.hpp:580).
ChannelsGiven ==
  \A n \in 1..MaxChans : (started /\ opened >= n) ~> (Len(told) >= n \/ dtor # "no")

\* The error is told, also when it came before start_ops() armed the wait.
ErrorTold == (started /\ coreErr) ~> (errTold = 1 \/ dtor # "no")

\* A call of async_accept() whose wait was made and that the core answers is
\* answered to the user.
AcceptsAnswered ==
  \A n \in Calls : (accWait /\ onDone = n /\ atCore = 0) ~> (answers[n] # "none" \/ accDtor # "no")

\* Server_session_mv::init_handlers() is documented (server_session.hpp) to
\* return false unless the session is in almost-PEER state.
InitHandlersMeansPeer == [][inits' > inits => core = "almost"]_vars
=============================================================================
