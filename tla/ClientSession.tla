--------------------------- MODULE ClientSession ---------------------------
(***************************************************************************)
(* Client_session_impl: sync_connect() and the states NULL, CONNECTING and  *)
(* PEER; the log-in response, the init-channels the server opens during     *)
(* log-in, the errors of the master channel, and the hand-over of a         *)
(* vanilla-connected session to a SHM subclass (external) that needs more   *)
(* steps before PEER state.                                                 *)
(***************************************************************************)
EXTENDS SessionBase

VARIABLES
  cstate,     \* m_state
  connects,   \* sync_connect() calls made
  dones,      \* times a sync_connect() got its result through on_done_func
  nsSets,     \* calls of set_srv_namespace()
  initChans,  \* init-channels collected so far, in order
  subclass    \* the SHM subclass: "idle", "busy" after
              \* cancel_peer_state_to_connecting(), "posted" its completion

cliVars == <<cstate, connects, dones, nsSets, initChans, subclass>>

CliTypeOK ==
  /\ cstate \in {"NULL", "CONNECTING", "PEER"}
  /\ connects \in Nat /\ dones \in Nat /\ nsSets \in Nat
  /\ initChans \in Seq(Nat)
  /\ subclass \in {"idle", "busy", "posted"}

CliInit ==
  /\ cstate = "NULL"
  /\ connects = 0 /\ dones = 0 /\ nsSets = 0
  /\ initChans = <<>>
  /\ subclass = "idle"

-----------------------------------------------------------------------------
(* Outcomes of async_connect(), shared by the handlers below.               *)

\* invoke_conn_on_done_func(): sync_connect() returns with result r.
ConnectDone(r) == dones' = dones + 1 /\ Answer(Cli, r)

ConnectPending == UNCHANGED <<dones, user, ret>>

\* The master channel is dropped, its thread and its messages with it.
DropChannel ==
  /\ chan' = [chan EXCEPT ![Cli] = "reset"]
  /\ net' = [net EXCEPT ![Cli] = <<>>]

\* The vanilla connect has succeeded: W calls on_done_func.  m_state, set just
\* before, is W's own and is what on_done_func leaves it.
Connected ==
  /\ inside' = [inside EXCEPT ![Cli] = "onDone"]
  /\ ConnectPending
  /\ UNCHANGED cstate

\* expect_msgs() for open-channel requests in PEER state, flushing the kept
\* ones; it fails, and Connected is not reached, once the channel is hosed.
ExpectOpenReqsOnce(t) ==   \* Faulty: a registration is never replaced.
  /\ expects' = [expects EXCEPT ![Cli] = IF @ = "none" THEN t ELSE @]
  /\ cacheOpen' = [cacheOpen EXCEPT ![Cli] = <<>>]
  /\ DoneThen(Cli, Kept(Cli, t))

ExpectOpenReqs(t) ==
  /\ expects' = [expects EXCEPT ![Cli] = t]
  /\ cacheOpen' = [cacheOpen EXCEPT ![Cli] = <<>>]
  /\ DoneThen(Cli, Kept(Cli, t))

\* The connect in progress fails in W: no channel, NULL state, handler.
ConnectBreaksHalfway ==   \* Faulty: m_state is not set back.
  /\ Done(Cli)
  /\ DropChannel
  /\ ConnectDone("error")
  /\ subclass' = IF subclass = "busy" THEN "idle" ELSE subclass
  /\ UNCHANGED <<conn, linkDown, chErr, expects, cacheOpen, cacheFin, inside,
                 peerVars, endVars, cstate, connects, nsSets, initChans>>

ConnectBreaks ==
  /\ Done(Cli)
  /\ DropChannel
  /\ cstate' = "NULL"
  /\ ConnectDone("error")
  /\ subclass' = IF subclass = "busy" THEN "idle" ELSE subclass
  /\ UNCHANGED <<conn, linkDown, chErr, expects, cacheOpen, cacheFin, inside,
                 peerVars, endVars, connects, nsSets, initChans>>

-----------------------------------------------------------------------------
(* async_connect().                                                         *)

\* The user calls sync_connect(), again if it failed before.  The next attempt
\* is made when the server session of the previous one is gone.
CallConnect ==
  /\ connects < MaxAttempts
  /\ conn = 0 \/ dtor[Srv] = "stopped" \/ cstate # "NULL"
  /\ Call(Cli, "Connect")
  /\ connects' = connects + 1
  /\ UNCHANGED <<cstate, dones, nsSets, initChans, subclass>>

\* Not in NULL state: false, no handler.
ConnectRefused ==
  /\ Ready(Cli, "Connect")
  /\ cstate # "NULL"
  /\ Done(Cli)
  /\ Answer(Cli, "false")
  /\ UNCHANGED <<chanVars, inside, peerVars, endVars, cliVars>>

\* No (well-formed) CNS file, or its server does not accept the connection.
ConnectFails ==
  /\ Ready(Cli, "Connect")
  /\ cstate = "NULL"
  /\ Done(Cli)
  /\ nsSets' \in {nsSets, nsSets + 1}
  /\ ConnectDone("error")
  /\ UNCHANGED <<chanVars, inside, peerVars, endVars,
                 cstate, connects, initChans, subclass>>

\* A fresh server session exists at the other end of a fresh connection.
FreshServer(f, v) == [f EXCEPT ![Srv] = v]

\* Connected to the acceptor; the log-in request is sent, or its sending emits
\* the channel's error, or the on-error handler has emitted it already.
ConnectReaches ==
  /\ Ready(Cli, "Connect")
  /\ cstate = "NULL"
  /\ nsSets' = nsSets + 1
  /\ conn' = conn + 1
  /\ \E out \in IF LinkMayFail THEN SendOutcomes ELSE {"ok"} :
       /\ linkDown' = (out # "ok")
       /\ chan' = [chan EXCEPT ![Cli] = IF out = "err" THEN "reset" ELSE "up",
                               ![Srv] = "none"]
       /\ chErr' = [chErr EXCEPT ![Cli] = (out # "ok"), ![Srv] = FALSE]
       /\ net' = [net EXCEPT ![Cli] = <<>>, ![Srv] =
                    IF out = "ok" THEN <<Plain("LogInReq")>> ELSE <<>>]
       /\ wq' = [wq EXCEPT ![Cli] = IF out = "false" THEN Append(Tail(@), Plain("Err"))
                                                     ELSE Tail(@),
                           ![Srv] = <<Plain("AcceptLogIn")>>]
       /\ IF out = "err" THEN cstate' = "NULL" /\ ConnectDone("error")
                         ELSE cstate' = "CONNECTING" /\ ConnectPending
  /\ expects' = [s \in Sides |-> "none"]
  /\ cacheOpen' = [s \in Sides |-> <<>>]
  /\ cacheFin' = [s \in Sides |-> FALSE]
  /\ initChans' = <<>>
  /\ hosed' = FreshServer(hosed, FALSE) /\ onErr' = FreshServer(onErr, 0)
  /\ opens' = FreshServer(opens, 0)
  /\ activeOpened' = FreshServer(activeOpened, {})
  /\ passiveOpened' = FreshServer(passiveOpened, {})
  /\ finisher' = FreshServer(finisher, "none") /\ dtor' = FreshServer(dtor, "no")
  /\ UNCHANGED <<inside, connects, subclass>>

-----------------------------------------------------------------------------
(* on_master_channel_log_in_rsp().                                          *)

\* Faulty: requests are expected before the response has been looked at.
LogInRspBadLate ==
  /\ LogInMayFail /\ Ready(Cli, "LogInRsp")
  /\ ExpectOpenReqs("InitOpen")
  /\ DropChannel
  /\ cstate' = "NULL"
  /\ ConnectDone("error")
  /\ UNCHANGED <<conn, linkDown, chErr, cacheFin, inside, peerVars, endVars,
                 connects, nsSets, initChans, subclass>>

\* The response is not acceptable: back to NULL.
LogInRspBad == LogInMayFail /\ Ready(Cli, "LogInRsp") /\ ConnectBreaks

\* No init-channels: connected, unless the channel has been hosed meanwhile.
LogInRspOk ==
  /\ Ready(Cli, "LogInRsp")
  /\ NInit = 0
  /\ IF chErr[Cli]
       THEN Done(Cli) /\ UNCHANGED <<expects, cacheOpen, inside, user, ret, cstate, dones>>
       ELSE ExpectOpenReqs("OpenReq") /\ Connected
  /\ UNCHANGED <<conn, linkDown, chan, chErr, net, cacheFin,
                 peerVars, endVars, connects, nsSets, initChans, subclass>>

\* Await NInit open-channel requests that announce the init-channels.
LogInRspAwaitInit ==
  /\ Ready(Cli, "LogInRsp")
  /\ NInit > 0
  /\ IF chErr[Cli] THEN Done(Cli) /\ UNCHANGED <<expects, cacheOpen>>
                   ELSE ExpectOpenReqs("InitOpen")
  /\ UNCHANGED <<conn, linkDown, chan, chErr, net, cacheFin, inside, user, ret,
                 peerVars, endVars, cliVars>>

-----------------------------------------------------------------------------
(* on_master_channel_init_open_channel().                                   *)

\* An init-channel that is not the last.
InitOpenMore ==
  /\ Ready(Cli, "InitOpen")
  /\ Len(initChans) + 1 < NInit
  /\ Done(Cli)
  /\ initChans' = Append(initChans, Task(Cli).id)
  /\ UNCHANGED <<chanVars, inside, user, ret, peerVars, endVars,
                 cstate, connects, dones, nsSets, subclass>>

\* The last one, but the channel is hosed: its error task will deal with it.
InitOpenTooLate ==
  /\ Ready(Cli, "InitOpen")
  /\ Len(initChans) + 1 = NInit
  /\ chErr[Cli]
  /\ Done(Cli)
  /\ initChans' = Append(initChans, Task(Cli).id)
  /\ UNCHANGED <<chanVars, inside, user, ret, peerVars, endVars,
                 cstate, connects, dones, nsSets, subclass>>

\* Faulty: the last one is not acknowledged.
InitOpenUnacked ==
  /\ Ready(Cli, "InitOpen")
  /\ Len(initChans) + 1 = NInit
  /\ ~chErr[Cli]
  /\ ExpectOpenReqs("OpenReq")
  /\ initChans' = Append(initChans, Task(Cli).id)
  /\ Connected
  /\ UNCHANGED <<conn, linkDown, chan, chErr, net, cacheFin, peerVars,
                 endVars, connects, nsSets, subclass>>

\* The last one: expect ordinary requests from now on, acknowledge, connected.
\* When the acknowledgement cannot be sent, NULL; the channel is left alone.
InitOpenLast ==
  /\ Ready(Cli, "InitOpen")
  /\ Len(initChans) + 1 = NInit
  /\ ~chErr[Cli]
  /\ ExpectOpenReqs("OpenReq")
  /\ initChans' = Append(initChans, Task(Cli).id)
  /\ \E out \in SendOutcomes :
       /\ Send(Cli, <<New("OpenRsp", Task(Cli).id, "init")>>, out)
       /\ \/ out = "false" /\ ConnectPending /\ UNCHANGED <<inside, cstate>>
          \/ out = "err" /\ cstate' = "NULL" /\ ConnectDone("error") /\ UNCHANGED inside
          \/ out = "ok" /\ Connected
  /\ UNCHANGED <<conn, linkDown, chan, cacheFin, peerVars, endVars,
                 connects, nsSets, subclass>>

-----------------------------------------------------------------------------
(* on_done_func() of the vanilla connect, in W.  Requests may arrive meanwhile. *)

OnDoneReturns == inside[Cli] = "onDone" /\ inside' = [inside EXCEPT ![Cli] = "none"]

\* PEER: sync_connect() returns.
OnDoneOk ==
  /\ OnDoneReturns
  /\ ~GracefulFinish
  /\ cstate' = "PEER"
  /\ ConnectDone("ok")
  /\ UNCHANGED <<chanVars, wq, peerVars, endVars, connects, nsSets, initChans, subclass>>

\* cancel_peer_state_to_connecting(): with S_GRACEFUL_FINISH_REQUIRED the
\* subclass has more to do, asynchronously.
OnDoneToConnecting ==
  /\ OnDoneReturns
  /\ GracefulFinish
  /\ subclass' = "busy"
  /\ UNCHANGED <<chanVars, wq, user, ret, peerVars, endVars,
                 cstate, connects, dones, nsSets, initChans>>

\* cancel_peer_state_to_null(): the subclass has failed, synchronously.
OnDoneToNull ==
  /\ OnDoneReturns
  /\ CancelsToNull
  /\ DropChannel
  /\ cstate' = "NULL"
  /\ ConnectDone("error")
  /\ UNCHANGED <<conn, linkDown, chErr, expects, cacheOpen, cacheFin, wq,
                 peerVars, endVars, connects, nsSets, initChans, subclass>>

-----------------------------------------------------------------------------
(* The SHM subclass (external) and complete_async_connect_after_canceling_  *)
(* peer_state().                                                            *)

\* The subclass has finished its part, well ("ok") or not.
SubclassPosts ==
  /\ subclass = "busy" /\ dtor[Cli] = "no"
  /\ subclass' = "posted"
  /\ \E n \in {"ok", "rejected"} : Post(Cli, New("Complete", 0, n))
  /\ UNCHANGED <<chanVars, inside, user, ret, peerVars, endVars,
                 cstate, connects, dones, nsSets, initChans>>

\* By contract the subclass completes only a connect that is still going on
\* and only if the session is not hosed.
MayComplete == cstate = "CONNECTING" /\ ~hosed[Cli]

CompleteOk ==
  /\ Ready(Cli, "Complete") /\ Task(Cli).note = "ok" /\ MayComplete
  /\ EmplaceFinisher(Cli, <<>>)
  /\ cstate' = "PEER" /\ subclass' = "idle"
  /\ ConnectDone("ok")
  /\ UNCHANGED <<conn, linkDown, chan, chErr, net, expects, cacheOpen, inside,
                 peerVars, dtor, connects, nsSets, initChans>>

CompleteBad ==
  /\ Ready(Cli, "Complete") /\ Task(Cli).note = "rejected" /\ MayComplete
  /\ Done(Cli)
  /\ DropChannel
  /\ cstate' = "NULL" /\ subclass' = "idle"
  /\ ConnectDone("error")
  /\ UNCHANGED <<conn, linkDown, chErr, expects, cacheOpen, cacheFin, inside,
                 peerVars, endVars, connects, nsSets, initChans>>

CompleteTooLate ==
  /\ Ready(Cli, "Complete") /\ ~MayComplete
  /\ Done(Cli)
  /\ subclass' = "idle"
  /\ UNCHANGED <<chanVars, inside, user, ret, peerVars, endVars,
                 cstate, connects, dones, nsSets, initChans>>

-----------------------------------------------------------------------------
(* on_master_channel_error(), session_token().                              *)

\* Faulty: the error may be ignored although its channel is alive.
CliErrIgnored ==
  /\ Ready(Cli, "Err")
  /\ Done(Cli)
  /\ UNCHANGED <<chanVars, inside, user, ret, peerVars, endVars, cliVars>>

\* The channel the error came from is gone (the observer's lock() fails).
CliErrStale ==
  /\ Ready(Cli, "Err")
  /\ chan[Cli] # "up"
  /\ Done(Cli)
  /\ UNCHANGED <<chanVars, inside, user, ret, peerVars, endVars, cliVars>>

\* Faulty: a failed connect is assumed, in PEER state too.
CliErrAlways == Ready(Cli, "Err") /\ chan[Cli] = "up" /\ ConnectBreaks

CliErrConnecting ==
  /\ Ready(Cli, "Err")
  /\ chan[Cli] = "up" /\ cstate = "CONNECTING"
  /\ ConnectBreaks

CliErrPeer ==
  /\ Ready(Cli, "Err")
  /\ chan[Cli] = "up" /\ cstate # "CONNECTING"
  /\ Done(Cli)
  /\ HoseUnlessHosed(Cli)
  /\ finisher' = IF GracefulFinish THEN [finisher EXCEPT ![Cli] = "done"]
                                   ELSE finisher
  /\ UNCHANGED <<chanVars, inside, user, ret, opens, activeOpened,
                 passiveOpened, dtor, cliVars>>

CliToken ==
  /\ Ready(Cli, "Token")
  /\ Done(Cli)
  /\ Answer(Cli, IF cstate = "PEER" /\ ~hosed[Cli] THEN "token" ELSE "null")
  /\ UNCHANGED <<chanVars, inside, peerVars, endVars, cliVars>>

\* mdt_builder() gives the user a builder in PEER state only; open_channel()
\* with a null one returns false without a task.
CliCallOpen == cstate = "PEER" /\ CallOpen(Cli) /\ UNCHANGED cliVars

=============================================================================
