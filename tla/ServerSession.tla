--------------------------- MODULE ServerSession ---------------------------
(***************************************************************************)
(* Server_session_impl: the server's half of the log-in, the init-channels   *)
(* it opens during log-in, the almost-PEER state between a log-in and       *)
(* init_handlers(), and PEER state.  One object per connection.  Its owner   *)
(* until the log-in is done is Session_server.                              *)
(***************************************************************************)
EXTENDS SessionBase

VARIABLES
  login,       \* async_accept_log_in(): "none", "outstanding", or the outcome
               \* its on_done_func was given: "ok", "failed", "aborted"
  handlers,    \* handlers_are_set()
  preInitErr,  \* m_pre_init_err_code is set
  mdt          \* the user's metadata builder: "none", "ready", or "empty" when
               \* it holds no channel resources

srvVars == <<login, handlers, preInitErr, mdt>>

SrvTypeOK ==
  /\ login \in {"none", "outstanding", "ok", "failed", "aborted"}
  /\ handlers \in BOOLEAN /\ preInitErr \in BOOLEAN
  /\ mdt \in {"none", "ready", "empty"}

SrvInit ==
  /\ login = "none"
  /\ handlers = FALSE /\ preInitErr = FALSE
  /\ mdt = "none"

\* Session_server has accepted a connection: a new object, told to log in.
NewServerSession ==
  /\ login' = "outstanding"
  /\ handlers' = FALSE /\ preInitErr' = FALSE
  /\ mdt' = "none"

-----------------------------------------------------------------------------
(* Log-in.                                                                  *)

\* End the master channel and report failure to Session_server.
LogInFails ==
  /\ login' = "failed"
  /\ chan' = [chan EXCEPT ![Srv] = "reset"]
  /\ net' = [net EXCEPT ![Srv] = <<>>]

\* The peer's credentials cannot be obtained.
AcceptFails ==
  /\ LogInMayFail
  /\ Ready(Srv, "AcceptLogIn")
  /\ Done(Srv)
  /\ LogInFails
  /\ UNCHANGED <<conn, linkDown, chErr, expects, cacheOpen, cacheFin, inside,
                 user, ret, peerVars, endVars, handlers, preInitErr, mdt>>

\* The master channel starts; the log-in request is expected.
AcceptStarts ==
  /\ Ready(Srv, "AcceptLogIn")
  /\ Done(Srv)
  /\ chan' = [chan EXCEPT ![Srv] = "up"]
  /\ UNCHANGED <<conn, linkDown, chErr, net, expects, cacheOpen, cacheFin,
                 inside, user, ret, peerVars, endVars, srvVars>>

\* The request fails one of the checks, or pre_rsp_setup_func() fails.
LogInReqRefused ==
  /\ LogInMayFail
  /\ Ready(Srv, "LogInReq")
  /\ Done(Srv)
  /\ LogInFails
  /\ UNCHANGED <<conn, linkDown, chErr, expects, cacheOpen, cacheFin, inside,
                 user, ret, peerVars, endVars, handlers, preInitErr, mdt>>

InitReq(i)  == New("OpenReq", i, "init")
InitReqs(k) == [i \in 1..k |-> InitReq(i)]

\* The log-in response cannot be sent: an error of this call, or one that the
\* on-error handler reports.
LogInRspUnsent ==
  /\ Ready(Srv, "LogInReq")
  /\ Done(Srv)
  /\ \/ /\ chErr[Srv] \/ dtor[Srv] = "stopping"
        /\ UNCHANGED <<chan, chErr, net, login>>
     \/ /\ ~chErr[Srv] /\ dtor[Srv] # "stopping" /\ Gone(Srv)
        /\ chErr' = [chErr EXCEPT ![Srv] = TRUE]
        /\ LogInFails
  /\ UNCHANGED <<conn, linkDown, expects, cacheOpen, cacheFin, inside,
                 user, ret, peerVars, endVars, handlers, preInitErr, mdt>>

\* The response is sent and there are no init-channels: almost-PEER.
LogInReqOk ==
  /\ Ready(Srv, "LogInReq")
  /\ NInit = 0
  /\ Done(Srv)
  /\ Send(Srv, <<Plain("LogInRsp")>>, "ok")
  /\ login' = "ok"
  /\ UNCHANGED <<conn, linkDown, chan, expects, cacheOpen, cacheFin, inside,
                 user, ret, peerVars, endVars, handlers, preInitErr, mdt>>

\* The response is sent and all init-channels are announced; W waits, without
\* a time limit, for the acknowledgement of the last.
LogInReqAwaitAck ==
  /\ Ready(Srv, "LogInReq")
  /\ NInit > 0
  /\ Done(Srv)
  /\ Send(Srv, <<Plain("LogInRsp")>> \o InitReqs(NInit), "ok")
  /\ inside' = [inside EXCEPT ![Srv] = "initAck"]
  /\ UNCHANGED <<conn, linkDown, chan, expects, cacheOpen, cacheFin,
                 user, ret, peerVars, endVars, srvVars>>

\* The response is sent and k init-channels are announced; then the resources
\* of the next cannot be had, or the channel turns out to be broken.
LogInReqInitFails ==
  /\ Ready(Srv, "LogInReq")
  /\ ~chErr[Srv] /\ dtor[Srv] # "stopping"
  /\ Done(Srv)
  /\ \E k \in 0..NInit :
       /\ k < NInit
       /\ \/ ResourcesMayFail /\ UNCHANGED chErr
          \/ Gone(Srv) /\ chErr' = [chErr EXCEPT ![Srv] = TRUE]
       /\ net' = [net EXCEPT ![Srv] = <<>>, ![Cli] =
            IF Gone(Srv) THEN @ ELSE @ \o <<Plain("LogInRsp")>> \o InitReqs(k)]
  /\ login' = "failed"
  /\ chan' = [chan EXCEPT ![Srv] = "reset"]
  /\ UNCHANGED <<conn, linkDown, expects, cacheOpen, cacheFin, inside,
                 user, ret, peerVars, endVars, handlers, preInitErr, mdt>>

\* Faulty: the acknowledgement is not awaited.
InitNotAwaited ==
  /\ inside[Srv] = "initAck"
  /\ inside' = [inside EXCEPT ![Srv] = "none"]
  /\ login' = "ok"
  /\ UNCHANGED <<chanVars, wq, user, ret, peerVars, endVars,
                 handlers, preInitErr, mdt>>

\* The client has acknowledged the last init-channel: almost-PEER.
InitAcked ==
  /\ inside[Srv] = "initAck"
  /\ Arrives(Srv, "OpenRsp")
  /\ inside' = [inside EXCEPT ![Srv] = "none"]
  /\ login' = "ok"
  /\ UNCHANGED <<conn, linkDown, chan, chErr, expects, cacheOpen, cacheFin,
                 wq, user, ret, peerVars, endVars, handlers, preInitErr, mdt>>

\* The channel breaks while W waits for it: sync_request() emits the error, or
\* the on-error handler does.
InitBroken ==
  /\ inside[Srv] = "initAck"
  /\ EndOfStream(Srv)
  /\ chErr' = [chErr EXCEPT ![Srv] = TRUE]
  /\ inside' = [inside EXCEPT ![Srv] = "none"]
  /\ \/ LogInFails /\ UNCHANGED wq
     \/ Post(Srv, Plain("Err")) /\ UNCHANGED <<chan, net, login>>
  /\ UNCHANGED <<conn, linkDown, expects, cacheOpen, cacheFin,
                 user, ret, peerVars, endVars, handlers, preInitErr, mdt>>

-----------------------------------------------------------------------------
(* init_handlers(): almost-PEER to PEER.                                     *)

SrvCallInitHandlers == login = "ok" /\ Call(Srv, "InitHandlers") /\ UNCHANGED srvVars

InitHandlersAgain ==
  /\ Ready(Srv, "InitHandlers")
  /\ handlers
  /\ Done(Srv)
  /\ Answer(Srv, "false")
  /\ UNCHANGED <<chanVars, inside, peerVars, endVars, srvVars>>

\* Faulty: the error recorded in almost-PEER state is forgotten.
InitHandlersForgets ==
  /\ Ready(Srv, "InitHandlers")
  /\ ~handlers /\ preInitErr
  /\ handlers' = TRUE
  /\ Done(Srv)
  /\ Answer(Srv, "true")
  /\ UNCHANGED <<chanVars, inside, peerVars, endVars, login, preInitErr, mdt>>

\* An error was recorded in almost-PEER state: it is emitted by a later task.
InitHandlersErr ==
  /\ Ready(Srv, "InitHandlers")
  /\ ~handlers /\ preInitErr
  /\ handlers' = TRUE
  /\ DoneThen(Srv, <<Plain("PreInitErr")>>)
  /\ Answer(Srv, "true")
  /\ UNCHANGED <<chanVars, inside, peerVars, endVars, login, preInitErr, mdt>>

\* Expect open-channel requests (in vain, if the channel has been hosed just
\* now) and create the Graceful_finisher.
InitHandlersOk ==
  /\ Ready(Srv, "InitHandlers")
  /\ ~handlers /\ ~preInitErr
  /\ handlers' = TRUE
  /\ LET kept == IF chErr[Srv] THEN <<>> ELSE Kept(Srv, "OpenReq")
     IN  IF GracefulFinish
           THEN EmplaceFinisher(Srv, kept)
           ELSE DoneThen(Srv, kept) /\ UNCHANGED <<finisher, cacheFin>>
  /\ IF chErr[Srv] THEN UNCHANGED <<expects, cacheOpen>>
                   ELSE /\ expects' = [expects EXCEPT ![Srv] = "OpenReq"]
                        /\ cacheOpen' = [cacheOpen EXCEPT ![Srv] = <<>>]
  /\ Answer(Srv, "true")
  /\ UNCHANGED <<conn, linkDown, chan, chErr, net, inside, peerVars, dtor,
                 login, preInitErr, mdt>>

EmitPreInitErr ==
  /\ Ready(Srv, "PreInitErr")
  /\ Done(Srv)
  /\ HoseUnlessHosed(Srv)
  /\ UNCHANGED <<chanVars, inside, user, ret, opens, activeOpened,
                 passiveOpened, endVars, srvVars>>

-----------------------------------------------------------------------------
(* on_master_channel_error().                                               *)

SrvErrStale ==
  /\ Ready(Srv, "Err")
  /\ chan[Srv] # "up"
  /\ Done(Srv)
  /\ UNCHANGED <<chanVars, inside, user, ret, peerVars, endVars, srvVars>>

SrvErrLogIn ==
  /\ Ready(Srv, "Err")
  /\ chan[Srv] = "up" /\ login = "outstanding"
  /\ Done(Srv)
  /\ LogInFails
  /\ UNCHANGED <<conn, linkDown, chErr, expects, cacheOpen, cacheFin, inside,
                 user, ret, peerVars, endVars, handlers, preInitErr, mdt>>

SrvErrAlmostPeer ==
  /\ Ready(Srv, "Err")
  /\ chan[Srv] = "up" /\ login # "outstanding" /\ ~handlers
  /\ Done(Srv)
  /\ preInitErr' = TRUE
  /\ UNCHANGED <<chanVars, inside, user, ret, peerVars, endVars,
                 login, handlers, mdt>>

\* Faulty: PEER state is assumed when the log-in is over.
SrvErrEarly ==
  /\ Ready(Srv, "Err")
  /\ chan[Srv] = "up" /\ login # "outstanding"
  /\ Done(Srv)
  /\ HoseUnlessHosed(Srv)
  /\ UNCHANGED <<chanVars, inside, user, ret, opens, activeOpened,
                 passiveOpened, endVars, srvVars>>

SrvErrPeer ==
  /\ Ready(Srv, "Err")
  /\ chan[Srv] = "up" /\ login # "outstanding" /\ handlers
  /\ Done(Srv)
  /\ HoseUnlessHosed(Srv)
  /\ finisher' = IF GracefulFinish THEN [finisher EXCEPT ![Srv] = "done"]
                                   ELSE finisher
  /\ UNCHANGED <<chanVars, inside, user, ret, opens, activeOpened,
                 passiveOpened, dtor, srvVars>>

-----------------------------------------------------------------------------
(* session_token(), mdt_builder(), open_channel().                          *)

\* Before PEER state the null token is stored but the task goes on.
SrvToken ==
  /\ Ready(Srv, "Token")
  /\ Done(Srv)
  /\ Answer(Srv, IF hosed[Srv] THEN "null" ELSE "token")
  /\ UNCHANGED <<chanVars, inside, peerVars, endVars, srvVars>>

SrvCallMdt ==
  login = "ok" /\ opens[Srv] < MaxOpens[Srv] /\ Call(Srv, "Mdt") /\ UNCHANGED srvVars

\* The server acquires the new channel's resources at this early point.
SrvMdt ==
  /\ Ready(Srv, "Mdt")
  /\ Done(Srv)
  /\ \/ ~handlers /\ mdt' = "none" /\ Answer(Srv, "null")
     \/ handlers /\ ~hosed[Srv] /\ mdt' = "ready" /\ Answer(Srv, "ok")
     \/ handlers /\ (hosed[Srv] \/ ResourcesMayFail) /\ mdt' = "empty" /\ Answer(Srv, "ok")
  /\ UNCHANGED <<chanVars, inside, peerVars, endVars, login, handlers, preInitErr>>

SrvCallOpen ==
  mdt = "ready" /\ CallOpen(Srv) /\ mdt' = "none" /\ UNCHANGED <<login, handlers, preInitErr>>

\* A builder without resources: the error is returned without asking anybody.
SrvOpenEmpty ==
  /\ Free(Srv) /\ mdt = "empty"
  /\ mdt' = "none"
  /\ ret' = [ret EXCEPT ![Srv] = "unavailable"]
  /\ UNCHANGED <<chanVars, wq, inside, user, peerVars, endVars,
                 login, handlers, preInitErr>>

\* The object is destroyed with its log-in unfinished: the handler is told so.
SrvDtorStop ==
  /\ DtorStop(Srv)
  /\ login' = IF login = "outstanding" THEN "aborted" ELSE login
  /\ UNCHANGED <<handlers, preInitErr, mdt>>

=============================================================================
