---------------------------- MODULE SessionPair ----------------------------
(***************************************************************************)
(* A client session and the server session at the other end of its master   *)
(* channel, each with its user.                                             *)
(***************************************************************************)
EXTENDS ClientSession, ServerSession

vars == <<baseVars, cliVars, srvVars>>

Init == BaseInit /\ CliInit /\ SrvInit

\* A step of one side that is the same code on both sides.
Common(A) == A /\ UNCHANGED <<cliVars, srvVars>>
Client(A) == A /\ UNCHANGED srvVars
Server(A) == A /\ UNCHANGED cliVars

-----------------------------------------------------------------------------
(* Steps.                                                                   *)

Connect ==
  \/ Client(ConnectRefused)
  \/ Client(ConnectFails)
  \/ ConnectReaches /\ NewServerSession

\* Thread W of the client runs a task that only the client has.
CliTask ==
  \/ Connect
  \/ Client(LogInRspBad)
  \/ Client(LogInRspOk)
  \/ Client(LogInRspAwaitInit)
  \/ Client(InitOpenMore)
  \/ Client(InitOpenTooLate)
  \/ Client(InitOpenLast)
  \/ Client(OnDoneOk)
  \/ Client(OnDoneToConnecting)
  \/ Client(OnDoneToNull)
  \/ Client(CompleteOk)
  \/ Client(CompleteBad)
  \/ Client(CompleteTooLate)
  \/ Client(CliErrStale)
  \/ Client(CliErrConnecting)
  \/ Client(CliErrPeer)
  \/ Client(CliToken)

\* Thread W of the server runs a task that only the server has.
SrvTask ==
  \/ Server(AcceptFails)
  \/ Server(AcceptStarts)
  \/ Server(LogInReqRefused)
  \/ Server(LogInRspUnsent)
  \/ Server(LogInReqOk)
  \/ Server(LogInReqAwaitAck)
  \/ Server(LogInReqInitFails)
  \/ Server(InitHandlersAgain)
  \/ Server(InitHandlersErr)
  \/ Server(InitHandlersOk)
  \/ Server(EmitPreInitErr)
  \/ Server(SrvErrStale)
  \/ Server(SrvErrLogIn)
  \/ Server(SrvErrAlmostPeer)
  \/ Server(SrvErrPeer)
  \/ Server(SrvToken)
  \/ Server(SrvMdt)

\* Thread W of side s runs a task that both sides have.
SharedTask(s) ==
  \/ Common(Open(s))
  \/ Common(OnOpenReq(s))
  \/ Common(OnPassiveOpen(s))
  \/ Common(OnFin(s))
  \/ Common(DtorBegin(s))
  \/ Common(DtorFin(s))
  \/ Common(DtorFlush(s))

\* Thread Wc of side s, and W woken from a sync_request() by what Wc received.
WcStep(s) ==
  \/ Common(DeliverLogIn(s))
  \/ Common(DeliverOpenReq(s))
  \/ Common(DeliverFin(s))
  \/ Common(DropLateRsp(s))
  \/ Common(DetectError(s))
  \/ Common(OpenAnswered(s))
  \/ Common(OpenBroken(s))
  \/ s = Srv /\ Server(InitAcked)
  \/ s = Srv /\ Server(InitBroken)

Timeout(s) == Common(OpenTimeout(s))

\* Thread U of side s inside the destructor.
DtorStep(s) ==
  \/ Common(DtorGreet(s))
  \/ Common(DtorGoOn(s))
  \/ s = Cli /\ Common(DtorStop(Cli))
  \/ s = Srv /\ Server(SrvDtorStop)

\* Session_server gets rid of a session whose log-in has failed.
Discard == login = "failed" /\ Common(DtorStart(Srv))

\* What the users decide to do; the server's session exists once a connection
\* has been accepted, and Session_server may destroy it with its log-in open.
UserStep ==
  \/ Client(CallConnect)
  \/ Client(CliCallOpen)
  \/ Common(Call(Cli, "Token"))
  \/ Common(DtorStart(Cli))
  \/ Server(SrvCallInitHandlers)
  \/ Server(SrvCallMdt)
  \/ Server(SrvCallOpen)
  \/ Server(SrvOpenEmpty)
  \/ login = "ok" /\ Common(Call(Srv, "Token"))
  \/ login \in {"ok", "outstanding"} /\ Common(DtorStart(Srv))

SubclassStep == Client(SubclassPosts)
Break        == Common(LinkFail)

Next ==
  \/ CliTask
  \/ SrvTask
  \/ \E s \in Sides : SharedTask(s)
  \/ \E s \in Sides : WcStep(s)
  \/ \E s \in Sides : Timeout(s)
  \/ \E s \in Sides : DtorStep(s)
  \/ Discard
  \/ UserStep
  \/ SubclassStep
  \/ Break

WStep(s) == SharedTask(s) \/ (s = Cli /\ CliTask) \/ (s = Srv /\ SrvTask)

\* Threads W and Wc run, a time limit passes, a thread inside the destructor
\* goes on, the subclass finishes what it began, Session_server discards.
\* No user has to call anything, and the transport does not have to break.
Fairness ==
  /\ \A s \in Sides : /\ WF_vars(WStep(s))
                      /\ WF_vars(WcStep(s))
                      /\ WF_vars(Timeout(s))
                      /\ WF_vars(DtorStep(s))
  /\ WF_vars(Discard)
  /\ WF_vars(SubclassStep)

Spec     == Init /\ [][Next]_vars
FairSpec == Spec /\ Fairness

-----------------------------------------------------------------------------
(* Properties.                                                              *)

\* The user of s may use the session: PEER state.
IsPeer(s) == IF s = Cli THEN cstate = "PEER" ELSE handlers

\* W has nothing to do and waits for nothing.
Quiet(s) == wq[s] = <<>> /\ inside[s] = "none"

\* Every variable of the two sessions keeps to its type: queues hold only
\* tasks, a session's state is one of those the code names.
TypeOK == BaseTypeOK /\ CliTypeOK /\ SrvTypeOK

\* "Emitted exactly once": the user's on-error handler runs once when the
\* session becomes hosed and never again, whatever mix of failing sends, broken
\* sync_requests, channel errors, cached almost-PEER errors and
\* GracefulSessionEnd meets in W (Session_base::hose()).
ErrOnce == \A s \in Sides : onErr[s] = IF hosed[s] THEN 1 ELSE 0

\* hose() and hosed() are used only once the on-error handler is known, that is
\* in PEER state: an error before it is reported by other means.
HosedOnlyInPeer == \A s \in Sides : hosed[s] => IsPeer(s)

\* The master channel emits its one error through a failing call or through a
\* handler.  Whichever it was, when W has come to rest the error has reached
\* the user, or waits in m_pre_init_err_code: a session never lives on
\* unaware that its channel is dead.
Reported(s) ==
  IF s = Cli THEN cstate = "NULL" \/ hosed[Cli]
             ELSE IF handlers THEN hosed[Srv] ELSE preInitErr
ErrorNotLost ==
  \A s \in Sides :
    chan[s] = "up" /\ chErr[s] /\ Quiet(s) /\ dtor[s] = "no" => Reported(s)

\* No session opens a channel, actively or passively, after its on-error
\* handler has run: open_channel() and on_master_channel_open_channel_req() look
\* at hosed() when they start, and nothing hoses the session while they wait.
NothingOpensWhenHosed ==
  [][\A s \in Sides : hosed[s] /\ hosed'[s] =>
       /\ activeOpened'[s] = activeOpened[s]
       /\ passiveOpened'[s] = passiveOpened[s]]_vars

\* While open_channel() waits in W for the answer, and while W is on its way
\* from answering a request to giving the user the channel, the session is not
\* hosed behind its back: the code that follows does not look at hosed() again,
\* and hoses without asking when the wait itself breaks.
WaitingIsNotHosed == \A s \in Sides : inside[s] \in {"open", "passive"} => ~hosed[s]

\* A channel an open_channel() call has returned is one the opposing user has
\* been given, or is being given at this moment, the response having overtaken
\* his handler: a late answer to an earlier, timed-out request is never taken
\* for the answer to a later one, and no channel is lost between the response
\* and the handler.
ActiveImpliesPassive ==
  \A s \in Sides : \A i \in activeOpened[s] :
    i \in passiveOpened[Peer(s)] \/ BeingGiven(Peer(s), i)

\* The requests that announce init-channels and those made by the server's
\* user are the same message; the client's two handlers never take one for the
\* other, although the registration changes from one to the other in W while
\* Wc receives.
InitNotMixed ==
  \A i \in DOMAIN wq[Cli] :
    /\ wq[Cli][i].type = "InitOpen" => wq[Cli][i].note = "init"
    /\ wq[Cli][i].type = "OpenReq" => wq[Cli][i].note = "user"

\* When the server's log-in has succeeded (it waits for the acknowledgement of
\* the last init-channel), and when the client is PEER, the client has all the
\* init-channels, in the order in which the server numbered them: both users
\* see the same channel at the same index.
InitChannelsAgree ==
  NInit > 0 /\ (login = "ok" \/ cstate = "PEER") => initChans = [i \in 1..NInit |-> i]

\* m_master_channel goes back to null while its thread Wc may have posted tasks
\* that use it and have no observer: log-in requests and responses, requests
\* that announce init-channels, open-channel requests.  Each finds the channel
\* there, but for open-channel requests at a client whose subclass has taken the
\* session back to NULL after the vanilla connect.
MayCancel == GracefulFinish \/ CancelsToNull
TasksFindChannel ==
  \A s \in Sides :
    \/ Ready(s, "LogInReq") \/ Ready(s, "LogInRsp") \/ Ready(s, "InitOpen")
    \/ /\ Ready(s, "OpenReq") /\ ~hosed[s]
       /\ ~(s = Cli /\ MayCancel /\ cstate = "NULL")
    => chan[s] = "up"

\* While the client is CONNECTING, exactly one sync_connect() waits for its
\* handler and the master channel exists; each call gets its result once.
ConnectDoneOnce ==
  /\ dones <= connects
  /\ cstate = "CONNECTING" =>
       dones < connects /\ user[Cli] = "call" /\ chan[Cli] = "up"

\* "Once a PEER, always a PEER", however the session ends.
PeerIsForever ==
  [][/\ cstate = "PEER" => cstate' = "PEER"
     /\ handlers /\ conn' = conn => handlers']_vars

\* With S_GRACEFUL_FINISH_REQUIRED a session in PEER state is destroyed only
\* when the opposing destructor has started too, or the opposing side is cut
\* off or gone: shared memory is not taken away from under the other side.
GracefulBarrier ==
  \A s \in Sides : dtor[s] = "stopped" /\ finisher[s] # "none" =>
    dtor[Peer(s)] # "no" \/ linkDown \/ chan[Peer(s)] = "reset"

\* m_opposing_session_done.set_value() throws if the promise is already
\* fulfilled.  The handler of GracefulSessionEnd does not catch that: it relies
\* on running at most once and before any channel error.
FinFulfilsOnce == \A s \in Sides : Ready(s, "Fin") => finisher[s] = "pending"

\* W has a request to answer and no channel to answer it on: no outcome is
\* defined, and nothing of what follows is modelled.
Lost(s) == Ready(s, "OpenReq") /\ ~hosed[s] /\ chan[s] # "up"

\* Every call the user makes returns, if W is not lost.
CallsEnd == \A s \in Sides : user[s] = "call" ~> user[s] = "idle" \/ Lost(s)

\* A destructor without a Graceful_finisher to wait for comes to its end, if W
\* is not lost.
DtorEnds ==
  \A s \in Sides :
    dtor[s] = "begin" \/ dtor[s] = "flush" ~> dtor[s] = "stopped" \/ Lost(s)

-----------------------------------------------------------------------------
(* What the sources say of themselves and the code does not keep.           *)

\* m_master_channel: "When m_state is NULL, this is null"; on_master_channel_
\* error() and async_connect() assert it.
NullHasNoChannel == cstate = "NULL" => chan[Cli] # "up"

\* The doc of m_master_channel: "Because it is renullified, there's the
\* "observer" thing used in on_master_channel_error() to deal with it."  An
\* open-channel request, which has none, is to find the channel all the same.
RequestsFindChannel == \A s \in Sides : ~Lost(s)

\* set_srv_namespace(): "should be set at most once, from empty" (asserted).
NamespaceSetOnce == nsSets <= 1

\* m_opposing_session_done is fulfilled when GracefulSessionEnd is received or
\* the channel got hosed: with the channel hosed and W at rest it is fulfilled.
PromiseKept ==
  \A s \in Sides : chErr[s] /\ Quiet(s) => finisher[s] # "pending"

\* session_token() before PEER state returns the null token.
TokenOnlyInPeer == ret[Srv] = "token" => handlers

=============================================================================
