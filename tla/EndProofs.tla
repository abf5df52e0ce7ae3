------------------------------ MODULE EndProofs ------------------------------
(***************************************************************************)
(* How sessions end, for any bounds and switches of SessionPair: no channel  *)
(* error is lost, only a session in PEER state is hosed, no task finds the    *)
(* master channel missing unless a subclass has given the connection up, and  *)
(* with S_GRACEFUL_FINISH_REQUIRED a destructor leaves only after the         *)
(* opposing one, whose farewell is taken once.                               *)
(*                                                                         *)
(* None of this is inductive.  It needs to be known which task is in W's      *)
(* queue at which stage of the log-in and of the destructor, and what is      *)
(* behind what: a log-in request and a farewell are ahead of the error that   *)
(* ends their connection, for nothing arrives after it.                      *)
(***************************************************************************)
EXTENDS OpenProofs

-----------------------------------------------------------------------------
(* The invariant.                                                           *)

\* What the user of the server may be waiting for.
SrvCalls == {"InitHandlers", "Token", "Mdt", "Open"}

\* The destructor has sent GracefulSessionEnd.
FinSent == {"await", "flush", "stopping", "stopped"}

\* The destructor's stages and the tasks it posts for them go together.
DtorQueue(s) ==
  /\ Has(wq[s], "DtorBegin") => dtor[s] = "begin"
  /\ Has(wq[s], "DtorFin") => dtor[s] = "fin"
  /\ Has(wq[s], "DtorFlush") => dtor[s] = "flush"
  /\ \A t \in DtorTasks : Lone(wq[s], t)

\* It begins when the user waits for nothing, ends W and the channel, and has
\* no promise to wait for once it flushes.
DtorInOrder(s) ==
  /\ DtorQueue(s)
  /\ dtor[s] \in {"stopping", "stopped"} => inside[s] = "none"
  /\ dtor[s] = "stopped" => wq[s] = <<>> /\ chan[s] = "reset"
  /\ dtor[s] \in {"quiet", "flush", "stopping", "stopped"} => finisher[s] # "pending"
  /\ dtor[s] # "no" => user[s] = "idle"

\* Without S_GRACEFUL_FINISH_REQUIRED there is no Graceful_finisher, and no SHM
\* subclass that would have to complete the connect.
Vanilla ==
  ~GracefulFinish =>
    /\ \A s \in Sides : finisher[s] = "none"
    /\ subclass = "idle" /\ ~Has(wq[Cli], "Complete")

\* The server's user has one call under way at most: as a task of W, or in W's
\* sync_request().
SrvOneCall ==
  /\ OneOf(wq[Srv], SrvCalls)
  /\ user[Srv] = "idle" \/ inside[Srv] = "open" => NoneOf(wq[Srv], SrvCalls)
  /\ user[Srv] = "idle" => inside[Srv] # "open"

\* The log-in on the server: no session, a connection whose channel starts, a
\* request and the error behind it, the outcome.
SrvLogIn ==
  /\ conn = 0 => login = "none"
  /\ login = "none" => /\ wq[Srv] = <<>> /\ inside[Srv] = "none"
                       /\ chan[Srv] = "none" /\ dtor[Srv] = "no"
  /\ Has(wq[Srv], "AcceptLogIn") => login = "outstanding" /\ chan[Srv] = "none"
  /\ Lone(wq[Srv], "AcceptLogIn")
  /\ Has(wq[Srv], "LogInReq") => chan[Srv] = "up"
  /\ Before(wq[Srv], "LogInReq", "Err")
  /\ Requested => login = "outstanding"
  /\ inside[Srv] = "initAck" => login = "outstanding" /\ ~Requested /\ chan[Srv] = "up"
  /\ Has(wq[Srv], "InitHandlers") \/ handlers => login = "ok"
  /\ login = "ok" => chan[Srv] = "up" \/ dtor[Srv] = "stopped"

\* Each side gets the other's log-in messages only.
LogInWays ==
  /\ ~Has(net[Cli], "LogInReq") /\ ~Has(wq[Cli], "LogInReq")
  /\ ~Has(net[Srv], "LogInRsp") /\ ~Has(wq[Srv], "LogInRsp")
  /\ ~Has(wq[Srv], "InitOpen") /\ expects[Srv] # "InitOpen"

\* What the server does in PEER state only.
SrvInPeer ==
  \/ hosed[Srv] \/ finisher[Srv] # "none" \/ expects[Srv] # "none" \/ mdt # "none"
  \/ inside[Srv] = "open" \/ Has(wq[Srv], "PreInitErr") \/ Has(wq[Srv], "OpenReq")
  \/ Has(wq[Srv], "Open")
  => handlers

\* on_done_func runs, or has given the connection up.
AtOnDone == inside[Cli] = "onDone" \/ (CancelsToNull /\ chan[Cli] # "up")

\* What the client does in PEER state only, or with on_done_func, requests may
\* arrive as soon as that is called; an error task finds no NULL session with a
\* channel; a new connect begins when the old connection is over.
CliInPeer ==
  /\ finisher[Cli] # "none" => cstate = "PEER"
  /\ ~GracefulFinish /\ hosed[Cli] => cstate = "PEER"
  /\ ~GracefulFinish /\ Has(wq[Cli], "OpenReq") => cstate = "PEER" \/ AtOnDone
  /\ ~GracefulFinish /\ expects[Cli] = "OpenReq" =>
       cstate = "PEER" \/ chErr[Cli] \/ AtOnDone
  /\ cstate = "NULL" /\ chan[Cli] = "up" => ~Has(wq[Cli], "Err")
  /\ cstate = "PEER" => chan[Cli] = "up" \/ dtor[Cli] = "stopped"
  /\ Has(wq[Cli], "Connect") => cstate # "NULL" \/ conn = 0 \/ dtor[Srv] = "stopped"

\* A channel has its error only when it is cut off, and its handler's task only
\* after that.
ErrReason(s) ==
  /\ chErr[s] => linkDown \/ chan[Peer(s)] = "reset"
  /\ Has(wq[s], "Err") => chErr[s]

\* GracefulSessionEnd is in one place at most, it comes from the opposing
\* destructor, and it is handled before an error of the channel.
FinOnce(s) ==
  /\ Lone(net[s], "Fin") /\ Lone(wq[s], "Fin")
  /\ Has(net[s], "Fin") => ~cacheFin[s] /\ ~Has(wq[s], "Fin")
  /\ cacheFin[s] => ~Has(wq[s], "Fin")
  /\ Has(net[s], "Fin") \/ cacheFin[s] \/ Has(wq[s], "Fin") => dtor[Peer(s)] \in FinSent
  /\ Has(wq[s], "Fin") => finisher[s] = "pending"
  /\ Before(wq[s], "Fin", "Err")
  /\ finisher[s] = "done" =>
       \/ chErr[s]
       \/ dtor[Peer(s)] \in FinSent /\ ~Has(net[s], "Fin") /\ ~cacheFin[s]

\* The error of a channel in use has been reported, or a task of W will see to it.
Alarm(s) ==
  chan[s] = "up" /\ chErr[s] /\ dtor[s] = "no" =>
    Reported(s) \/ Has(wq[s], "Err") \/ Has(wq[s], "PreInitErr")

\* A channel that has not started has no error.
NotStarted == chan[Srv] = "none" /\ dtor[Srv] = "no" => ~chErr[Srv]

EndInv ==
  /\ \A s \in Sides : DtorInOrder(s) /\ ErrReason(s) /\ FinOnce(s) /\ Alarm(s)
  /\ Vanilla /\ SrvOneCall /\ SrvLogIn /\ LogInWays /\ SrvInPeer /\ CliInPeer /\ NotStarted

\* With what is known of both sides already.
Known  == TypeOK /\ CliInv /\ LogInInv /\ Counted /\ OpenInv /\ ErrInv
AllInv == Known /\ EndInv

-----------------------------------------------------------------------------
(* Steps.                                                                   *)

\* A new connection: of all steps the one that starts things afresh.
Reconnect == ConnectReaches /\ NewServerSession

\* The destructor of s begins; whoever owns the server's session has accepted it.
Starts(s) ==
  Common(DtorStart(s)) /\ (s = Srv => login \in {"ok", "outstanding", "failed"})

\* The destructor of s ends.
Stops(s) == (s = Cli /\ Common(DtorStop(Cli))) \/ (s = Srv /\ Server(SrvDtorStop))

\* The server's user calls something other than open_channel().
Asks(t) ==
  \/ t = "Token" /\ login = "ok" /\ Common(Call(Srv, "Token"))
  \/ t = "Mdt" /\ Server(SrvCallMdt)
  \/ t = "InitHandlers" /\ Server(SrvCallInitHandlers)

\* The steps that post a task of type t onto W of side s.
Posts(s, t) ==
  \/ s = Cli /\ \/ t = "Connect" /\ Client(CallConnect)
                \/ t = "Open" /\ Client(CliCallOpen)
                \/ t = "Token" /\ Common(Call(Cli, "Token"))
                \/ t = "Complete" /\ Client(SubclassPosts)
                \/ t = "OpenReq" /\ (Client(LogInRspOk) \/ Client(InitOpenLast))
                \/ t = "InitOpen" /\ Client(LogInRspAwaitInit)
                \/ t = "Fin" /\ Client(CompleteOk)
  \/ s = Srv /\ \/ t = "Open" /\ Server(SrvCallOpen)
                \/ Asks(t)
                \/ t = "PreInitErr" /\ Server(InitHandlersErr)
                \/ t \in {"OpenReq", "Fin"} /\ Server(InitHandlersOk)
                \/ t = "Err" /\ Server(InitBroken)
  \/ t \in {"DtorBegin", "DtorFlush"} /\ Starts(s)
  \/ t = "DtorFin" /\ Common(DtorGreet(s))
  \/ t = "DtorFlush" /\ Common(DtorGoOn(s))
  \/ t \in {"LogInReq", "LogInRsp"} /\ Common(DeliverLogIn(s)) /\ Arrives(s, t)
  \/ t = expects[s] /\ Common(DeliverOpenReq(s))
  \/ t = "Fin" /\ Common(DeliverFin(s))
  \/ t = "Err" /\ (Common(DetectError(s)) \/ Common(OpenBroken(s)))

\* The steps that send a message of type t to side s.
Sends(s, t) ==
  \/ t = "OpenReq" /\ Common(Open(Peer(s)))
  \/ t = "OpenRsp" /\ Common(OnOpenReq(Peer(s)))
  \/ t = "OpenRsp" /\ s = Srv /\ Client(InitOpenLast)
  \/ t \in {"LogInRsp", "OpenReq"} /\ s = Cli /\
       (Server(LogInReqOk) \/ Server(LogInReqAwaitAck) \/ Server(LogInReqInitFails))
  \/ t = "Fin" /\ Common(DtorFin(Peer(s)))

NotPosted(s) == {t \in TaskTypes : ~Posts(s, t)}
NotSent(s)   == {t \in TaskTypes : ~Sends(s, t)}

\* Every step other than a new connection.
Step == [Next]_vars /\ ~Reconnect

\* They are these.
CliSteps ==
  \/ Client(ConnectRefused) \/ Client(ConnectFails)
  \/ Client(LogInRspBad) \/ Client(LogInRspOk) \/ Client(LogInRspAwaitInit)
  \/ Client(InitOpenMore) \/ Client(InitOpenTooLate) \/ Client(InitOpenLast)
  \/ Client(OnDoneOk) \/ Client(OnDoneToConnecting) \/ Client(OnDoneToNull)
  \/ Client(CompleteOk) \/ Client(CompleteBad) \/ Client(CompleteTooLate)
  \/ Client(CliErrStale) \/ Client(CliErrConnecting) \/ Client(CliErrPeer)
  \/ Client(CliToken) \/ Client(SubclassPosts)
  \/ Client(CallConnect) \/ Client(CliCallOpen) \/ Common(Call(Cli, "Token"))

SrvSteps ==
  \/ Server(AcceptFails) \/ Server(AcceptStarts) \/ Server(LogInReqRefused)
  \/ Server(LogInRspUnsent) \/ Server(LogInReqOk) \/ Server(LogInReqAwaitAck)
  \/ Server(LogInReqInitFails) \/ Server(InitAcked) \/ Server(InitBroken)
  \/ Server(InitHandlersAgain) \/ Server(InitHandlersErr) \/ Server(InitHandlersOk)
  \/ Server(EmitPreInitErr) \/ Server(SrvErrStale) \/ Server(SrvErrLogIn)
  \/ Server(SrvErrAlmostPeer) \/ Server(SrvErrPeer) \/ Server(SrvToken) \/ Server(SrvMdt)
  \/ Server(SrvCallOpen) \/ Server(SrvOpenEmpty) \/ \E t : Asks(t)

SideSteps(s) ==
  \/ Common(Open(s)) \/ Common(OnOpenReq(s)) \/ Common(OnPassiveOpen(s))
  \/ Common(OnFin(s)) \/ Starts(s) \/ Common(DtorBegin(s)) \/ Common(DtorGreet(s))
  \/ Common(DtorFin(s)) \/ Common(DtorGoOn(s)) \/ Common(DtorFlush(s)) \/ Stops(s)
  \/ Common(DeliverLogIn(s)) \/ Common(DeliverOpenReq(s)) \/ Common(DeliverFin(s))
  \/ Common(DropLateRsp(s)) \/ Common(DetectError(s))
  \/ Common(OpenAnswered(s)) \/ Common(OpenBroken(s)) \/ Common(OpenTimeout(s))

LEMMA StepSteps ==
  Step => \/ CliSteps \/ SrvSteps \/ Common(LinkFail) \/ UNCHANGED vars
          \/ \E s \in Sides : SideSteps(s)
<1>0. Cli \in Sides /\ Srv \in Sides
  BY SidesAreSides
<1>1. CliTask => CliSteps \/ Reconnect
  BY DEF CliTask, Connect, Reconnect, CliSteps
<1>2. SrvTask => SrvSteps
  BY DEF SrvTask, SrvSteps
<1>3. ASSUME NEW s \in Sides, SharedTask(s) \/ WcStep(s) \/ Timeout(s) \/ DtorStep(s)
      PROVE  SideSteps(s) \/ SrvSteps
  BY <1>3 DEF SharedTask, WcStep, Timeout, DtorStep, SideSteps, SrvSteps, Stops
<1>4. Discard => SideSteps(Srv)
  BY <1>0 DEF Discard, SideSteps, Starts
<1>5. UserStep => CliSteps \/ SrvSteps \/ SideSteps(Cli) \/ SideSteps(Srv)
  <2>1. \A t : t \in {"Token", "Mdt", "InitHandlers"} /\ Asks(t) => SrvSteps
    BY DEF SrvSteps
  <2>2. /\ Server(SrvCallInitHandlers) => Asks("InitHandlers")
        /\ Server(SrvCallMdt) => Asks("Mdt")
        /\ login = "ok" /\ Common(Call(Srv, "Token")) => Asks("Token")
    BY DEF Asks
  <2>3. Common(DtorStart(Cli)) => Starts(Cli)
    BY PeerOfPeer DEF Starts
  <2> QED BY <2>1, <2>2, <2>3 DEF UserStep, CliSteps, SrvSteps, SideSteps, Starts
<1>6. SubclassStep => CliSteps
  BY DEF SubclassStep, CliSteps
<1> QED BY <1>0, <1>1, <1>2, <1>3, <1>4, <1>5, <1>6 DEF Step, Next, Break

-----------------------------------------------------------------------------
(* What a step does to the queues.                                          *)

\* The ways of W's queues: nothing, all dropped, a task done, a task posted, a
\* task done that posts others.
WqWay ==
  \/ UNCHANGED wq
  \/ \E r \in Sides : Stops(r) /\ wq' = [wq EXCEPT ![r] = <<>>]
  \/ \E r \in Sides : (\E t : Ready(r, t) /\ Done(r)) \/ Common(OnPassiveOpen(r))
  \/ \E r \in Sides, x \in Item : Post(r, x) /\ Posts(r, x.type)
  \/ \E r \in Sides, ms \in Seq(Item) : \E t :
       Ready(r, t) /\ DoneThen(r, ms) /\ \A i \in 1..Len(ms) : Posts(r, ms[i].type)

LEMMA WqWayLess ==
  ASSUME TypeOK, WqWay, NEW s \in Sides
  PROVE  Less(wq[s], wq'[s], NotPosted(s))
<1> DEFINE W == NotPosted(s)
<1>1. ASSUME NEW r \in Sides, NEW x \in Item, Post(r, x), Posts(r, x.type)
      PROVE  Less(wq[s], wq'[s], W)
  <2>1. r = s => x.type \notin W
    BY <1>1 DEF NotPosted
  <2> HIDE DEF W
  <2> QED BY <1>1, <2>1, WqLess
<1>2. ASSUME NEW r \in Sides, NEW t, NEW ms \in Seq(Item),
             Ready(r, t), DoneThen(r, ms), \A i \in 1..Len(ms) : Posts(r, ms[i].type)
      PROVE  Less(wq[s], wq'[s], W)
  <2>1. r = s => \A i \in 1..Len(ms) : ms[i].type \notin W
    BY <1>2 DEF NotPosted
  <2> HIDE DEF W
  <2> QED BY <1>2, <2>1, WqLess
<1> HIDE DEF W
<1>3. \/ UNCHANGED wq
      \/ \E r \in Sides : wq' = [wq EXCEPT ![r] = <<>>]
      \/ \E r \in Sides : (\E t : Ready(r, t) /\ Done(r)) \/ Common(OnPassiveOpen(r))
      => Less(wq[s], wq'[s], W)
  <2>1. \A r \in Sides : Common(OnPassiveOpen(r)) => wq[r] # <<>> /\ Done(r)
    BY DEF Common, OnPassiveOpen, Giving
  <2> QED BY <2>1, WqLess
<1>4. Less(wq[s], wq'[s], W)
  BY <1>1, <1>2, <1>3 DEF WqWay
<1> QED BY <1>4 DEF W

\* One plain task posted, alone or after the task that is done.
LEMMA PlainWay ==
  ASSUME NEW r \in Sides, NEW t \in TaskTypes, Posts(r, t)
  PROVE  /\ Post(r, Plain(t)) => WqWay
         /\ \A u : Ready(r, u) /\ DoneThen(r, <<Plain(t)>>) => WqWay
<1>1. Plain(t) \in Item /\ Plain(t).type = t
  BY PlainIsItem DEF Plain, New
<1>2. Post(r, Plain(t)) => WqWay
  BY <1>1 DEF WqWay
<1>3. <<Plain(t)>> \in Seq(Item) /\ \A i \in 1..Len(<<Plain(t)>>) : Posts(r, <<Plain(t)>>[i].type)
  BY <1>1, OneMore
<1>4. ASSUME NEW u, Ready(r, u), DoneThen(r, <<Plain(t)>>) PROVE WqWay
  BY <1>3, <1>4 DEF WqWay
<1> QED BY <1>2, <1>4

LEMMA EmptyWay ==
  ASSUME NEW r \in Sides, NEW u, Ready(r, u), DoneThen(r, <<>>)
  PROVE  WqWay
<1>1. <<>> \in Seq(Item) /\ \A i \in 1..Len(<<>>) : Posts(r, <<>>[i].type)
  BY EmptySeq, Zenon, SMT
<1> QED BY <1>1 DEF WqWay

\* The requests that were kept, and their tasks.
LEMMA KeptAre ==
  ASSUME TypeOK, NEW s \in Sides, NEW e \in ReqTypes
  PROVE  /\ Kept(s, e) \in Seq(Item) /\ Len(Kept(s, e)) = Len(cacheOpen[s])
         /\ \A i \in 1..Len(Kept(s, e)) : Kept(s, e)[i].type = e
<1>1. /\ cacheOpen[s] \in Seq(Item) /\ Kept(s, e) \in Seq(Item)
      /\ Len(Kept(s, e)) = Len(cacheOpen[s])
  BY KeptIsTyped DEF TypeOK, BaseTypeOK, ChanTypeOK, TaskTypes, MsgTypes, Kept, ReqTypes
<1>2. \A i \in 1..Len(cacheOpen[s]) : cacheOpen[s][i] \in Item
  BY <1>1
<1>3. \A i \in 1..Len(cacheOpen[s]) : Kept(s, e)[i].type = e
  BY <1>2 DEF Kept, Item
<1> QED BY <1>1, <1>3

\* Kept requests posted after the task that is done, a farewell following or not.
LEMMA KeptWay ==
  ASSUME TypeOK, NEW r \in Sides, NEW e \in ReqTypes, NEW u, Ready(r, u),
         Posts(r, e)
  PROVE  /\ DoneThen(r, Kept(r, e)) => WqWay
         /\ DoneThen(r, Kept(r, e) \o <<>>) => WqWay
         /\ Posts(r, "Fin") /\ DoneThen(r, Kept(r, e) \o <<Plain("Fin")>>) => WqWay
<1> DEFINE ks == Kept(r, e)
<1>1. ks \in Seq(Item) /\ \A i \in 1..Len(ks) : ks[i].type = e
  BY KeptAre
<1>2. Plain("Fin") \in Item /\ Plain("Fin").type = "Fin" /\ "Fin" \in TaskTypes
  BY PlainIsItem DEF TaskTypes, MsgTypes, Plain, New
<1> HIDE DEF ks
<1>3. DoneThen(r, ks) => WqWay
  <2>1. \A i \in 1..Len(ks) : Posts(r, ks[i].type)
    BY <1>1
  <2> QED BY <1>1, <2>1 DEF WqWay
<1>4. ks \o <<>> = ks
  BY <1>1
<1>5. ASSUME Posts(r, "Fin"), DoneThen(r, ks \o <<Plain("Fin")>>) PROVE WqWay
  <2> DEFINE ms == ks \o <<Plain("Fin")>>
  <2>1. <<Plain("Fin")>> \in Seq(Item) /\ \A i \in 1..Len(<<Plain("Fin")>>) :
          <<Plain("Fin")>>[i].type = "Fin"
    BY <1>2, OneMore
  <2>2. ms \in Seq(Item) /\ \A i \in 1..Len(ms) : ms[i].type = e \/ ms[i].type = "Fin"
    BY <1>1, <2>1, QueueElements
  <2>3. \A i \in 1..Len(ms) : Posts(r, ms[i].type)
    BY <1>5, <2>2
  <2> HIDE DEF ms
  <2>4. DoneThen(r, ms)
    BY <1>5 DEF ms
  <2> QED BY <2>2, <2>3, <2>4 DEF WqWay
<1> QED BY <1>3, <1>4, <1>5 DEF ks

LEMMA CliStepWay ==
  ASSUME TypeOK, CliSteps
  PROVE  WqWay
<1>0. Cli \in Sides /\ TaskTypes # {} /\ ReqTypes \subseteq TaskTypes
  BY SidesAreSides DEF TaskTypes, MsgTypes, ReqTypes
<1>1. CASE \/ Client(ConnectRefused) \/ Client(ConnectFails) \/ Client(LogInRspBad)
           \/ Client(InitOpenMore) \/ Client(InitOpenTooLate) \/ Client(CompleteBad)
           \/ Client(CompleteTooLate) \/ Client(CliErrStale) \/ Client(CliErrConnecting)
           \/ Client(CliErrPeer) \/ Client(CliToken)
  <2>1. \E t : Ready(Cli, t) /\ Done(Cli)
    BY <1>1 DEF Client, ConnectRefused, ConnectFails, LogInRspBad, InitOpenMore,
       InitOpenTooLate, CompleteBad, CompleteTooLate, CliErrStale, CliErrConnecting,
       CliErrPeer, CliToken, ConnectBreaks
  <2> QED BY <1>0, <2>1 DEF WqWay
<1>7. CASE Client(OnDoneOk) \/ Client(OnDoneToConnecting) \/ Client(OnDoneToNull)
  BY <1>7 DEF Client, OnDoneOk, OnDoneToConnecting, OnDoneToNull, WqWay
<1>2. CASE Client(LogInRspOk) \/ Client(LogInRspAwaitInit)
  <2>1. /\ \E t : Ready(Cli, t)
        /\ \/ Done(Cli)
           \/ Client(LogInRspOk) /\ DoneThen(Cli, Kept(Cli, "OpenReq"))
           \/ Client(LogInRspAwaitInit) /\ DoneThen(Cli, Kept(Cli, "InitOpen"))
    BY <1>2 DEF Client, LogInRspOk, LogInRspAwaitInit, ExpectOpenReqs
  <2>2. CASE Done(Cli)
    BY <1>0, <2>1, <2>2 DEF WqWay
  <2>3. CASE Client(LogInRspOk) /\ DoneThen(Cli, Kept(Cli, "OpenReq"))
    BY <1>0, <2>1, <2>3, KeptWay DEF Posts, ReqTypes
  <2>4. CASE Client(LogInRspAwaitInit) /\ DoneThen(Cli, Kept(Cli, "InitOpen"))
    BY <1>0, <2>1, <2>4, KeptWay DEF Posts, ReqTypes
  <2> QED BY <2>1, <2>2, <2>3, <2>4
<1>3. CASE Client(InitOpenLast)
  <2>1. Ready(Cli, "InitOpen") /\ DoneThen(Cli, Kept(Cli, "OpenReq"))
    BY <1>3 DEF Client, InitOpenLast, ExpectOpenReqs
  <2>2. Posts(Cli, "OpenReq") /\ "OpenReq" \in ReqTypes
    BY <1>3 DEF Posts, ReqTypes
  <2> QED BY <1>0, <2>1, <2>2, KeptWay
<1>4. CASE Client(CompleteOk)
  <2> DEFINE fin == <<Plain("Fin")>>
  <2>1. /\ Ready(Cli, "Complete")
        /\ DoneThen(Cli, <<>> \o <<>>) \/ DoneThen(Cli, <<>> \o fin)
    BY <1>4 DEF Client, CompleteOk, EmplaceFinisher
  <2>2. /\ <<>> \o <<>> = <<>> /\ <<>> \o fin = fin /\ <<>> \in Seq(Item) /\ Len(<<>>) = 0
    <3>1. fin \in Seq(Item)
      BY PlainIsItem DEF TaskTypes, MsgTypes
    <3> QED BY <3>1
  <2>3. CASE DoneThen(Cli, <<>> \o <<>>)
    BY <1>0, <2>1, <2>2, <2>3, EmptyWay
  <2>4. CASE DoneThen(Cli, <<>> \o fin)
    <3>1. DoneThen(Cli, fin) /\ Posts(Cli, "Fin") /\ "Fin" \in TaskTypes
      BY <1>4, <2>2, <2>4 DEF Posts, TaskTypes, MsgTypes
    <3> QED BY <1>0, <2>1, <3>1, PlainWay
  <2> QED BY <2>1, <2>3, <2>4
<1>5. CASE Client(CallConnect) \/ Client(CliCallOpen) \/ Common(Call(Cli, "Token"))
  <2>1. \E t \in {"Connect", "Open", "Token"} : Posts(Cli, t) /\ Post(Cli, Plain(t))
    <3>1. Client(CallConnect) => Posts(Cli, "Connect") /\ Post(Cli, Plain("Connect"))
      BY DEF Posts, Client, CallConnect, Call
    <3>2. Client(CliCallOpen) => Posts(Cli, "Open") /\ Post(Cli, Plain("Open"))
      BY DEF Posts, Client, CliCallOpen, CallOpen, Call
    <3>3. Common(Call(Cli, "Token")) => Posts(Cli, "Token") /\ Post(Cli, Plain("Token"))
      BY DEF Posts, Common, Call
    <3> QED BY <1>5, <3>1, <3>2, <3>3
  <2>2. {"Connect", "Open", "Token"} \subseteq TaskTypes
    BY DEF TaskTypes
  <2> QED BY <1>0, <2>1, <2>2, PlainWay
<1>6. CASE Client(SubclassPosts)
  <2>1. \E n \in {"ok", "rejected"} : Post(Cli, New("Complete", 0, n))
    BY <1>6 DEF Client, SubclassPosts
  <2>2. Posts(Cli, "Complete") /\ "Complete" \in TaskTypes
    BY <1>6 DEF Posts, TaskTypes
  <2>3. \A n \in {"ok", "rejected"} :
          New("Complete", 0, n) \in Item /\ New("Complete", 0, n).type = "Complete"
    BY NewIsItem DEF TaskTypes, Notes, New
  <2> QED BY <1>0, <2>1, <2>2, <2>3 DEF WqWay
<1> QED BY <1>1, <1>2, <1>3, <1>4, <1>5, <1>6, <1>7 DEF CliSteps

LEMMA SrvStepWay ==
  ASSUME TypeOK, SrvSteps
  PROVE  WqWay
<1>0. Srv \in Sides
  BY SidesAreSides
<1>1. CASE \/ Server(AcceptFails) \/ Server(AcceptStarts) \/ Server(LogInReqRefused)
           \/ Server(LogInRspUnsent) \/ Server(LogInReqOk) \/ Server(LogInReqAwaitAck)
           \/ Server(LogInReqInitFails) \/ Server(InitHandlersAgain)
           \/ Server(EmitPreInitErr) \/ Server(SrvErrStale) \/ Server(SrvErrLogIn)
           \/ Server(SrvErrAlmostPeer) \/ Server(SrvErrPeer) \/ Server(SrvToken)
           \/ Server(SrvMdt)
  <2>1. \E t : Ready(Srv, t) /\ Done(Srv)
    BY <1>1 DEF Server, AcceptFails, AcceptStarts, LogInReqRefused, LogInRspUnsent,
       LogInReqOk, LogInReqAwaitAck, LogInReqInitFails, InitHandlersAgain, EmitPreInitErr,
       SrvErrStale, SrvErrLogIn, SrvErrAlmostPeer, SrvErrPeer, SrvToken, SrvMdt
  <2> QED BY <1>0, <2>1 DEF WqWay
<1>2. CASE Server(InitAcked) \/ Server(InitBroken) \/ Server(SrvOpenEmpty)
  <2>1. UNCHANGED wq \/ (Post(Srv, Plain("Err")) /\ Posts(Srv, "Err"))
    <3>1. Server(InitBroken) => Posts(Srv, "Err")
      BY DEF Posts
    <3> QED BY <1>2, <3>1 DEF Server, InitAcked, InitBroken, SrvOpenEmpty
  <2>2. "Err" \in TaskTypes
    BY DEF TaskTypes
  <2> QED BY <1>0, <2>1, <2>2, PlainWay DEF WqWay
<1>3. CASE Server(InitHandlersErr)
  <2>1. Ready(Srv, "InitHandlers") /\ DoneThen(Srv, <<Plain("PreInitErr")>>)
    BY <1>3 DEF Server, InitHandlersErr
  <2>2. Posts(Srv, "PreInitErr") /\ "PreInitErr" \in TaskTypes
    BY <1>3 DEF Posts, TaskTypes
  <2> QED BY <1>0, <2>1, <2>2, PlainWay
<1>4. CASE Server(InitHandlersOk)
  <2> DEFINE fin == <<Plain("Fin")>>
  <2>1. /\ Ready(Srv, "InitHandlers")
        /\ \E ks \in {<<>>, Kept(Srv, "OpenReq")} :
             DoneThen(Srv, ks) \/ DoneThen(Srv, ks \o <<>>) \/ DoneThen(Srv, ks \o fin)
    BY <1>4 DEF Server, InitHandlersOk, EmplaceFinisher
  <2>2. /\ Posts(Srv, "OpenReq") /\ Posts(Srv, "Fin")
        /\ "OpenReq" \in ReqTypes /\ "Fin" \in TaskTypes
    BY <1>4 DEF Posts, ReqTypes, TaskTypes, MsgTypes
  <2>3. /\ <<>> \o <<>> = <<>> /\ <<>> \o fin = fin /\ <<>> \in Seq(Item) /\ Len(<<>>) = 0
    <3>1. fin \in Seq(Item)
      BY PlainIsItem DEF TaskTypes, MsgTypes
    <3> QED BY <3>1
  <2> HIDE DEF fin
  <2>4. ASSUME DoneThen(Srv, <<>>) PROVE WqWay
    BY <1>0, <2>1, <2>4, EmptyWay
  <2>5. ASSUME DoneThen(Srv, fin) PROVE WqWay
    BY <1>0, <2>1, <2>2, <2>5, PlainWay DEF fin
  <2>6. /\ DoneThen(Srv, Kept(Srv, "OpenReq")) => WqWay
        /\ DoneThen(Srv, Kept(Srv, "OpenReq") \o <<>>) => WqWay
        /\ DoneThen(Srv, Kept(Srv, "OpenReq") \o fin) => WqWay
    BY <1>0, <2>1, <2>2, KeptWay DEF fin
  <2> QED BY <2>1, <2>3, <2>4, <2>5, <2>6
<1>5. CASE Server(SrvCallOpen) \/ \E t : Asks(t)
  <2>1. \E t \in {"Open", "Token", "Mdt", "InitHandlers"} : Posts(Srv, t) /\ Post(Srv, Plain(t))
    <3>1. Server(SrvCallOpen) => Posts(Srv, "Open") /\ Post(Srv, Plain("Open"))
      BY DEF Posts, Server, SrvCallOpen, CallOpen, Call
    <3>2. ASSUME NEW t, Asks(t)
          PROVE  /\ t \in {"Open", "Token", "Mdt", "InitHandlers"}
                 /\ Posts(Srv, t) /\ Post(Srv, Plain(t))
      <4>1. Posts(Srv, t)
        BY <3>2 DEF Posts
      <4> QED BY <3>2, <4>1 DEF Asks, Server, SrvCallMdt, SrvCallInitHandlers, Call, Common
    <3> QED BY <1>5, <3>1, <3>2
  <2>2. {"Open", "Token", "Mdt", "InitHandlers"} \subseteq TaskTypes
    BY DEF TaskTypes
  <2> QED BY <1>0, <2>1, <2>2, PlainWay
<1> QED BY <1>1, <1>2, <1>3, <1>4, <1>5 DEF SrvSteps

LEMMA SideStepWay ==
  ASSUME TypeOK, NEW s \in Sides, SideSteps(s)
  PROVE  WqWay
<1>1. CASE \/ Common(Open(s)) \/ Common(OnOpenReq(s)) \/ Common(OnFin(s))
           \/ Common(DtorBegin(s)) \/ Common(DtorFin(s)) \/ Common(DtorFlush(s))
  <2>1. UNCHANGED wq \/ \E t : Ready(s, t) /\ Done(s)
    BY <1>1 DEF Common, Open, OnOpenReq, OnFin, DtorBegin, DtorFin, DtorFlush
  <2> QED BY <2>1 DEF WqWay
<1>7. CASE Common(OnPassiveOpen(s))
  BY <1>7 DEF WqWay
<1>2. CASE Stops(s)
  <2>1. wq' = [wq EXCEPT ![s] = <<>>]
    BY <1>2 DEF Stops, Common, Server, SrvDtorStop, DtorStop
  <2> QED BY <1>2, <2>1 DEF WqWay
<1>3. CASE Common(DropLateRsp(s)) \/ Common(OpenAnswered(s)) \/ Common(OpenTimeout(s))
  BY <1>3 DEF Common, DropLateRsp, OpenAnswered, OpenTimeout, threadVars, WqWay
<1>4. CASE \/ Starts(s) \/ Common(DtorGreet(s)) \/ Common(DtorGoOn(s))
           \/ Common(DeliverFin(s)) \/ Common(DetectError(s)) \/ Common(OpenBroken(s))
  <2> DEFINE T == {"DtorBegin", "DtorFlush", "DtorFin", "Fin", "Err"}
  <2>1. UNCHANGED wq \/ \E t \in T : Posts(s, t) /\ Post(s, Plain(t))
    <3>1. Starts(s) => \E t \in T : Posts(s, t) /\ Post(s, Plain(t))
      <4>1. Starts(s) => Posts(s, "DtorBegin") /\ Posts(s, "DtorFlush")
        BY DEF Posts
      <4> QED BY <4>1 DEF Starts, Common, DtorStart
    <3>2. Common(DtorGreet(s)) => \E t \in T : Posts(s, t) /\ Post(s, Plain(t))
      BY DEF Posts, Common, DtorGreet
    <3>3. Common(DtorGoOn(s)) => \E t \in T : Posts(s, t) /\ Post(s, Plain(t))
      BY DEF Posts, Common, DtorGoOn
    <3>4. Common(DeliverFin(s)) => UNCHANGED wq \/ \E t \in T : Posts(s, t) /\ Post(s, Plain(t))
      <4>1. Common(DeliverFin(s)) => Posts(s, "Fin")
        BY DEF Posts
      <4> QED BY <4>1 DEF Common, DeliverFin
    <3>5. Common(DetectError(s)) \/ Common(OpenBroken(s)) =>
            UNCHANGED wq \/ \E t \in T : Posts(s, t) /\ Post(s, Plain(t))
      <4>1. Common(DetectError(s)) \/ Common(OpenBroken(s)) => Posts(s, "Err")
        BY DEF Posts
      <4> QED BY <4>1 DEF Common, DetectError, OpenBroken
    <3> HIDE DEF T
    <3> QED BY <1>4, <3>1, <3>2, <3>3, <3>4, <3>5
  <2>2. T \subseteq TaskTypes
    BY DEF TaskTypes, MsgTypes
  <2> HIDE DEF T
  <2> QED BY <2>1, <2>2, PlainWay DEF WqWay
<1>5. CASE Common(DeliverLogIn(s))
  <2>1. PICK t \in {"LogInReq", "LogInRsp"} : Arrives(s, t) /\ Post(s, Head(net[s]))
    BY <1>5 DEF Common, DeliverLogIn
  <2>2. Head(net[s]) \in Item /\ Head(net[s]).type = t
    BY <2>1, ArrivesKeepsType DEF Arrives, TypeOK, BaseTypeOK
  <2>3. Posts(s, t)
    BY <1>5, <2>1 DEF Posts
  <2> QED BY <2>1, <2>2, <2>3 DEF WqWay
<1>6. CASE Common(DeliverOpenReq(s))
  <2> DEFINE x == [Head(net[s]) EXCEPT !.type = expects[s]]
  <2>1. Arrives(s, "OpenReq") /\ ((expects[s] # "none" /\ Post(s, x)) \/ UNCHANGED wq)
    BY <1>6 DEF Common, DeliverOpenReq
  <2>2. CASE expects[s] # "none" /\ Post(s, x)
    <3>1. Head(net[s]) \in Item /\ expects[s] \in TaskTypes
      BY <2>1, <2>2, ArrivesKeepsType DEF Arrives, TypeOK, BaseTypeOK, ChanTypeOK, TaskTypes,
         MsgTypes
    <3>2. x \in Item /\ x.type = expects[s]
      BY <3>1, RetypeIsItem DEF Item
    <3>3. Posts(s, expects[s])
      BY <1>6 DEF Posts
    <3> HIDE DEF x
    <3> QED BY <2>2, <3>2, <3>3 DEF WqWay
  <2> QED BY <2>1, <2>2 DEF WqWay
<1> QED BY <1>1, <1>2, <1>3, <1>4, <1>5, <1>6, <1>7 DEF SideSteps

LEMMA StepWay ==
  ASSUME TypeOK, Step
  PROVE  WqWay
<1>1. Common(LinkFail) \/ UNCHANGED vars => WqWay
  BY DEF Common, LinkFail, vars, baseVars, threadVars, WqWay
<1> QED BY <1>1, StepSteps, CliStepWay, SrvStepWay, SideStepWay

LEMMA StepLess ==
  ASSUME TypeOK, Step, NEW s \in Sides
  PROVE  Less(wq[s], wq'[s], NotPosted(s))
BY StepWay, WqWayLess

LEMMA ItemsConcat ==
  ASSUME NEW p \in Seq(Item), NEW q \in Seq(Item), NEW r \in Seq(Item)
  PROVE  p \o q \o r = p \o (q \o r)
BY ConcatAssociative

\* The response to a log-in and the requests that announce k init-channels.
LEMMA LogInTypes ==
  ASSUME NEW k \in Nat
  PROVE  LET ms == <<Plain("LogInRsp")>> \o InitReqs(k)
         IN  /\ ms \in Seq(Item)
             /\ \A i \in 1..Len(ms) : ms[i].type \in {"LogInRsp", "OpenReq"}
<1> DEFINE h == <<Plain("LogInRsp")>>
           rs == InitReqs(k)
<1>1. /\ h \in Seq(Item) /\ \A i \in 1..Len(h) : h[i].type = "LogInRsp"
  <2>1. Plain("LogInRsp") \in Item /\ Plain("LogInRsp").type = "LogInRsp"
    BY PlainIsItem DEF TaskTypes, MsgTypes, Plain, New
  <2> QED BY <2>1, OneMore
<1>2. rs \in Seq(Item) /\ \A i \in 1..Len(rs) : rs[i].type = "OpenReq"
  <2>1. rs \in Seq(Item)
    BY InitReqsAreTyped
  <2>2. Len(rs) = k /\ \A i \in 1..k : rs[i].type = "OpenReq"
    BY DEF InitReqs, InitReq, New
  <2> QED BY <2>1, <2>2
<1> HIDE DEF h, rs
<1>3. /\ h \o rs \in Seq(Item)
      /\ \A i \in 1..Len(h \o rs) : (h \o rs)[i].type \in {"LogInRsp", "OpenReq"}
  BY <1>1, <1>2, QueueElements
<1> QED BY <1>3 DEF h, rs

\* Messages to side s are put at the end, or none.
LEMMA SentLess ==
  ASSUME TypeOK, NEW s \in Sides, NEW ms \in Seq(Item),
         \A i \in 1..Len(ms) : Sends(s, ms[i].type),
         net'[s] = net[s] \/ net'[s] = net[s] \o ms
  PROVE  Less(net[s], net'[s], NotSent(s))
<1>1. \A i \in 1..Len(ms) : ms[i].type \notin NotSent(s)
  BY DEF NotSent
<1> QED BY <1>1, LessWays DEF TypeOK, BaseTypeOK, ChanTypeOK

\* The ways of the messages.
NetWay ==
  \/ UNCHANGED net
  \/ \E r \in Sides : net' = [net EXCEPT ![r] = <<>>]
  \/ \E r \in Sides : \E t : Arrives(r, t)
  \/ \E r \in Sides, ms \in Seq(Item) : \E out :
       Send(r, ms, out) /\ \A i \in 1..Len(ms) : Sends(Peer(r), ms[i].type)

LEMMA NetWayLess ==
  ASSUME TypeOK, NetWay, NEW s \in Sides
  PROVE  Less(net[s], net'[s], NotSent(s))
<1>1. ASSUME NEW r \in Sides, NEW ms \in Seq(Item), NEW out, Send(r, ms, out),
             \A i \in 1..Len(ms) : Sends(Peer(r), ms[i].type)
      PROVE  Less(net[s], net'[s], NotSent(s))
  <2>0. net \in [Sides -> Seq(Item)]
    BY DEF TypeOK, BaseTypeOK, ChanTypeOK
  <2>1. net' = net \/ net' = [net EXCEPT ![Peer(r)] = net[Peer(r)] \o ms]
    BY <1>1 DEF Send
  <2>2. CASE Peer(r) = s
    BY <1>1, <2>0, <2>1, <2>2, SentLess
  <2>3. CASE Peer(r) # s
    <3>1. net'[s] = net[s]
      BY <2>0, <2>1, <2>3
    <3> QED BY <2>0, <3>1, LessWays
  <2> QED BY <2>2, <2>3
<1>2. \/ UNCHANGED net
      \/ \E r \in Sides : net' = [net EXCEPT ![r] = <<>>]
      \/ \E r \in Sides : \E t : Arrives(r, t)
      => Less(net[s], net'[s], NotSent(s))
  BY NetLess
<1> QED BY <1>1, <1>2 DEF NetWay

\* One message sent.
LEMMA OneSent ==
  ASSUME NEW r \in Sides, NEW x \in Item, NEW out, Send(r, <<x>>, out), Sends(Peer(r), x.type)
  PROVE  NetWay
<1>1. <<x>> \in Seq(Item) /\ \A i \in 1..Len(<<x>>) : Sends(Peer(r), <<x>>[i].type)
  BY OneMore
<1> QED BY <1>1 DEF NetWay

LEMMA CliStepNet ==
  ASSUME TypeOK, CliSteps
  PROVE  NetWay
<1>0. Cli \in Sides
  BY SidesAreSides
<1>1. CASE Client(InitOpenLast)
  <2> DEFINE x == New("OpenRsp", Task(Cli).id, "init")
  <2>1. Ready(Cli, "InitOpen") /\ \E out : Send(Cli, <<x>>, out)
    BY <1>1 DEF Client, InitOpenLast
  <2>2. x \in Item /\ x.type = "OpenRsp"
    BY <1>0, <2>1, TaskIsItem, NewIsItem DEF TypeOK, BaseTypeOK, TaskTypes, MsgTypes, Notes, New
  <2>3. Sends(Srv, "OpenRsp") /\ Peer(Cli) = Srv
    BY <1>1, PeerOfPeer DEF Sends
  <2> HIDE DEF x
  <2> QED BY <1>0, <2>1, <2>2, <2>3, OneSent
<1>2. CASE ~Client(InitOpenLast)
  <2>1. UNCHANGED net \/ net' = [net EXCEPT ![Cli] = <<>>]
    BY <1>2 DEF CliSteps, Client, ConnectRefused, ConnectFails, LogInRspBad, LogInRspOk,
       LogInRspAwaitInit, InitOpenMore, InitOpenTooLate, OnDoneOk, OnDoneToConnecting,
       OnDoneToNull, CompleteOk, CompleteBad, CompleteTooLate, CliErrStale, CliErrConnecting,
       CliErrPeer, CliToken, SubclassPosts, CallConnect, CliCallOpen, CallOpen, Common, Call,
       ConnectBreaks, DropChannel, chanVars
  <2> QED BY <1>0, <2>1 DEF NetWay
<1> QED BY <1>1, <1>2

LEMMA SrvStepNet ==
  ASSUME TypeOK, SrvSteps, NEW s \in Sides
  PROVE  Less(net[s], net'[s], NotSent(s))
<1>0. /\ Srv \in Sides /\ Cli \in Sides /\ Peer(Srv) = Cli /\ Cli # Srv /\ s \in {Cli, Srv}
      /\ net \in [Sides -> Seq(Item)] /\ NInit \in Nat /\ 0 \in Nat
  BY SidesAreSides, PeerOfPeer, NInitIsNat DEF TypeOK, BaseTypeOK, ChanTypeOK
<1>1. CASE Server(LogInReqOk) \/ Server(LogInReqAwaitAck)
  <2>1. Sends(Cli, "LogInRsp") /\ Sends(Cli, "OpenReq")
    BY <1>1 DEF Sends
  <2>2. CASE Server(LogInReqOk)
    <3>1. Send(Srv, <<Plain("LogInRsp")>>, "ok")
      BY <2>2 DEF Server, LogInReqOk
    <3>2. Plain("LogInRsp") \in Item /\ Plain("LogInRsp").type = "LogInRsp"
      BY PlainIsItem DEF TaskTypes, MsgTypes, Plain, New
    <3> QED BY <1>0, <2>1, <3>1, <3>2, OneSent, NetWayLess
  <2>3. CASE Server(LogInReqAwaitAck)
    <3> DEFINE ms == <<Plain("LogInRsp")>> \o InitReqs(NInit)
    <3>1. Send(Srv, ms, "ok")
      BY <2>3 DEF Server, LogInReqAwaitAck
    <3>2. ms \in Seq(Item) /\ \A i \in 1..Len(ms) : Sends(Cli, ms[i].type)
      BY <1>0, <2>1, LogInTypes
    <3> HIDE DEF ms
    <3>3. NetWay
      BY <1>0, <3>1, <3>2 DEF NetWay
    <3> QED BY <3>3, NetWayLess
  <2> QED BY <1>1, <2>2, <2>3
<1>2. CASE Server(LogInReqInitFails)
  <2>1. PICK k \in 0..NInit :
          net' = [net EXCEPT ![Srv] = <<>>, ![Cli] =
            IF Gone(Srv) THEN @ ELSE @ \o <<Plain("LogInRsp")>> \o InitReqs(k)]
    BY <1>2 DEF Server, LogInReqInitFails
  <2> DEFINE ms == <<Plain("LogInRsp")>> \o InitReqs(k)
  <2>2. /\ net'[Srv] = <<>>
        /\ net'[Cli] = net[Cli] \/ net'[Cli] = net[Cli] \o <<Plain("LogInRsp")>> \o InitReqs(k)
    BY <1>0, <2>1
  <2>3. ms \in Seq(Item) /\ \A i \in 1..Len(ms) : Sends(Cli, ms[i].type)
    <3>1. Sends(Cli, "LogInRsp") /\ Sends(Cli, "OpenReq")
      BY <1>2 DEF Sends
    <3>2. k \in Nat
      BY <1>0, <2>1
    <3> QED BY <3>1, <3>2, LogInTypes
  <2>4. net[Cli] \o <<Plain("LogInRsp")>> \o InitReqs(k) = net[Cli] \o ms
    <3>1. <<Plain("LogInRsp")>> \in Seq(Item) /\ InitReqs(k) \in Seq(Item)
      BY <1>0, PlainIsItem, InitReqsAreTyped DEF TaskTypes, MsgTypes
    <3> QED BY <1>0, <3>1, ItemsConcat
  <2> HIDE DEF ms
  <2>5. CASE s = Cli
    BY <1>0, <2>2, <2>3, <2>4, <2>5, SentLess
  <2>6. CASE s = Srv
    BY <1>0, <2>2, <2>6, LessWays
  <2> QED BY <1>0, <2>5, <2>6
<1>3. CASE \/ Server(AcceptFails) \/ Server(AcceptStarts) \/ Server(LogInReqRefused)
           \/ Server(LogInRspUnsent) \/ Server(InitAcked) \/ Server(InitBroken)
           \/ Server(InitHandlersAgain) \/ Server(InitHandlersErr) \/ Server(InitHandlersOk)
           \/ Server(EmitPreInitErr) \/ Server(SrvErrStale) \/ Server(SrvErrLogIn)
           \/ Server(SrvErrAlmostPeer) \/ Server(SrvErrPeer) \/ Server(SrvToken)
           \/ Server(SrvMdt) \/ Server(SrvCallOpen) \/ Server(SrvOpenEmpty)
           \/ \E t : Asks(t)
  <2>1. UNCHANGED net \/ net' = [net EXCEPT ![Srv] = <<>>] \/ Arrives(Srv, "OpenRsp")
    BY <1>3 DEF Server, AcceptFails, AcceptStarts, LogInReqRefused, LogInRspUnsent, InitAcked,
       InitBroken, InitHandlersAgain, InitHandlersErr, InitHandlersOk, EmitPreInitErr,
       SrvErrStale, SrvErrLogIn, SrvErrAlmostPeer, SrvErrPeer, SrvToken, SrvMdt, SrvCallOpen,
       CallOpen, SrvOpenEmpty, Asks, SrvCallMdt, SrvCallInitHandlers, Common, Call, LogInFails,
       chanVars
  <2> QED BY <1>0, <2>1, NetWayLess DEF NetWay
<1> QED BY <1>1, <1>2, <1>3 DEF SrvSteps

LEMMA SideStepNet ==
  ASSUME TypeOK, NEW s \in Sides, SideSteps(s)
  PROVE  NetWay
<1>0. Peer(s) \in Sides /\ Peer(Peer(s)) = s
  BY PeerOfPeer
<1>1. CASE Common(Open(s))
  <2> DEFINE x == New("OpenReq", opens[s] + 1, "user")
  <2>1. UNCHANGED net \/ \E out : Send(s, <<x>>, out)
    BY <1>1 DEF Common, Open
  <2>2. x \in Item /\ x.type = "OpenReq"
    <3>1. opens[s] + 1 \in Nat
      BY DEF TypeOK, BaseTypeOK, PeerTypeOK
    <3> QED BY <3>1, NewIsItem DEF TaskTypes, MsgTypes, Notes, New
  <2>3. Sends(Peer(s), "OpenReq")
    BY <1>0, <1>1 DEF Sends
  <2> HIDE DEF x
  <2> QED BY <2>1, <2>2, <2>3, OneSent DEF NetWay
<1>2. CASE Common(OnOpenReq(s))
  <2>1. UNCHANGED net \/ \E v \in Verdicts(s), out \in SendOutcomes :
                           Send(s, <<New("OpenRsp", Task(s).id, v)>>, out)
    BY <1>2 DEF Common, OnOpenReq
  <2>2. Task(s).id \in Nat
    BY <1>2, TaskIsItem DEF Common, OnOpenReq, TypeOK, BaseTypeOK
  <2>3. \A v \in Verdicts(s) : /\ New("OpenRsp", Task(s).id, v) \in Item
                               /\ New("OpenRsp", Task(s).id, v).type = "OpenRsp"
    <3>1. Verdicts(s) \subseteq Notes
      BY DEF Verdicts, Notes
    <3> QED BY <2>2, <3>1, NewIsItem DEF TaskTypes, MsgTypes, New
  <2>4. Sends(Peer(s), "OpenRsp")
    BY <1>0, <1>2 DEF Sends
  <2> QED BY <2>1, <2>3, <2>4, OneSent DEF NetWay
<1>3. CASE Common(DtorFin(s))
  <2>1. \E out : Send(s, <<Plain("Fin")>>, out)
    BY <1>3 DEF Common, DtorFin
  <2>2. Plain("Fin") \in Item /\ Plain("Fin").type = "Fin"
    BY PlainIsItem DEF TaskTypes, MsgTypes, Plain, New
  <2>3. Sends(Peer(s), "Fin")
    BY <1>0, <1>3 DEF Sends
  <2> QED BY <2>1, <2>2, <2>3, OneSent
<1>4. CASE ~Common(Open(s)) /\ ~Common(OnOpenReq(s)) /\ ~Common(DtorFin(s))
  <2>1. UNCHANGED net \/ net' = [net EXCEPT ![s] = <<>>] \/ \E t : Arrives(s, t)
    BY <1>4 DEF SideSteps, Stops, Starts, Common, Server, OnPassiveOpen, OnFin, DtorStart,
       DtorBegin, DtorGreet, DtorGoOn, DtorFlush, SrvDtorStop, DtorStop, DeliverLogIn,
       DeliverOpenReq, DeliverFin, DropLateRsp, DetectError, OpenAnswered, OpenBroken,
       OpenTimeout, chanVars
  <2> QED BY <2>1 DEF NetWay
<1> QED BY <1>1, <1>2, <1>3, <1>4

LEMMA StepNetLess ==
  ASSUME TypeOK, Step, NEW s \in Sides
  PROVE  Less(net[s], net'[s], NotSent(s))
<1>1. Common(LinkFail) \/ UNCHANGED vars => NetWay
  BY DEF Common, LinkFail, vars, baseVars, chanVars, NetWay
<1> QED BY <1>1, StepSteps, CliStepNet, SrvStepNet, SideStepNet, NetWayLess

-----------------------------------------------------------------------------
(* Which steps write a variable.                                            *)

\* The destructor of s goes on.
LEMMA DtorWays ==
  ASSUME TypeOK, Step, NEW s \in Sides
  PROVE  \/ dtor'[s] = dtor[s] \/ Starts(s) \/ Common(DtorBegin(s)) \/ Common(DtorGreet(s))
         \/ Common(DtorFin(s)) \/ Common(DtorGoOn(s)) \/ Common(DtorFlush(s)) \/ Stops(s)
<1>1. CliSteps =>
      \/ UNCHANGED dtor
  BY DEF CliSteps, Client, ConnectRefused, ConnectFails, LogInRspBad, LogInRspOk,
     LogInRspAwaitInit, InitOpenMore, InitOpenTooLate, InitOpenLast, OnDoneOk,
     OnDoneToConnecting, OnDoneToNull, CompleteOk, CompleteBad, CompleteTooLate, CliErrStale,
     CliErrConnecting, CliErrPeer, CliToken, SubclassPosts, CallConnect, CliCallOpen,
     ConnectBreaks, CallOpen, Call, Common, endVars
<1>2. SrvSteps =>
      \/ UNCHANGED dtor
  BY DEF SrvSteps, Server, AcceptFails, AcceptStarts, LogInReqRefused, LogInRspUnsent,
     LogInReqOk, LogInReqAwaitAck, LogInReqInitFails, InitAcked, InitBroken, InitHandlersAgain,
     InitHandlersErr, InitHandlersOk, EmitPreInitErr, SrvErrStale, SrvErrLogIn,
     SrvErrAlmostPeer, SrvErrPeer, SrvToken, SrvMdt, SrvCallOpen, SrvOpenEmpty, Asks,
     SrvCallMdt, SrvCallInitHandlers, CallOpen, Call, Common, endVars
<1>3. ASSUME NEW r \in Sides, SideSteps(r)
      PROVE  \/ UNCHANGED dtor \/ Starts(r) \/ Common(DtorBegin(r)) \/ Common(DtorGreet(r))
             \/ Common(DtorFin(r)) \/ Common(DtorGoOn(r)) \/ Common(DtorFlush(r)) \/ Stops(r)
  BY <1>3 DEF SideSteps, Common, Open, OnOpenReq, OnPassiveOpen, OnFin, DeliverLogIn,
     DeliverOpenReq, DeliverFin, DropLateRsp, DetectError, OpenAnswered, OpenBroken,
     OpenTimeout, endVars
<1>4. ASSUME NEW r \in Sides, r # s,
             \/ Starts(r) \/ Common(DtorBegin(r)) \/ Common(DtorGreet(r))
             \/ Common(DtorFin(r)) \/ Common(DtorGoOn(r)) \/ Common(DtorFlush(r)) \/ Stops(r)
      PROVE  dtor'[s] = dtor[s]
  BY <1>4 DEF Common, Starts, DtorBegin, DtorGreet, DtorFin, DtorGoOn, DtorFlush, Stops,
     DtorStart, DtorStop, SrvDtorStop, Server, TypeOK, BaseTypeOK, ChanTypeOK, ThreadTypeOK,
     PeerTypeOK, EndTypeOK
<1>5. Common(LinkFail) \/ UNCHANGED vars => UNCHANGED dtor
  BY DEF Common, LinkFail, vars, baseVars, endVars
<1> QED BY <1>1, <1>2, <1>3, <1>4, <1>5, StepSteps, SidesAreSides

\* The Graceful_finisher of s.
LEMMA FinisherWays ==
  ASSUME TypeOK, Step, NEW s \in Sides
  PROVE  \/ finisher'[s] = finisher[s] \/ Common(OnFin(s))
         \/ s = Cli /\ (Client(CompleteOk) \/ Client(CliErrPeer))
         \/ s = Srv /\ (Server(InitHandlersOk) \/ Server(SrvErrPeer))
<1>1. CliSteps =>
      \/ UNCHANGED finisher \/ Client(CompleteOk) \/ Client(CliErrPeer)
  BY DEF CliSteps, Client, ConnectRefused, ConnectFails, LogInRspBad, LogInRspOk,
     LogInRspAwaitInit, InitOpenMore, InitOpenTooLate, InitOpenLast, OnDoneOk,
     OnDoneToConnecting, OnDoneToNull, CompleteBad, CompleteTooLate, CliErrStale,
     CliErrConnecting, CliToken, SubclassPosts, CallConnect, CliCallOpen, ConnectBreaks,
     CallOpen, Call, Common, EmplaceFinisher, endVars
<1>2. SrvSteps =>
      \/ UNCHANGED finisher \/ Server(InitHandlersOk) \/ Server(SrvErrPeer)
  BY DEF SrvSteps, Server, AcceptFails, AcceptStarts, LogInReqRefused, LogInRspUnsent,
     LogInReqOk, LogInReqAwaitAck, LogInReqInitFails, InitAcked, InitBroken, InitHandlersAgain,
     InitHandlersErr, EmitPreInitErr, SrvErrStale, SrvErrLogIn, SrvErrAlmostPeer, SrvToken,
     SrvMdt, SrvCallOpen, SrvOpenEmpty, Asks, SrvCallMdt, SrvCallInitHandlers, CallOpen, Call,
     Common, EmplaceFinisher, endVars
<1>3. ASSUME NEW r \in Sides, SideSteps(r)
      PROVE  \/ UNCHANGED finisher \/ Common(OnFin(r))
  BY <1>3 DEF SideSteps, Common, Open, OnOpenReq, OnPassiveOpen, Starts, DtorBegin, DtorGreet,
     DtorFin, DtorGoOn, DtorFlush, Stops, DeliverLogIn, DeliverOpenReq, DeliverFin,
     DropLateRsp, DetectError, OpenAnswered, OpenBroken, OpenTimeout, DtorStart, DtorStop,
     SrvDtorStop, Server, EmplaceFinisher, endVars
<1>4. Cli # s /\ (Client(CompleteOk) \/ Client(CliErrPeer)) => finisher'[s] = finisher[s]
  BY DEF Client, CompleteOk, CliErrPeer, EmplaceFinisher, TypeOK, BaseTypeOK, ChanTypeOK,
     ThreadTypeOK, PeerTypeOK, EndTypeOK
<1>5. Srv # s /\ (Server(InitHandlersOk) \/ Server(SrvErrPeer)) => finisher'[s] = finisher[s]
  BY DEF Server, InitHandlersOk, SrvErrPeer, EmplaceFinisher, TypeOK, BaseTypeOK, ChanTypeOK,
     ThreadTypeOK, PeerTypeOK, EndTypeOK
<1>6. ASSUME NEW r \in Sides, r # s,
             \/ Common(OnFin(r))
      PROVE  finisher'[s] = finisher[s]
  BY <1>6 DEF Common, OnFin, EmplaceFinisher, TypeOK, BaseTypeOK, ChanTypeOK, ThreadTypeOK,
     PeerTypeOK, EndTypeOK
<1>7. Common(LinkFail) \/ UNCHANGED vars => UNCHANGED finisher
  BY DEF Common, LinkFail, vars, baseVars, endVars
<1> QED BY <1>1, <1>2, <1>3, <1>4, <1>5, <1>6, <1>7, StepSteps, SidesAreSides

\* What W of s has called.
LEMMA InsideWays ==
  ASSUME TypeOK, Step, NEW s \in Sides
  PROVE  \/ inside'[s] = inside[s] \/ Common(Open(s)) \/ Common(OnOpenReq(s))
         \/ Common(OnPassiveOpen(s)) \/ Common(OpenAnswered(s)) \/ Common(OpenTimeout(s))
         \/ Common(OpenBroken(s))
         \/ s = Cli /\ \/ Client(LogInRspOk) \/ Client(InitOpenLast) \/ Client(OnDoneOk)
                       \/ Client(OnDoneToConnecting) \/ Client(OnDoneToNull)
         \/ s = Srv /\ (Server(LogInReqAwaitAck) \/ Server(InitAcked) \/ Server(InitBroken))
<1>1. CliSteps =>
      \/ UNCHANGED inside \/ Client(LogInRspOk) \/ Client(InitOpenLast) \/ Client(OnDoneOk)
      \/ Client(OnDoneToConnecting) \/ Client(OnDoneToNull)
  BY DEF CliSteps, Client, ConnectRefused, ConnectFails, LogInRspBad, LogInRspAwaitInit,
     InitOpenMore, InitOpenTooLate, CompleteOk, CompleteBad, CompleteTooLate, CliErrStale,
     CliErrConnecting, CliErrPeer, CliToken, SubclassPosts, CallConnect, CliCallOpen,
     ConnectBreaks, CallOpen, Call, Common, Connected, OnDoneReturns, threadVars
<1>2. SrvSteps =>
      \/ UNCHANGED inside \/ Server(LogInReqAwaitAck) \/ Server(InitAcked)
      \/ Server(InitBroken)
  BY DEF SrvSteps, Server, AcceptFails, AcceptStarts, LogInReqRefused, LogInRspUnsent,
     LogInReqOk, LogInReqInitFails, InitHandlersAgain, InitHandlersErr, InitHandlersOk,
     EmitPreInitErr, SrvErrStale, SrvErrLogIn, SrvErrAlmostPeer, SrvErrPeer, SrvToken, SrvMdt,
     SrvCallOpen, SrvOpenEmpty, Asks, SrvCallMdt, SrvCallInitHandlers, CallOpen, Call, Common,
     Connected, OnDoneReturns, threadVars
<1>3. ASSUME NEW r \in Sides, SideSteps(r)
      PROVE  \/ UNCHANGED inside \/ Common(Open(r)) \/ Common(OnOpenReq(r))
             \/ Common(OnPassiveOpen(r)) \/ Common(OpenAnswered(r)) \/ Common(OpenTimeout(r))
             \/ Common(OpenBroken(r))
  BY <1>3 DEF SideSteps, Common, OnFin, Starts, DtorBegin, DtorGreet, DtorFin, DtorGoOn,
     DtorFlush, Stops, DeliverLogIn, DeliverOpenReq, DeliverFin, DropLateRsp, DetectError,
     DtorStart, DtorStop, SrvDtorStop, Server, Connected, OnDoneReturns, threadVars
<1>4. ASSUME Cli # s,
             \/ Client(LogInRspOk) \/ Client(InitOpenLast) \/ Client(OnDoneOk)
             \/ Client(OnDoneToConnecting) \/ Client(OnDoneToNull)
      PROVE  inside'[s] = inside[s]
  BY <1>4 DEF Client, LogInRspOk, InitOpenLast, OnDoneOk, OnDoneToConnecting, OnDoneToNull,
     Connected, OnDoneReturns, TypeOK, BaseTypeOK, ChanTypeOK, ThreadTypeOK, PeerTypeOK,
     EndTypeOK
<1>5. ASSUME Srv # s,
             \/ Server(LogInReqAwaitAck) \/ Server(InitAcked) \/ Server(InitBroken)
      PROVE  inside'[s] = inside[s]
  BY <1>5 DEF Server, LogInReqAwaitAck, InitAcked, InitBroken, Connected, OnDoneReturns,
     TypeOK, BaseTypeOK, ChanTypeOK, ThreadTypeOK, PeerTypeOK, EndTypeOK
<1>6. ASSUME NEW r \in Sides, r # s,
             \/ Common(Open(r)) \/ Common(OnOpenReq(r)) \/ Common(OnPassiveOpen(r))
             \/ Common(OpenAnswered(r)) \/ Common(OpenTimeout(r)) \/ Common(OpenBroken(r))
      PROVE  inside'[s] = inside[s]
  BY <1>6 DEF Common, Open, OnOpenReq, OnPassiveOpen, OpenAnswered, OpenTimeout, OpenBroken,
     Connected, OnDoneReturns, TypeOK, BaseTypeOK, ChanTypeOK, ThreadTypeOK, PeerTypeOK,
     EndTypeOK
<1>7. Common(LinkFail) \/ UNCHANGED vars => UNCHANGED inside
  BY DEF Common, LinkFail, vars, baseVars, threadVars
<1> QED BY <1>1, <1>2, <1>3, <1>4, <1>5, <1>6, <1>7, StepSteps, SidesAreSides

\* The master channel of s.
LEMMA ChanWays ==
  ASSUME TypeOK, Step, NEW s \in Sides
  PROVE  \/ chan'[s] = chan[s] \/ Stops(s)
         \/ s = Cli /\ \/ Client(LogInRspBad) \/ Client(OnDoneToNull) \/ Client(CompleteBad)
                       \/ Client(CliErrConnecting)
         \/ s = Srv /\ \/ Server(AcceptFails) \/ Server(AcceptStarts)
                       \/ Server(LogInReqRefused) \/ Server(LogInRspUnsent)
                       \/ Server(LogInReqInitFails) \/ Server(InitBroken)
                       \/ Server(SrvErrLogIn)
<1>1. CliSteps =>
      \/ UNCHANGED chan \/ Client(LogInRspBad) \/ Client(OnDoneToNull) \/ Client(CompleteBad)
      \/ Client(CliErrConnecting)
  BY DEF CliSteps, Client, ConnectRefused, ConnectFails, LogInRspOk, LogInRspAwaitInit,
     InitOpenMore, InitOpenTooLate, InitOpenLast, OnDoneOk, OnDoneToConnecting, CompleteOk,
     CompleteTooLate, CliErrStale, CliErrPeer, CliToken, SubclassPosts, CallConnect,
     CliCallOpen, ConnectBreaks, CallOpen, Call, Common, DropChannel, LogInFails, chanVars
<1>2. SrvSteps =>
      \/ UNCHANGED chan \/ Server(AcceptFails) \/ Server(AcceptStarts)
      \/ Server(LogInReqRefused) \/ Server(LogInRspUnsent) \/ Server(LogInReqInitFails)
      \/ Server(InitBroken) \/ Server(SrvErrLogIn)
  BY DEF SrvSteps, Server, LogInReqOk, LogInReqAwaitAck, InitAcked, InitHandlersAgain,
     InitHandlersErr, InitHandlersOk, EmitPreInitErr, SrvErrStale, SrvErrAlmostPeer,
     SrvErrPeer, SrvToken, SrvMdt, SrvCallOpen, SrvOpenEmpty, Asks, SrvCallMdt,
     SrvCallInitHandlers, CallOpen, Call, Common, DropChannel, LogInFails, chanVars
<1>3. ASSUME NEW r \in Sides, SideSteps(r)
      PROVE  \/ UNCHANGED chan \/ Stops(r)
  BY <1>3 DEF SideSteps, Common, Open, OnOpenReq, OnPassiveOpen, OnFin, Starts, DtorBegin,
     DtorGreet, DtorFin, DtorGoOn, DtorFlush, DeliverLogIn, DeliverOpenReq, DeliverFin,
     DropLateRsp, DetectError, OpenAnswered, OpenBroken, OpenTimeout, DtorStart, DropChannel,
     LogInFails, chanVars
<1>4. ASSUME Cli # s,
             \/ Client(LogInRspBad) \/ Client(OnDoneToNull) \/ Client(CompleteBad)
             \/ Client(CliErrConnecting)
      PROVE  chan'[s] = chan[s]
  BY <1>4 DEF Client, LogInRspBad, OnDoneToNull, CompleteBad, CliErrConnecting, DropChannel,
     LogInFails, ConnectBreaks, TypeOK, BaseTypeOK, ChanTypeOK, ThreadTypeOK, PeerTypeOK,
     EndTypeOK
<1>5. ASSUME Srv # s,
             \/ Server(AcceptFails) \/ Server(AcceptStarts) \/ Server(LogInReqRefused)
             \/ Server(LogInRspUnsent) \/ Server(LogInReqInitFails) \/ Server(InitBroken)
             \/ Server(SrvErrLogIn)
      PROVE  chan'[s] = chan[s]
  BY <1>5 DEF Server, AcceptFails, AcceptStarts, LogInReqRefused, LogInRspUnsent,
     LogInReqInitFails, InitBroken, SrvErrLogIn, DropChannel, LogInFails, TypeOK, BaseTypeOK,
     ChanTypeOK, ThreadTypeOK, PeerTypeOK, EndTypeOK
<1>6. ASSUME NEW r \in Sides, r # s,
             \/ Stops(r)
      PROVE  chan'[s] = chan[s]
  BY <1>6 DEF Common, Stops, DtorStop, SrvDtorStop, Server, DropChannel, LogInFails, TypeOK,
     BaseTypeOK, ChanTypeOK, ThreadTypeOK, PeerTypeOK, EndTypeOK
<1>7. Common(LinkFail) \/ UNCHANGED vars => UNCHANGED chan
  BY DEF Common, LinkFail, vars, baseVars, chanVars
<1> QED BY <1>1, <1>2, <1>3, <1>4, <1>5, <1>6, <1>7, StepSteps, SidesAreSides

\* The error of the channel of s.
LEMMA ChErrWays ==
  ASSUME TypeOK, Step, NEW s \in Sides
  PROVE  \/ chErr'[s] = chErr[s] \/ Common(Open(s)) \/ Common(OnOpenReq(s))
         \/ Common(DtorFin(s)) \/ Common(DetectError(s)) \/ Common(OpenBroken(s))
         \/ s = Cli /\ Client(InitOpenLast)
         \/ s = Srv /\ (Server(LogInRspUnsent) \/ Server(LogInReqInitFails) \/ Server(InitBroken))
<1>1. CliSteps =>
      \/ UNCHANGED chErr \/ Client(InitOpenLast)
  BY DEF CliSteps, Client, ConnectRefused, ConnectFails, LogInRspBad, LogInRspOk,
     LogInRspAwaitInit, InitOpenMore, InitOpenTooLate, OnDoneOk, OnDoneToConnecting,
     OnDoneToNull, CompleteOk, CompleteBad, CompleteTooLate, CliErrStale, CliErrConnecting,
     CliErrPeer, CliToken, SubclassPosts, CallConnect, CliCallOpen, ConnectBreaks, CallOpen,
     Call, Common, Send, chanVars
<1>2. SrvSteps =>
      \/ UNCHANGED chErr \/ Server(LogInRspUnsent) \/ Server(LogInReqInitFails)
      \/ Server(InitBroken)
  BY DEF SrvSteps, Server, AcceptFails, AcceptStarts, LogInReqRefused, LogInReqOk,
     LogInReqAwaitAck, InitAcked, InitHandlersAgain, InitHandlersErr, InitHandlersOk,
     EmitPreInitErr, SrvErrStale, SrvErrLogIn, SrvErrAlmostPeer, SrvErrPeer, SrvToken, SrvMdt,
     SrvCallOpen, SrvOpenEmpty, Asks, SrvCallMdt, SrvCallInitHandlers, CallOpen, Call, Common,
     Send, chanVars
<1>3. ASSUME NEW r \in Sides, SideSteps(r)
      PROVE  \/ UNCHANGED chErr \/ Common(Open(r)) \/ Common(OnOpenReq(r))
             \/ Common(DtorFin(r)) \/ Common(DetectError(r)) \/ Common(OpenBroken(r))
  BY <1>3 DEF SideSteps, Common, OnPassiveOpen, OnFin, Starts, DtorBegin, DtorGreet, DtorGoOn,
     DtorFlush, Stops, DeliverLogIn, DeliverOpenReq, DeliverFin, DropLateRsp, OpenAnswered,
     OpenTimeout, DtorStart, DtorStop, SrvDtorStop, Server, Send, chanVars
<1>4. Cli # s /\ Client(InitOpenLast) => chErr'[s] = chErr[s]
  BY DEF Client, InitOpenLast, Send, TypeOK, BaseTypeOK, ChanTypeOK, ThreadTypeOK, PeerTypeOK,
     EndTypeOK
<1>5. ASSUME Srv # s,
             \/ Server(LogInRspUnsent) \/ Server(LogInReqInitFails) \/ Server(InitBroken)
      PROVE  chErr'[s] = chErr[s]
  BY <1>5 DEF Server, LogInRspUnsent, LogInReqInitFails, InitBroken, Send, TypeOK, BaseTypeOK,
     ChanTypeOK, ThreadTypeOK, PeerTypeOK, EndTypeOK
<1>6. ASSUME NEW r \in Sides, r # s,
             \/ Common(Open(r)) \/ Common(OnOpenReq(r)) \/ Common(DtorFin(r))
             \/ Common(DetectError(r)) \/ Common(OpenBroken(r))
      PROVE  chErr'[s] = chErr[s]
  BY <1>6 DEF Common, Open, OnOpenReq, DtorFin, DetectError, OpenBroken, Send, TypeOK,
     BaseTypeOK, ChanTypeOK, ThreadTypeOK, PeerTypeOK, EndTypeOK
<1>7. Common(LinkFail) \/ UNCHANGED vars => UNCHANGED chErr
  BY DEF Common, LinkFail, vars, baseVars, chanVars
<1> QED BY <1>1, <1>2, <1>3, <1>4, <1>5, <1>6, <1>7, StepSteps, SidesAreSides

\* A farewell that was kept.
LEMMA CacheFinWays ==
  ASSUME TypeOK, Step, NEW s \in Sides
  PROVE  \/ cacheFin'[s] = cacheFin[s] \/ Common(DeliverFin(s))
         \/ s = Cli /\ Client(CompleteOk)
         \/ s = Srv /\ Server(InitHandlersOk)
<1>1. CliSteps =>
      \/ UNCHANGED cacheFin \/ Client(CompleteOk)
  BY DEF CliSteps, Client, ConnectRefused, ConnectFails, LogInRspBad, LogInRspOk,
     LogInRspAwaitInit, InitOpenMore, InitOpenTooLate, InitOpenLast, OnDoneOk,
     OnDoneToConnecting, OnDoneToNull, CompleteBad, CompleteTooLate, CliErrStale,
     CliErrConnecting, CliErrPeer, CliToken, SubclassPosts, CallConnect, CliCallOpen,
     ConnectBreaks, CallOpen, Call, Common, EmplaceFinisher, chanVars
<1>2. SrvSteps =>
      \/ UNCHANGED cacheFin \/ Server(InitHandlersOk)
  BY DEF SrvSteps, Server, AcceptFails, AcceptStarts, LogInReqRefused, LogInRspUnsent,
     LogInReqOk, LogInReqAwaitAck, LogInReqInitFails, InitAcked, InitBroken, InitHandlersAgain,
     InitHandlersErr, EmitPreInitErr, SrvErrStale, SrvErrLogIn, SrvErrAlmostPeer, SrvErrPeer,
     SrvToken, SrvMdt, SrvCallOpen, SrvOpenEmpty, Asks, SrvCallMdt, SrvCallInitHandlers,
     CallOpen, Call, Common, EmplaceFinisher, chanVars
<1>3. ASSUME NEW r \in Sides, SideSteps(r)
      PROVE  \/ UNCHANGED cacheFin \/ Common(DeliverFin(r))
  BY <1>3 DEF SideSteps, Common, Open, OnOpenReq, OnPassiveOpen, OnFin, Starts, DtorBegin,
     DtorGreet, DtorFin, DtorGoOn, DtorFlush, Stops, DeliverLogIn, DeliverOpenReq, DropLateRsp,
     DetectError, OpenAnswered, OpenBroken, OpenTimeout, DtorStart, DtorStop, SrvDtorStop,
     Server, EmplaceFinisher, chanVars
<1>4. Cli # s /\ Client(CompleteOk) => cacheFin'[s] = cacheFin[s]
  BY DEF Client, CompleteOk, EmplaceFinisher, TypeOK, BaseTypeOK, ChanTypeOK, ThreadTypeOK,
     PeerTypeOK, EndTypeOK
<1>5. Srv # s /\ Server(InitHandlersOk) => cacheFin'[s] = cacheFin[s]
  BY DEF Server, InitHandlersOk, EmplaceFinisher, TypeOK, BaseTypeOK, ChanTypeOK, ThreadTypeOK,
     PeerTypeOK, EndTypeOK
<1>6. ASSUME NEW r \in Sides, r # s,
             \/ Common(DeliverFin(r))
      PROVE  cacheFin'[s] = cacheFin[s]
  BY <1>6 DEF Common, DeliverFin, EmplaceFinisher, TypeOK, BaseTypeOK, ChanTypeOK,
     ThreadTypeOK, PeerTypeOK, EndTypeOK
<1>7. Common(LinkFail) \/ UNCHANGED vars => UNCHANGED cacheFin
  BY DEF Common, LinkFail, vars, baseVars, chanVars
<1> QED BY <1>1, <1>2, <1>3, <1>4, <1>5, <1>6, <1>7, StepSteps, SidesAreSides

\* The requests that are expected.
LEMMA ExpectsWays ==
  ASSUME TypeOK, Step, NEW s \in Sides
  PROVE  \/ expects'[s] = expects[s]
         \/ s = Cli /\ (Client(LogInRspOk) \/ Client(LogInRspAwaitInit) \/ Client(InitOpenLast))
         \/ s = Srv /\ Server(InitHandlersOk)
<1>1. CliSteps =>
      \/ UNCHANGED expects \/ Client(LogInRspOk) \/ Client(LogInRspAwaitInit)
      \/ Client(InitOpenLast)
  BY DEF CliSteps, Client, ConnectRefused, ConnectFails, LogInRspBad, InitOpenMore,
     InitOpenTooLate, OnDoneOk, OnDoneToConnecting, OnDoneToNull, CompleteOk, CompleteBad,
     CompleteTooLate, CliErrStale, CliErrConnecting, CliErrPeer, CliToken, SubclassPosts,
     CallConnect, CliCallOpen, ConnectBreaks, CallOpen, Call, Common, ExpectOpenReqs, chanVars
<1>2. SrvSteps =>
      \/ UNCHANGED expects \/ Server(InitHandlersOk)
  BY DEF SrvSteps, Server, AcceptFails, AcceptStarts, LogInReqRefused, LogInRspUnsent,
     LogInReqOk, LogInReqAwaitAck, LogInReqInitFails, InitAcked, InitBroken, InitHandlersAgain,
     InitHandlersErr, EmitPreInitErr, SrvErrStale, SrvErrLogIn, SrvErrAlmostPeer, SrvErrPeer,
     SrvToken, SrvMdt, SrvCallOpen, SrvOpenEmpty, Asks, SrvCallMdt, SrvCallInitHandlers,
     CallOpen, Call, Common, ExpectOpenReqs, chanVars
<1>3. ASSUME NEW r \in Sides, SideSteps(r)
      PROVE  \/ UNCHANGED expects
  BY <1>3 DEF SideSteps, Common, Open, OnOpenReq, OnPassiveOpen, OnFin, Starts, DtorBegin,
     DtorGreet, DtorFin, DtorGoOn, DtorFlush, Stops, DeliverLogIn, DeliverOpenReq, DeliverFin,
     DropLateRsp, DetectError, OpenAnswered, OpenBroken, OpenTimeout, DtorStart, DtorStop,
     SrvDtorStop, Server, ExpectOpenReqs, chanVars
<1>4. ASSUME Cli # s,
             \/ Client(LogInRspOk) \/ Client(LogInRspAwaitInit) \/ Client(InitOpenLast)
      PROVE  expects'[s] = expects[s]
  BY <1>4 DEF Client, LogInRspOk, LogInRspAwaitInit, InitOpenLast, ExpectOpenReqs, TypeOK,
     BaseTypeOK, ChanTypeOK, ThreadTypeOK, PeerTypeOK, EndTypeOK
<1>5. Srv # s /\ Server(InitHandlersOk) => expects'[s] = expects[s]
  BY DEF Server, InitHandlersOk, ExpectOpenReqs, TypeOK, BaseTypeOK, ChanTypeOK, ThreadTypeOK,
     PeerTypeOK, EndTypeOK
<1>6. Common(LinkFail) \/ UNCHANGED vars => UNCHANGED expects
  BY DEF Common, LinkFail, vars, baseVars, chanVars
<1> QED BY <1>1, <1>2, <1>3, <1>4, <1>5, <1>6, StepSteps, SidesAreSides

\* The error of the session.
LEMMA HosedWays ==
  ASSUME TypeOK, Step, NEW s \in Sides
  PROVE  \/ hosed'[s] = hosed[s] \/ Common(Open(s)) \/ Common(OnOpenReq(s))
         \/ Common(OnFin(s)) \/ Common(OpenBroken(s))
         \/ s = Cli /\ Client(CliErrPeer)
         \/ s = Srv /\ (Server(EmitPreInitErr) \/ Server(SrvErrPeer))
<1>1. CliSteps =>
      \/ UNCHANGED hosed \/ Client(CliErrPeer)
  BY DEF CliSteps, Client, ConnectRefused, ConnectFails, LogInRspBad, LogInRspOk,
     LogInRspAwaitInit, InitOpenMore, InitOpenTooLate, InitOpenLast, OnDoneOk,
     OnDoneToConnecting, OnDoneToNull, CompleteOk, CompleteBad, CompleteTooLate, CliErrStale,
     CliErrConnecting, CliToken, SubclassPosts, CallConnect, CliCallOpen, ConnectBreaks,
     CallOpen, Call, Common, HoseUnlessHosed, Hose, peerVars
<1>2. SrvSteps =>
      \/ UNCHANGED hosed \/ Server(EmitPreInitErr) \/ Server(SrvErrPeer)
  BY DEF SrvSteps, Server, AcceptFails, AcceptStarts, LogInReqRefused, LogInRspUnsent,
     LogInReqOk, LogInReqAwaitAck, LogInReqInitFails, InitAcked, InitBroken, InitHandlersAgain,
     InitHandlersErr, InitHandlersOk, SrvErrStale, SrvErrLogIn, SrvErrAlmostPeer, SrvToken,
     SrvMdt, SrvCallOpen, SrvOpenEmpty, Asks, SrvCallMdt, SrvCallInitHandlers, CallOpen, Call,
     Common, HoseUnlessHosed, Hose, peerVars
<1>3. ASSUME NEW r \in Sides, SideSteps(r)
      PROVE  \/ UNCHANGED hosed \/ Common(Open(r)) \/ Common(OnOpenReq(r)) \/ Common(OnFin(r))
             \/ Common(OpenBroken(r))
  BY <1>3 DEF SideSteps, Common, OnPassiveOpen, Starts, DtorBegin, DtorGreet, DtorFin,
     DtorGoOn, DtorFlush, Stops, DeliverLogIn, DeliverOpenReq, DeliverFin, DropLateRsp,
     DetectError, OpenAnswered, OpenTimeout, DtorStart, DtorStop, SrvDtorStop, Server,
     HoseUnlessHosed, Hose, peerVars
<1>4. Cli # s /\ Client(CliErrPeer) => hosed'[s] = hosed[s]
  BY DEF Client, CliErrPeer, HoseUnlessHosed, Hose, TypeOK, BaseTypeOK, ChanTypeOK,
     ThreadTypeOK, PeerTypeOK, EndTypeOK
<1>5. Srv # s /\ (Server(EmitPreInitErr) \/ Server(SrvErrPeer)) => hosed'[s] = hosed[s]
  BY DEF Server, EmitPreInitErr, SrvErrPeer, HoseUnlessHosed, Hose, TypeOK, BaseTypeOK,
     ChanTypeOK, ThreadTypeOK, PeerTypeOK, EndTypeOK
<1>6. ASSUME NEW r \in Sides, r # s,
             \/ Common(Open(r)) \/ Common(OnOpenReq(r)) \/ Common(OnFin(r))
             \/ Common(OpenBroken(r))
      PROVE  hosed'[s] = hosed[s]
  BY <1>6 DEF Common, Open, OnOpenReq, OnFin, OpenBroken, HoseUnlessHosed, Hose, TypeOK,
     BaseTypeOK, ChanTypeOK, ThreadTypeOK, PeerTypeOK, EndTypeOK
<1>7. Common(LinkFail) \/ UNCHANGED vars => UNCHANGED hosed
  BY DEF Common, LinkFail, vars, baseVars, peerVars
<1> QED BY <1>1, <1>2, <1>3, <1>4, <1>5, <1>6, <1>7, StepSteps, SidesAreSides

\* The call of the user.
LEMMA UserWays ==
  ASSUME TypeOK, Step, NEW s \in Sides
  PROVE  \/ user'[s] = user[s] \/ Common(Open(s)) \/ Common(OpenAnswered(s))
         \/ Common(OpenBroken(s)) \/ Common(OpenTimeout(s))
         \/ s = Cli /\ \/ Client(ConnectRefused) \/ Client(ConnectFails)
                       \/ Client(LogInRspBad) \/ Client(InitOpenLast) \/ Client(OnDoneOk)
                       \/ Client(OnDoneToNull) \/ Client(CompleteOk) \/ Client(CompleteBad)
                       \/ Client(CliErrConnecting) \/ Client(CliToken) \/ Client(CallConnect)
                       \/ Client(CliCallOpen) \/ Common(Call(Cli, "Token"))
         \/ s = Srv /\ \/ Server(InitHandlersAgain) \/ Server(InitHandlersErr)
                       \/ Server(InitHandlersOk) \/ Server(SrvToken) \/ Server(SrvMdt)
                       \/ Server(SrvCallOpen) \/ \E t : Asks(t)
<1>1. CliSteps =>
      \/ UNCHANGED user \/ Client(ConnectRefused) \/ Client(ConnectFails)
      \/ Client(LogInRspBad) \/ Client(InitOpenLast) \/ Client(OnDoneOk)
      \/ Client(OnDoneToNull) \/ Client(CompleteOk) \/ Client(CompleteBad)
      \/ Client(CliErrConnecting) \/ Client(CliToken) \/ Client(CallConnect)
      \/ Client(CliCallOpen) \/ Common(Call(Cli, "Token"))
  BY DEF CliSteps, Client, LogInRspOk, LogInRspAwaitInit, InitOpenMore, InitOpenTooLate,
     OnDoneToConnecting, CompleteTooLate, CliErrStale, CliErrPeer, SubclassPosts,
     ConnectBreaks, CallOpen, Answer, ConnectDone, ConnectPending, Connected, threadVars
<1>2. SrvSteps =>
      \/ UNCHANGED user \/ Server(InitHandlersAgain) \/ Server(InitHandlersErr)
      \/ Server(InitHandlersOk) \/ Server(SrvToken) \/ Server(SrvMdt) \/ Server(SrvCallOpen)
      \/ \E t : Asks(t)
  BY DEF SrvSteps, Server, AcceptFails, AcceptStarts, LogInReqRefused, LogInRspUnsent,
     LogInReqOk, LogInReqAwaitAck, LogInReqInitFails, InitAcked, InitBroken, EmitPreInitErr,
     SrvErrStale, SrvErrLogIn, SrvErrAlmostPeer, SrvErrPeer, SrvOpenEmpty, CallOpen, Call,
     Common, Answer, ConnectDone, ConnectPending, Connected, threadVars
<1>3. ASSUME NEW r \in Sides, SideSteps(r)
      PROVE  \/ UNCHANGED user \/ Common(Open(r)) \/ Common(OpenAnswered(r))
             \/ Common(OpenBroken(r)) \/ Common(OpenTimeout(r))
  BY <1>3 DEF SideSteps, Common, OnOpenReq, OnPassiveOpen, OnFin, Starts, DtorBegin, DtorGreet,
     DtorFin, DtorGoOn, DtorFlush, Stops, DeliverLogIn, DeliverOpenReq, DeliverFin,
     DropLateRsp, DetectError, DtorStart, DtorStop, SrvDtorStop, Server, Answer, ConnectDone,
     ConnectPending, Connected, threadVars
<1>4. ASSUME Cli # s,
             \/ Client(ConnectRefused) \/ Client(ConnectFails) \/ Client(LogInRspBad)
             \/ Client(InitOpenLast) \/ Client(OnDoneOk) \/ Client(OnDoneToNull)
             \/ Client(CompleteOk) \/ Client(CompleteBad) \/ Client(CliErrConnecting)
             \/ Client(CliToken) \/ Client(CallConnect) \/ Client(CliCallOpen)
             \/ Common(Call(Cli, "Token"))
      PROVE  user'[s] = user[s]
  BY <1>4 DEF Client, ConnectRefused, ConnectFails, LogInRspBad, InitOpenLast, OnDoneOk,
     OnDoneToNull, CompleteOk, CompleteBad, CliErrConnecting, CliToken, CallConnect,
     CliCallOpen, Answer, ConnectDone, ConnectPending, Connected, Common, CallOpen, Call,
     ConnectBreaks, TypeOK, BaseTypeOK, ChanTypeOK, ThreadTypeOK, PeerTypeOK, EndTypeOK
<1>5. ASSUME Srv # s,
             \/ Server(InitHandlersAgain) \/ Server(InitHandlersErr) \/ Server(InitHandlersOk)
             \/ Server(SrvToken) \/ Server(SrvMdt) \/ Server(SrvCallOpen) \/ \E t : Asks(t)
      PROVE  user'[s] = user[s]
  BY <1>5 DEF Server, InitHandlersAgain, InitHandlersErr, InitHandlersOk, SrvToken, SrvMdt,
     SrvCallOpen, Asks, Answer, ConnectDone, ConnectPending, Connected, SrvCallMdt,
     SrvCallInitHandlers, Call, Common, CallOpen, TypeOK, BaseTypeOK, ChanTypeOK, ThreadTypeOK,
     PeerTypeOK, EndTypeOK
<1>6. ASSUME NEW r \in Sides, r # s,
             \/ Common(Open(r)) \/ Common(OpenAnswered(r)) \/ Common(OpenBroken(r))
             \/ Common(OpenTimeout(r))
      PROVE  user'[s] = user[s]
  BY <1>6 DEF Common, Open, OpenAnswered, OpenBroken, OpenTimeout, Answer, ConnectDone,
     ConnectPending, Connected, TypeOK, BaseTypeOK, ChanTypeOK, ThreadTypeOK, PeerTypeOK,
     EndTypeOK
<1>7. Common(LinkFail) \/ UNCHANGED vars => UNCHANGED user
  BY DEF Common, LinkFail, vars, baseVars, threadVars
<1> QED BY <1>1, <1>2, <1>3, <1>4, <1>5, <1>6, <1>7, StepSteps, SidesAreSides

\* m_state of the client.
LEMMA StateWays ==
  ASSUME TypeOK, Step
  PROVE  \/ cstate' = cstate
         \/ Client(LogInRspBad) \/ Client(InitOpenLast) \/ Client(OnDoneOk)
         \/ Client(OnDoneToNull) \/ Client(CompleteOk) \/ Client(CompleteBad)
         \/ Client(CliErrConnecting)
<1>1. CliSteps =>
      \/ UNCHANGED cstate \/ Client(LogInRspBad) \/ Client(InitOpenLast) \/ Client(OnDoneOk)
      \/ Client(OnDoneToNull) \/ Client(CompleteOk) \/ Client(CompleteBad)
      \/ Client(CliErrConnecting)
  BY DEF CliSteps, Client, ConnectRefused, ConnectFails, LogInRspOk, LogInRspAwaitInit,
     InitOpenMore, InitOpenTooLate, OnDoneToConnecting, CompleteTooLate, CliErrStale,
     CliErrPeer, CliToken, SubclassPosts, CallConnect, CliCallOpen, ConnectBreaks, CallOpen,
     Call, Common, Connected, cliVars
<1>2. SrvSteps =>
      \/ UNCHANGED cstate
  BY DEF SrvSteps, Server, AcceptFails, AcceptStarts, LogInReqRefused, LogInRspUnsent,
     LogInReqOk, LogInReqAwaitAck, LogInReqInitFails, InitAcked, InitBroken, InitHandlersAgain,
     InitHandlersErr, InitHandlersOk, EmitPreInitErr, SrvErrStale, SrvErrLogIn,
     SrvErrAlmostPeer, SrvErrPeer, SrvToken, SrvMdt, SrvCallOpen, SrvOpenEmpty, Asks,
     SrvCallMdt, SrvCallInitHandlers, CallOpen, Call, Common, Connected, cliVars
<1>3. ASSUME NEW r \in Sides, SideSteps(r)
      PROVE  \/ UNCHANGED cstate
  BY <1>3 DEF SideSteps, Common, Open, OnOpenReq, OnPassiveOpen, OnFin, Starts, DtorBegin,
     DtorGreet, DtorFin, DtorGoOn, DtorFlush, Stops, DeliverLogIn, DeliverOpenReq, DeliverFin,
     DropLateRsp, DetectError, OpenAnswered, OpenBroken, OpenTimeout, DtorStart, DtorStop,
     SrvDtorStop, Server, Connected, cliVars
<1>4. Common(LinkFail) \/ UNCHANGED vars => UNCHANGED cstate
  BY DEF Common, LinkFail, vars, baseVars, cliVars
<1> QED BY <1>1, <1>2, <1>3, <1>4, StepSteps

\* The outcome of the log-in.
LEMMA LoginWays ==
  ASSUME TypeOK, Step
  PROVE  \/ login' = login
         \/ \E s \in Sides : Stops(s)
         \/ Server(AcceptFails) \/ Server(LogInReqRefused) \/ Server(LogInRspUnsent)
         \/ Server(LogInReqOk) \/ Server(LogInReqInitFails) \/ Server(InitAcked)
         \/ Server(InitBroken) \/ Server(SrvErrLogIn)
<1>1. CliSteps =>
      \/ UNCHANGED login
  BY DEF CliSteps, Client, ConnectRefused, ConnectFails, LogInRspBad, LogInRspOk,
     LogInRspAwaitInit, InitOpenMore, InitOpenTooLate, InitOpenLast, OnDoneOk,
     OnDoneToConnecting, OnDoneToNull, CompleteOk, CompleteBad, CompleteTooLate, CliErrStale,
     CliErrConnecting, CliErrPeer, CliToken, SubclassPosts, CallConnect, CliCallOpen,
     ConnectBreaks, CallOpen, Call, Common, LogInFails, srvVars
<1>2. SrvSteps =>
      \/ UNCHANGED login \/ Server(AcceptFails) \/ Server(LogInReqRefused)
      \/ Server(LogInRspUnsent) \/ Server(LogInReqOk) \/ Server(LogInReqInitFails)
      \/ Server(InitAcked) \/ Server(InitBroken) \/ Server(SrvErrLogIn)
  BY DEF SrvSteps, Server, AcceptStarts, LogInReqAwaitAck, InitHandlersAgain, InitHandlersErr,
     InitHandlersOk, EmitPreInitErr, SrvErrStale, SrvErrAlmostPeer, SrvErrPeer, SrvToken,
     SrvMdt, SrvCallOpen, SrvOpenEmpty, Asks, SrvCallMdt, SrvCallInitHandlers, CallOpen, Call,
     Common, LogInFails, srvVars
<1>3. ASSUME NEW r \in Sides, SideSteps(r)
      PROVE  \/ UNCHANGED login \/ Stops(r)
  BY <1>3 DEF SideSteps, Common, Open, OnOpenReq, OnPassiveOpen, OnFin, Starts, DtorBegin,
     DtorGreet, DtorFin, DtorGoOn, DtorFlush, DeliverLogIn, DeliverOpenReq, DeliverFin,
     DropLateRsp, DetectError, OpenAnswered, OpenBroken, OpenTimeout, DtorStart, LogInFails,
     srvVars
<1>4. Common(LinkFail) \/ UNCHANGED vars => UNCHANGED login
  BY DEF Common, LinkFail, vars, baseVars, srvVars
<1> QED BY <1>1, <1>2, <1>3, <1>4, StepSteps

\* The server's handlers.
LEMMA HandlersWays ==
  ASSUME TypeOK, Step
  PROVE  \/ handlers' = handlers
         \/ Server(InitHandlersErr) \/ Server(InitHandlersOk)
<1>1. CliSteps =>
      \/ UNCHANGED handlers
  BY DEF CliSteps, Client, ConnectRefused, ConnectFails, LogInRspBad, LogInRspOk,
     LogInRspAwaitInit, InitOpenMore, InitOpenTooLate, InitOpenLast, OnDoneOk,
     OnDoneToConnecting, OnDoneToNull, CompleteOk, CompleteBad, CompleteTooLate, CliErrStale,
     CliErrConnecting, CliErrPeer, CliToken, SubclassPosts, CallConnect, CliCallOpen,
     ConnectBreaks, CallOpen, Call, Common, srvVars
<1>2. SrvSteps =>
      \/ UNCHANGED handlers \/ Server(InitHandlersErr) \/ Server(InitHandlersOk)
  BY DEF SrvSteps, Server, AcceptFails, AcceptStarts, LogInReqRefused, LogInRspUnsent,
     LogInReqOk, LogInReqAwaitAck, LogInReqInitFails, InitAcked, InitBroken, InitHandlersAgain,
     EmitPreInitErr, SrvErrStale, SrvErrLogIn, SrvErrAlmostPeer, SrvErrPeer, SrvToken, SrvMdt,
     SrvCallOpen, SrvOpenEmpty, Asks, SrvCallMdt, SrvCallInitHandlers, CallOpen, Call, Common,
     srvVars
<1>3. ASSUME NEW r \in Sides, SideSteps(r)
      PROVE  \/ UNCHANGED handlers
  BY <1>3 DEF SideSteps, Common, Open, OnOpenReq, OnPassiveOpen, OnFin, Starts, DtorBegin,
     DtorGreet, DtorFin, DtorGoOn, DtorFlush, Stops, DeliverLogIn, DeliverOpenReq, DeliverFin,
     DropLateRsp, DetectError, OpenAnswered, OpenBroken, OpenTimeout, DtorStart, DtorStop,
     SrvDtorStop, Server, srvVars
<1>4. Common(LinkFail) \/ UNCHANGED vars => UNCHANGED handlers
  BY DEF Common, LinkFail, vars, baseVars, srvVars
<1> QED BY <1>1, <1>2, <1>3, <1>4, StepSteps

\* An error recorded in almost-PEER state.
LEMMA PreInitErrWays ==
  ASSUME TypeOK, Step
  PROVE  \/ preInitErr' = preInitErr
         \/ Server(SrvErrAlmostPeer)
<1>1. CliSteps =>
      \/ UNCHANGED preInitErr
  BY DEF CliSteps, Client, ConnectRefused, ConnectFails, LogInRspBad, LogInRspOk,
     LogInRspAwaitInit, InitOpenMore, InitOpenTooLate, InitOpenLast, OnDoneOk,
     OnDoneToConnecting, OnDoneToNull, CompleteOk, CompleteBad, CompleteTooLate, CliErrStale,
     CliErrConnecting, CliErrPeer, CliToken, SubclassPosts, CallConnect, CliCallOpen,
     ConnectBreaks, CallOpen, Call, Common, srvVars
<1>2. SrvSteps =>
      \/ UNCHANGED preInitErr \/ Server(SrvErrAlmostPeer)
  BY DEF SrvSteps, Server, AcceptFails, AcceptStarts, LogInReqRefused, LogInRspUnsent,
     LogInReqOk, LogInReqAwaitAck, LogInReqInitFails, InitAcked, InitBroken, InitHandlersAgain,
     InitHandlersErr, InitHandlersOk, EmitPreInitErr, SrvErrStale, SrvErrLogIn, SrvErrPeer,
     SrvToken, SrvMdt, SrvCallOpen, SrvOpenEmpty, Asks, SrvCallMdt, SrvCallInitHandlers,
     CallOpen, Call, Common, srvVars
<1>3. ASSUME NEW r \in Sides, SideSteps(r)
      PROVE  \/ UNCHANGED preInitErr
  BY <1>3 DEF SideSteps, Common, Open, OnOpenReq, OnPassiveOpen, OnFin, Starts, DtorBegin,
     DtorGreet, DtorFin, DtorGoOn, DtorFlush, Stops, DeliverLogIn, DeliverOpenReq, DeliverFin,
     DropLateRsp, DetectError, OpenAnswered, OpenBroken, OpenTimeout, DtorStart, DtorStop,
     SrvDtorStop, Server, srvVars
<1>4. Common(LinkFail) \/ UNCHANGED vars => UNCHANGED preInitErr
  BY DEF Common, LinkFail, vars, baseVars, srvVars
<1> QED BY <1>1, <1>2, <1>3, <1>4, StepSteps

\* The metadata builder of the server's user.
LEMMA MdtWays ==
  ASSUME TypeOK, Step
  PROVE  \/ mdt' = mdt
         \/ Server(SrvMdt) \/ Server(SrvCallOpen) \/ Server(SrvOpenEmpty)
<1>1. CliSteps =>
      \/ UNCHANGED mdt
  BY DEF CliSteps, Client, ConnectRefused, ConnectFails, LogInRspBad, LogInRspOk,
     LogInRspAwaitInit, InitOpenMore, InitOpenTooLate, InitOpenLast, OnDoneOk,
     OnDoneToConnecting, OnDoneToNull, CompleteOk, CompleteBad, CompleteTooLate, CliErrStale,
     CliErrConnecting, CliErrPeer, CliToken, SubclassPosts, CallConnect, CliCallOpen,
     ConnectBreaks, CallOpen, Call, Common, srvVars
<1>2. SrvSteps =>
      \/ UNCHANGED mdt \/ Server(SrvMdt) \/ Server(SrvCallOpen) \/ Server(SrvOpenEmpty)
  BY DEF SrvSteps, Server, AcceptFails, AcceptStarts, LogInReqRefused, LogInRspUnsent,
     LogInReqOk, LogInReqAwaitAck, LogInReqInitFails, InitAcked, InitBroken, InitHandlersAgain,
     InitHandlersErr, InitHandlersOk, EmitPreInitErr, SrvErrStale, SrvErrLogIn,
     SrvErrAlmostPeer, SrvErrPeer, SrvToken, Asks, SrvCallMdt, SrvCallInitHandlers, CallOpen,
     Call, Common, srvVars
<1>3. ASSUME NEW r \in Sides, SideSteps(r)
      PROVE  \/ UNCHANGED mdt
  BY <1>3 DEF SideSteps, Common, Open, OnOpenReq, OnPassiveOpen, OnFin, Starts, DtorBegin,
     DtorGreet, DtorFin, DtorGoOn, DtorFlush, Stops, DeliverLogIn, DeliverOpenReq, DeliverFin,
     DropLateRsp, DetectError, OpenAnswered, OpenBroken, OpenTimeout, DtorStart, DtorStop,
     SrvDtorStop, Server, srvVars
<1>4. Common(LinkFail) \/ UNCHANGED vars => UNCHANGED mdt
  BY DEF Common, LinkFail, vars, baseVars, srvVars
<1> QED BY <1>1, <1>2, <1>3, <1>4, StepSteps

\* The connection stays, and once broken it is broken.
LEMMA ConnWays ==
  ASSUME Step
  PROVE  conn' = conn /\ linkDown' \in {linkDown, TRUE}
<1>1. CliSteps => UNCHANGED <<conn, linkDown>>
  BY DEF CliSteps, Client, ConnectRefused, ConnectFails, LogInRspBad, LogInRspOk,
     LogInRspAwaitInit, InitOpenMore, InitOpenTooLate, InitOpenLast, OnDoneOk,
     OnDoneToConnecting, OnDoneToNull, CompleteOk, CompleteBad, CompleteTooLate, CliErrStale,
     CliErrConnecting, CliErrPeer, CliToken, SubclassPosts, CallConnect, CliCallOpen,
     ConnectBreaks, CallOpen, Call, Common, chanVars
<1>2. SrvSteps => UNCHANGED <<conn, linkDown>>
  BY DEF SrvSteps, Server, AcceptFails, AcceptStarts, LogInReqRefused, LogInRspUnsent,
     LogInReqOk, LogInReqAwaitAck, LogInReqInitFails, InitAcked, InitBroken,
     InitHandlersAgain, InitHandlersErr, InitHandlersOk, EmitPreInitErr, SrvErrStale,
     SrvErrLogIn, SrvErrAlmostPeer, SrvErrPeer, SrvToken, SrvMdt, SrvCallOpen, SrvOpenEmpty,
     Asks, SrvCallMdt, SrvCallInitHandlers, CallOpen, Call, Common, chanVars
<1>3. ASSUME NEW r \in Sides, SideSteps(r)
      PROVE  UNCHANGED <<conn, linkDown>>
  BY <1>3 DEF SideSteps, Common, Open, OnOpenReq, OnPassiveOpen, OnFin, Starts, DtorBegin,
     DtorGreet, DtorFin, DtorGoOn, DtorFlush, Stops, DeliverLogIn, DeliverOpenReq, DeliverFin,
     DropLateRsp, DetectError, OpenAnswered, OpenBroken, OpenTimeout, DtorStart, DtorStop,
     SrvDtorStop, Server, chanVars
<1>4. Common(LinkFail) \/ UNCHANGED vars => conn' = conn /\ linkDown' \in {linkDown, TRUE}
  BY DEF Common, LinkFail, vars, baseVars, chanVars
<1> QED BY <1>1, <1>2, <1>3, <1>4, StepSteps

\* A task at the head that reports an error, or brings an init-channel, is taken by
\* its handlers only.
LEMMA HeadWays ==
  ASSUME TypeOK, Step, NEW s \in Sides, wq[s] # <<>>,
         Head(wq[s]).type \in {"Err", "PreInitErr", "InitOpen"}
  PROVE  \/ wq'[s] = wq[s] \/ Stops(s)
         \/ \E x : wq'[s] = Append(wq[s], x)
         \/ s = Cli /\ \/ Client(CliErrStale) \/ Client(CliErrConnecting)
                       \/ Client(CliErrPeer)
         \/ /\ s = Cli /\ Head(wq[s]).type = "InitOpen"
            /\ Client(InitOpenMore) \/ Client(InitOpenTooLate) \/ Client(InitOpenLast)
         \/ s = Srv /\ \/ Server(SrvErrStale) \/ Server(SrvErrLogIn)
                       \/ Server(SrvErrAlmostPeer) \/ Server(SrvErrPeer)
                       \/ Server(EmitPreInitErr)
<1>0. wq \in [Sides -> Seq(Item)] /\ s \in {Cli, Srv}
  BY SidesAreSides, PeerOfPeer DEF TypeOK, BaseTypeOK, ThreadTypeOK
<1>1. ASSUME CliSteps
      PROVE  \/ Client(CliErrStale) \/ Client(CliErrConnecting) \/ Client(CliErrPeer)
             \/ /\ Ready(Cli, "InitOpen")
                /\ Client(InitOpenMore) \/ Client(InitOpenTooLate) \/ Client(InitOpenLast)
                /\ \E q : wq' = [wq EXCEPT ![Cli] = q]
             \/ UNCHANGED wq \/ \E x : Post(Cli, x)
             \/ \E t : /\ Ready(Cli, t) /\ t \notin {"Err", "PreInitErr", "InitOpen"}
                      /\ \E q : wq' = [wq EXCEPT ![Cli] = q]
  BY <1>1 DEF CliSteps, Client, ConnectRefused, ConnectFails, LogInRspBad, LogInRspOk,
     LogInRspAwaitInit, InitOpenMore, InitOpenTooLate, InitOpenLast, OnDoneOk,
     OnDoneToConnecting, OnDoneToNull, CompleteOk, CompleteBad, CompleteTooLate, CliToken,
     SubclassPosts, CallConnect, CliCallOpen, ConnectBreaks, CallOpen, Call, Common,
     EmplaceFinisher, ExpectOpenReqs, Done, DoneThen
<1>2. ASSUME SrvSteps
      PROVE  \/ Server(SrvErrStale) \/ Server(SrvErrLogIn) \/ Server(SrvErrAlmostPeer)
             \/ Server(SrvErrPeer) \/ Server(EmitPreInitErr)
             \/ UNCHANGED wq \/ \E x : Post(Srv, x)
             \/ \E t : /\ Ready(Srv, t) /\ t \notin {"Err", "PreInitErr", "InitOpen"}
                      /\ \E q : wq' = [wq EXCEPT ![Srv] = q]
  BY <1>2 DEF SrvSteps, Server, AcceptFails, AcceptStarts, LogInReqRefused, LogInRspUnsent,
     LogInReqOk, LogInReqAwaitAck, LogInReqInitFails, InitAcked, InitBroken,
     InitHandlersAgain, InitHandlersErr, InitHandlersOk, SrvToken, SrvMdt, SrvCallOpen,
     SrvOpenEmpty, Asks, SrvCallMdt, SrvCallInitHandlers, CallOpen, Call, Common,
     EmplaceFinisher, Done, DoneThen
<1>3. ASSUME NEW r \in Sides, SideSteps(r)
      PROVE  \/ UNCHANGED wq \/ Stops(r) \/ \E x : Post(r, x)
             \/ \E t : /\ Ready(r, t) /\ t \notin {"Err", "PreInitErr", "InitOpen"}
                      /\ \E q : wq' = [wq EXCEPT ![r] = q]
             \/ Giving(r) /\ \E q : wq' = [wq EXCEPT ![r] = q]
  BY <1>3 DEF SideSteps, Common, Open, OnOpenReq, OnPassiveOpen, OnFin, Starts, DtorBegin,
     DtorGreet, DtorFin, DtorGoOn, DtorFlush, DeliverLogIn, DeliverOpenReq, DeliverFin,
     DropLateRsp, DetectError, OpenAnswered, OpenBroken, OpenTimeout, DtorStart,
     threadVars, Done
<1>4. Common(LinkFail) \/ UNCHANGED vars => UNCHANGED wq
  BY DEF Common, LinkFail, vars, baseVars, threadVars
<1>5. ASSUME NEW r \in Sides, NEW t, Ready(r, t), t \notin {"Err", "PreInitErr", "InitOpen"},
             NEW q, wq' = [wq EXCEPT ![r] = q]
      PROVE  wq'[s] = wq[s]
  <2>1. r # s
    BY <1>5 DEF Ready
  <2> QED BY <1>0, <1>5, <2>1
<1>15. ASSUME NEW r \in Sides, Giving(r), NEW q, wq' = [wq EXCEPT ![r] = q]
      PROVE  wq'[s] = wq[s]
  <2>1. r # s
    BY <1>15 DEF Giving, Task
  <2> QED BY <1>0, <1>15, <2>1
<1>6. ASSUME NEW r \in Sides, NEW x, Post(r, x)
      PROVE  wq'[s] = wq[s] \/ wq'[s] = Append(wq[s], x)
  BY <1>0, <1>6 DEF Post
<1>7. /\ Client(CliErrStale) \/ Client(CliErrConnecting) \/ Client(CliErrPeer) =>
           s = Cli \/ wq'[s] = wq[s]
      /\ \/ Server(SrvErrStale) \/ Server(SrvErrLogIn) \/ Server(SrvErrAlmostPeer)
         \/ Server(SrvErrPeer) \/ Server(EmitPreInitErr)
         => s = Srv \/ wq'[s] = wq[s]
  BY <1>0 DEF Client, Server, CliErrStale, CliErrConnecting, CliErrPeer, ConnectBreaks,
     SrvErrStale, SrvErrLogIn, SrvErrAlmostPeer, SrvErrPeer, EmitPreInitErr, Done
<1>8. ASSUME NEW r \in Sides, Stops(r)
      PROVE  wq'[s] = wq[s] \/ Stops(s)
  <2>1. wq' = [wq EXCEPT ![r] = <<>>]
    BY <1>8 DEF Stops, Common, Server, SrvDtorStop, DtorStop
  <2> QED BY <1>0, <1>8, <2>1
<1>9. Ready(Cli, "InitOpen") /\ s = Cli => Head(wq[s]).type = "InitOpen"
  BY DEF Ready
<1>10. ASSUME s # Cli, NEW q, wq' = [wq EXCEPT ![Cli] = q] PROVE wq'[s] = wq[s]
  BY <1>0, <1>10
<1>11. Cli \in Sides /\ Srv \in Sides
  BY SidesAreSides
<1>12. CASE CliSteps
  BY <1>0, <1>1, <1>5, <1>6, <1>7, <1>11, <1>9, <1>10, <1>12
<1>13. CASE SrvSteps
  BY <1>0, <1>2, <1>5, <1>6, <1>7, <1>11, <1>13
<1>14. CASE \E r \in Sides : SideSteps(r)
  BY <1>0, <1>3, <1>5, <1>6, <1>8, <1>14, <1>15
<1> QED BY <1>4, <1>12, <1>13, <1>14, StepSteps

-----------------------------------------------------------------------------
(* Queues once more.                                                        *)

\* What is kept of a queue when nothing of a type is posted.
LEMMA QueueStays ==
  ASSUME TypeOK, Step, NEW s \in Sides
  PROVE  /\ \A t \in TaskTypes :
              /\ Has(wq'[s], t) => Has(wq[s], t) \/ Posts(s, t)
              /\ Lone(wq[s], t) => Lone(wq'[s], t) \/ Posts(s, t)
              /\ \A u : Before(wq[s], t, u) => Before(wq'[s], t, u) \/ Posts(s, t)
              /\ Has(net'[s], t) => Has(net[s], t) \/ Sends(s, t)
              /\ Lone(net[s], t) => Lone(net'[s], t) \/ Sends(s, t)
         /\ \A C \in SUBSET TaskTypes : (\A t \in C : ~Posts(s, t)) =>
              /\ NoneOf(wq[s], C) => NoneOf(wq'[s], C)
              /\ OneOf(wq[s], C) => OneOf(wq'[s], C)
<1>1. Less(wq[s], wq'[s], NotPosted(s)) /\ Less(net[s], net'[s], NotSent(s))
  BY StepLess, StepNetLess
<1>2. /\ \A t \in TaskTypes : ~Posts(s, t) => t \in NotPosted(s)
      /\ \A t \in TaskTypes : ~Sends(s, t) => t \in NotSent(s)
  BY DEF NotPosted, NotSent
<1>3. ASSUME NEW C \in SUBSET TaskTypes, \A t \in C : ~Posts(s, t)
      PROVE  C \in SUBSET NotPosted(s)
  BY <1>2, <1>3
<1> QED BY <1>1, <1>2, <1>3 DEF Less

\* One element more.
LEMMA OnAppend ==
  ASSUME NEW q \in Seq(Item), NEW x
  PROVE  /\ \A t : Has(Append(q, x), t) <=> Has(q, t) \/ x.type = t
         /\ \A t : Lone(q, t) /\ (x.type = t => ~Has(q, t)) => Lone(Append(q, x), t)
         /\ \A t, u : Before(q, t, u) /\ t # u /\ (x.type = t => ~Has(q, u)) =>
              Before(Append(q, x), t, u)
         /\ \A C : NoneOf(q, C) => OneOf(Append(q, x), C)
<1> DEFINE r == Append(q, x)
<1>1. /\ Len(q) \in Nat /\ Len(r) = Len(q) + 1
      /\ \A i \in 1..Len(q) : i \in 1..Len(r) /\ r[i] = q[i]
      /\ Len(r) \in 1..Len(r) /\ r[Len(r)] = x
      /\ \A i \in 1..Len(r) : i \in 1..Len(q) \/ i = Len(r)
  <2> DEFINE S == Item \cup {x}
  <2>1. q \in Seq(S) /\ x \in S
    OBVIOUS
  <2> HIDE DEF S
  <2> QED BY <2>1
<1> HIDE DEF r
<1>2. \A t : Has(r, t) <=> Has(q, t) \/ x.type = t
  BY <1>1 DEF Has
<1>3. ASSUME NEW t, Lone(q, t), x.type = t => ~Has(q, t) PROVE Lone(r, t)
  <2> SUFFICES ASSUME NEW i \in 1..Len(r), NEW j \in 1..Len(r), r[i].type = t, r[j].type = t
               PROVE  i = j
    BY DEF Lone
  <2> QED BY <1>1, <1>3 DEF Lone, Has
<1>4. ASSUME NEW t, NEW u, Before(q, t, u), t # u, x.type = t => ~Has(q, u)
      PROVE  Before(r, t, u)
  <2> SUFFICES ASSUME NEW i \in 1..Len(r), NEW j \in 1..Len(r), r[i].type = t, r[j].type = u
               PROVE  i < j
    BY DEF Before
  <2>1. CASE i \in 1..Len(q) /\ j \in 1..Len(q)
    BY <1>1, <1>4, <2>1 DEF Before
  <2>2. CASE i \in 1..Len(q) /\ j = Len(r)
    BY <1>1, <2>2
  <2>3. CASE i = Len(r)
    <3>1. j # Len(r)
      BY <1>1, <1>4, <2>3
    <3>2. j \in 1..Len(q) /\ q[j].type = u
      BY <1>1, <3>1
    <3> QED BY <1>1, <1>4, <2>3, <3>2 DEF Has
  <2> QED BY <1>1, <2>1, <2>2, <2>3
<1>5. ASSUME NEW C, NoneOf(q, C) PROVE OneOf(r, C)
  BY <1>1, <1>5 DEF NoneOf, OneOf
<1> QED BY <1>2, <1>3, <1>4, <1>5 DEF r

\* The head taken, and a queue put behind the rest.
LEMMA OnTail ==
  ASSUME NEW q \in Seq(Item), q # <<>>
  PROVE  /\ Tail(q) \in Seq(Item) /\ Has(q, Head(q).type)
         /\ \A t : Has(Tail(q), t) => Has(q, t)
         /\ \A t : Has(q, t) /\ Head(q).type # t => Has(Tail(q), t)
         /\ \A t : Lone(q, t) => Lone(Tail(q), t) /\ (Head(q).type = t => ~Has(Tail(q), t))
         /\ \A t, u : Before(q, t, u) =>
              Before(Tail(q), t, u) /\ (Head(q).type = u => ~Has(q, t))
         /\ \A C : OneOf(q, C) =>
              OneOf(Tail(q), C) /\ (Head(q).type \in C => NoneOf(Tail(q), C))
<1> DEFINE r == Tail(q)
<1>1. /\ Len(q) \in Nat /\ r \in Seq(Item) /\ Len(r) = Len(q) - 1 /\ 1 \in 1..Len(q)
      /\ Head(q) = q[1] /\ \A i \in 1..Len(q) - 1 : r[i] = q[i + 1]
  BY QueueShape
<1> HIDE DEF r
<1>2. \A i \in 1..Len(r) : i \in Nat /\ i + 1 \in 1..Len(q) /\ r[i] = q[i + 1] /\ i + 1 # 1
  BY <1>1
<1>3. Has(q, Head(q).type) /\ \A t : Has(r, t) => Has(q, t)
  BY <1>1, <1>2 DEF Has
<1>4. ASSUME NEW t, Has(q, t), Head(q).type # t PROVE Has(r, t)
  <2>1. PICK i \in 1..Len(q) : q[i].type = t
    BY <1>4 DEF Has
  <2>2. i - 1 \in 1..Len(r) /\ r[i - 1] = q[i]
    <3>1. i # 1
      BY <1>1, <1>4, <2>1
    <3> QED BY <1>1, <3>1
  <2> QED BY <2>1, <2>2 DEF Has
<1>5. ASSUME NEW t, Lone(q, t) PROVE Lone(r, t) /\ (Head(q).type = t => ~Has(r, t))
  <2>1. Lone(r, t)
    <3> SUFFICES ASSUME NEW i \in 1..Len(r), NEW j \in 1..Len(r), r[i].type = t, r[j].type = t
                 PROVE  i = j
      BY DEF Lone
    <3>1. i + 1 = j + 1
      BY <1>2, <1>5 DEF Lone
    <3> QED BY <1>2, <3>1
  <2>2. Head(q).type = t => ~Has(r, t)
    BY <1>1, <1>2, <1>5 DEF Lone, Has
  <2> QED BY <2>1, <2>2
<1>6. ASSUME NEW t, NEW u, Before(q, t, u)
      PROVE  Before(r, t, u) /\ (Head(q).type = u => ~Has(q, t))
  <2>1. Before(r, t, u)
    <3> SUFFICES ASSUME NEW i \in 1..Len(r), NEW j \in 1..Len(r), r[i].type = t, r[j].type = u
                 PROVE  i < j
      BY DEF Before
    <3>1. i + 1 < j + 1
      BY <1>2, <1>6 DEF Before
    <3> QED BY <1>2, <3>1
  <2>2. Head(q).type = u => ~Has(q, t)
    <3> SUFFICES ASSUME q[1].type = u, NEW i \in 1..Len(q), q[i].type = t PROVE FALSE
      BY <1>1 DEF Has
    <3>1. i < 1
      BY <1>1, <1>6 DEF Before
    <3> QED BY <3>1
  <2> QED BY <2>1, <2>2
<1>7. ASSUME NEW C, OneOf(q, C)
      PROVE  OneOf(r, C) /\ (Head(q).type \in C => NoneOf(r, C))
  <2>1. OneOf(r, C)
    <3> SUFFICES ASSUME NEW i \in 1..Len(r), NEW j \in 1..Len(r), r[i].type \in C, r[j].type \in C
                 PROVE  i = j
      BY DEF OneOf
    <3>1. i + 1 = j + 1
      BY <1>2, <1>7 DEF OneOf
    <3> QED BY <1>2, <3>1
  <2>2. Head(q).type \in C => NoneOf(r, C)
    BY <1>1, <1>2, <1>7 DEF OneOf, NoneOf
  <2> QED BY <2>1, <2>2
<1> QED BY <1>1, <1>3, <1>4, <1>5, <1>6, <1>7 DEF r

LEMMA OnConcat ==
  ASSUME NEW q \in Seq(Item), NEW p \in Seq(Item)
  PROVE  /\ \A t : Has(q \o p, t) <=> Has(q, t) \/ Has(p, t)
         /\ \A t : Lone(q, t) /\ Lone(p, t) /\ ~(Has(q, t) /\ Has(p, t)) => Lone(q \o p, t)
         /\ \A t, u : Before(q, t, u) /\ Before(p, t, u) /\ ~(Has(q, u) /\ Has(p, t)) =>
              Before(q \o p, t, u)
<1> DEFINE r == q \o p
<1>1. /\ Len(q) \in Nat /\ Len(p) \in Nat /\ Len(r) = Len(q) + Len(p)
      /\ \A i \in 1..Len(q) + Len(p) : r[i] = IF i <= Len(q) THEN q[i] ELSE p[i - Len(q)]
  BY QueueShape
<1> HIDE DEF r
<1>2. /\ \A i \in 1..Len(q) : i \in 1..Len(r) /\ r[i] = q[i]
      /\ \A i \in 1..Len(p) : i + Len(q) \in 1..Len(r) /\ r[i + Len(q)] = p[i]
      /\ \A i \in 1..Len(r) : \/ i \in 1..Len(q) /\ r[i] = q[i]
                              \/ i > Len(q) /\ i - Len(q) \in 1..Len(p) /\ r[i] = p[i - Len(q)]
  <2>1. ASSUME NEW i \in 1..Len(q) PROVE i \in 1..Len(r) /\ r[i] = q[i]
    BY <1>1
  <2>2. ASSUME NEW i \in 1..Len(p) PROVE i + Len(q) \in 1..Len(r) /\ r[i + Len(q)] = p[i]
    <3>1. i + Len(q) \in 1..Len(q) + Len(p) /\ ~(i + Len(q) <= Len(q)) /\ i + Len(q) - Len(q) = i
      BY <1>1
    <3> QED BY <1>1, <3>1
  <2>3. ASSUME NEW i \in 1..Len(r)
        PROVE  \/ i \in 1..Len(q) /\ r[i] = q[i]
               \/ i > Len(q) /\ i - Len(q) \in 1..Len(p) /\ r[i] = p[i - Len(q)]
    <3>1. i \in 1..Len(q) + Len(p) /\ i \in Int
      BY <1>1
    <3>2. CASE i <= Len(q)
      BY <1>1, <3>1, <3>2
    <3>3. CASE ~(i <= Len(q))
      BY <1>1, <3>1, <3>3
    <3> QED BY <3>2, <3>3
  <2> QED BY <2>1, <2>2, <2>3
<1>3. \A t : Has(r, t) <=> Has(q, t) \/ Has(p, t)
  BY <1>2 DEF Has
<1>4. ASSUME NEW t, Lone(q, t), Lone(p, t), ~(Has(q, t) /\ Has(p, t)) PROVE Lone(r, t)
  <2> SUFFICES ASSUME NEW i \in 1..Len(r), NEW j \in 1..Len(r), r[i].type = t, r[j].type = t
               PROVE  i = j
    BY DEF Lone
  <2>1. CASE i \in 1..Len(q) /\ r[i] = q[i] /\ j \in 1..Len(q) /\ r[j] = q[j]
    BY <1>4, <2>1 DEF Lone
  <2>2. CASE /\ i - Len(q) \in 1..Len(p) /\ r[i] = p[i - Len(q)]
             /\ j - Len(q) \in 1..Len(p) /\ r[j] = p[j - Len(q)]
    <3>1. i - Len(q) = j - Len(q)
      BY <1>4, <2>2 DEF Lone
    <3> QED BY <1>1, <3>1
  <2>3. ASSUME NEW a \in 1..Len(r), NEW b \in 1..Len(r), r[a].type = t, r[b].type = t,
               a \in 1..Len(q), r[a] = q[a], b - Len(q) \in 1..Len(p), r[b] = p[b - Len(q)]
        PROVE  FALSE
    BY <1>4, <2>3 DEF Has
  <2> QED BY <1>2, <2>1, <2>2, <2>3
<1>5. ASSUME NEW t, NEW u, Before(q, t, u), Before(p, t, u), ~(Has(q, u) /\ Has(p, t))
      PROVE  Before(r, t, u)
  <2> SUFFICES ASSUME NEW i \in 1..Len(r), NEW j \in 1..Len(r), r[i].type = t, r[j].type = u
               PROVE  i < j
    BY DEF Before
  <2>1. CASE i \in 1..Len(q) /\ r[i] = q[i] /\ j \in 1..Len(q) /\ r[j] = q[j]
    BY <1>5, <2>1 DEF Before
  <2>2. CASE /\ i - Len(q) \in 1..Len(p) /\ r[i] = p[i - Len(q)]
             /\ j - Len(q) \in 1..Len(p) /\ r[j] = p[j - Len(q)]
    <3>1. i - Len(q) < j - Len(q)
      BY <1>5, <2>2 DEF Before
    <3> QED BY <1>1, <3>1
  <2>3. CASE i \in 1..Len(q) /\ j > Len(q)
    BY <1>1, <2>3
  <2>4. CASE /\ i - Len(q) \in 1..Len(p) /\ r[i] = p[i - Len(q)]
             /\ j \in 1..Len(q) /\ r[j] = q[j]
    BY <1>5, <2>4 DEF Has
  <2> QED BY <1>2, <2>1, <2>2, <2>3, <2>4
<1> QED BY <1>3, <1>4, <1>5 DEF r

\* W of s takes the task t at the head of its queue.
LEMMA OnDone ==
  ASSUME TypeOK, NEW s \in Sides, NEW t, Ready(s, t), Done(s)
  PROVE  /\ Has(wq[s], t) /\ wq'[s] = Tail(wq[s]) /\ inside[s] = "none"
         /\ \A u : Has(wq'[s], u) => Has(wq[s], u)
         /\ \A u : Has(wq[s], u) /\ u # t => Has(wq'[s], u)
         /\ \A u : Lone(wq[s], u) => Lone(wq'[s], u)
         /\ Lone(wq[s], t) => ~Has(wq'[s], t)
         /\ \A u : Before(wq[s], u, t) => ~Has(wq[s], u)
         /\ \A C : OneOf(wq[s], C) /\ t \in C => NoneOf(wq'[s], C)
<1>1. wq'[s] = Tail(wq[s])
  BY DEF Done, TypeOK, BaseTypeOK, ThreadTypeOK
<1>2. wq[s] \in Seq(Item) /\ wq[s] # <<>> /\ Head(wq[s]).type = t /\ inside[s] = "none"
  BY ReadyHas
<1> QED BY <1>1, <1>2, OnTail

\* It puts others behind the rest.
LEMMA OnDoneThen ==
  ASSUME TypeOK, NEW s \in Sides, NEW t, Ready(s, t), NEW ms \in Seq(Item), DoneThen(s, ms)
  PROVE  /\ Has(wq[s], t) /\ inside[s] = "none"
         /\ \A u : Has(wq'[s], u) => Has(wq[s], u) \/ Has(ms, u)
         /\ \A u : (Has(wq[s], u) /\ u # t) \/ Has(ms, u) => Has(wq'[s], u)
         /\ \A u : Lone(wq[s], u) /\ Lone(ms, u) /\ ~(Has(wq[s], u) /\ Has(ms, u)) =>
              Lone(wq'[s], u)
         /\ Lone(wq[s], t) /\ ~Has(ms, t) => ~Has(wq'[s], t)
         /\ \A u, v :
              Before(wq[s], u, v) /\ Before(ms, u, v) /\ ~(Has(wq[s], v) /\ Has(ms, u)) =>
              Before(wq'[s], u, v)
         /\ \A C : OneOf(wq[s], C) /\ t \in C /\ (\A u \in C : ~Has(ms, u)) =>
              NoneOf(wq'[s], C)
<1> DEFINE q == Tail(wq[s])
<1>1. wq'[s] = q \o ms
  BY DEF DoneThen, TypeOK, BaseTypeOK, ThreadTypeOK
<1>2. wq[s] \in Seq(Item) /\ wq[s] # <<>> /\ Head(wq[s]).type = t /\ inside[s] = "none"
  BY ReadyHas
<1>3. /\ q \in Seq(Item) /\ Has(wq[s], t)
      /\ \A u : Has(q, u) => Has(wq[s], u)
      /\ \A u : Has(wq[s], u) /\ u # t => Has(q, u)
      /\ \A u : Lone(wq[s], u) => Lone(q, u)
      /\ Lone(wq[s], t) => ~Has(q, t)
      /\ \A u, v : Before(wq[s], u, v) => Before(q, u, v)
      /\ \A C : OneOf(wq[s], C) /\ t \in C => NoneOf(q, C)
  BY <1>2, OnTail
<1> HIDE DEF q
<1>4. /\ \A u : Has(wq'[s], u) <=> Has(q, u) \/ Has(ms, u)
      /\ \A u : Lone(q, u) /\ Lone(ms, u) /\ ~(Has(q, u) /\ Has(ms, u)) => Lone(wq'[s], u)
      /\ \A u, v : Before(q, u, v) /\ Before(ms, u, v) /\ ~(Has(q, v) /\ Has(ms, u)) =>
           Before(wq'[s], u, v)
  BY <1>1, <1>3, OnConcat
<1>5. ASSUME NEW C, OneOf(wq[s], C), t \in C, \A u \in C : ~Has(ms, u)
      PROVE  NoneOf(wq'[s], C)
  <2>1. \A u \in C : ~Has(q, u)
    BY <1>3, <1>5 DEF NoneOf, Has
  <2>2. \A u \in C : ~Has(wq'[s], u)
    BY <1>4, <1>5, <2>1
  <2> QED BY <2>2 DEF NoneOf, Has
<1>6. ASSUME NEW u PROVE Has(wq'[s], u) => Has(wq[s], u) \/ Has(ms, u)
  BY <1>3, <1>4
<1>7. ASSUME NEW u, (Has(wq[s], u) /\ u # t) \/ Has(ms, u) PROVE Has(wq'[s], u)
  BY <1>3, <1>4, <1>7
<1>8. ASSUME NEW u, Lone(wq[s], u), Lone(ms, u), ~(Has(wq[s], u) /\ Has(ms, u))
      PROVE  Lone(wq'[s], u)
  BY <1>3, <1>4, <1>8
<1>9. Lone(wq[s], t) /\ ~Has(ms, t) => ~Has(wq'[s], t)
  BY <1>3, <1>4
<1>10. ASSUME NEW u, NEW v, Before(wq[s], u, v), Before(ms, u, v),
              ~(Has(wq[s], v) /\ Has(ms, u))
       PROVE  Before(wq'[s], u, v)
  BY <1>3, <1>4, <1>10
<1>11. Has(wq[s], t) /\ inside[s] = "none"
  BY <1>2, <1>3
<1> QED BY <1>5, <1>6, <1>7, <1>8, <1>9, <1>10, <1>11

\* x is posted onto W of s.
LEMMA OnPost ==
  ASSUME TypeOK, NEW s \in Sides, NEW x, Post(s, x)
  PROVE  /\ \A t : Has(wq'[s], t) <=> Has(wq[s], t) \/ x.type = t
         /\ \A t : Lone(wq[s], t) /\ (x.type = t => ~Has(wq[s], t)) => Lone(wq'[s], t)
         /\ \A t, u : Before(wq[s], t, u) /\ t # u /\ (x.type = t => ~Has(wq[s], u)) =>
              Before(wq'[s], t, u)
         /\ \A C : NoneOf(wq[s], C) => OneOf(wq'[s], C)
<1>1. wq[s] \in Seq(Item) /\ wq'[s] = Append(wq[s], x)
  BY DEF Post, TypeOK, BaseTypeOK, ThreadTypeOK
<1> QED BY <1>1, OnAppend

\* Nothing is in an empty queue.
LEMMA EmptyHas ==
  /\ \A t : ~Has(<<>>, t) /\ Lone(<<>>, t)
  /\ \A t, u : Before(<<>>, t, u)
  /\ \A C : NoneOf(<<>>, C) /\ OneOf(<<>>, C)
BY DEF Has, Lone, Before, NoneOf, OneOf

-----------------------------------------------------------------------------
(* The destructor.                                                          *)

LEMMA DtorQueueStays ==
  ASSUME AllInv, Step, NEW s \in Sides
  PROVE  DtorQueue(s)'
<1>0. /\ TypeOK /\ DtorQueue(s) /\ s \in DOMAIN dtor
      /\ \A t \in DtorTasks : t \in TaskTypes /\ Lone(wq[s], t)
      /\ {"DtorBegin", "DtorFin", "DtorFlush"} = DtorTasks
  BY DEF AllInv, Known, EndInv, DtorInOrder, DtorQueue, DtorTasks, TaskTypes, TypeOK,
     BaseTypeOK, EndTypeOK
<1>1. CASE dtor'[s] = dtor[s]
  <2>1. ~Starts(s) /\ ~Common(DtorGreet(s)) /\ ~Common(DtorGoOn(s))
    BY <1>0, <1>1 DEF Starts, Common, DtorStart, Free, DtorGreet, DtorGoOn, MayFlush
  <2>2. \A t \in DtorTasks : ~Posts(s, t)
    BY <2>1 DEF Posts, DtorTasks, Asks, TypeOK, BaseTypeOK, ChanTypeOK, AllInv, Known
  <2> QED BY <1>0, <1>1, <2>2, QueueStays DEF DtorQueue
<1>2. ASSUME dtor[s] \notin {"begin", "fin", "flush"}, NEW t \in DtorTasks, Post(s, Plain(t)),
             dtor'[s] = CASE t = "DtorBegin" -> "begin" [] t = "DtorFin" -> "fin"
                          [] t = "DtorFlush" -> "flush"
      PROVE  DtorQueue(s)'
  <2>1. \A u \in DtorTasks : ~Has(wq[s], u)
    BY <1>0, <1>2 DEF DtorQueue
  <2>2. Plain(t).type = t
    BY DEF Plain, New
  <2>3. \A u \in DtorTasks : Lone(wq'[s], u) /\ (Has(wq'[s], u) => u = t)
    BY <1>0, <1>2, <2>1, <2>2, OnPost
  <2> QED BY <1>0, <1>2, <2>3 DEF DtorQueue
<1>3. ASSUME NEW t \in DtorTasks, Ready(s, t), Done(s)
      PROVE  DtorQueue(s)'
  <2>1. \A u \in DtorTasks : u # t => ~Has(wq[s], u)
    BY <1>0, <1>3, OnDone DEF DtorQueue
  <2>2. \A u \in DtorTasks : Lone(wq'[s], u) /\ ~Has(wq'[s], u)
    BY <1>0, <1>3, <2>1, OnDone
  <2> QED BY <1>0, <2>2 DEF DtorQueue
<1>4. CASE Starts(s)
  <2>1. /\ dtor[s] = "no"
        /\ \/ Post(s, Plain("DtorBegin")) /\ dtor'[s] = "begin"
           \/ Post(s, Plain("DtorFlush")) /\ dtor'[s] = "flush"
    BY <1>0, <1>4 DEF Starts, Common, DtorStart, Free
  <2> QED BY <1>0, <1>2, <2>1
<1>5. CASE Common(DtorGreet(s)) \/ Common(DtorGoOn(s))
  <2>1. /\ dtor[s] \in {"greet", "quiet", "await"}
        /\ \/ Post(s, Plain("DtorFin")) /\ dtor'[s] = "fin"
           \/ Post(s, Plain("DtorFlush")) /\ dtor'[s] = "flush"
    BY <1>0, <1>5 DEF Common, DtorGreet, DtorGoOn, MayFlush
  <2> QED BY <1>0, <1>2, <2>1
<1>6. CASE Common(DtorBegin(s)) \/ Common(DtorFin(s)) \/ Common(DtorFlush(s))
  <2>1. \E t \in DtorTasks : Ready(s, t) /\ Done(s)
    BY <1>0, <1>6 DEF Common, DtorBegin, DtorFin, DtorFlush
  <2> QED BY <1>3, <2>1
<1>7. CASE Stops(s)
  <2>1. wq'[s] = <<>>
    BY <1>0, <1>7 DEF Stops, Common, Server, SrvDtorStop, DtorStop, TypeOK, BaseTypeOK,
       ThreadTypeOK
  <2> QED BY <1>0, <2>1, EmptyHas DEF DtorQueue
<1> QED BY <1>0, <1>1, <1>4, <1>5, <1>6, <1>7, DtorWays

\* What init_handlers() and the completion of a connect post: a farewell only if
\* one was kept and the channel has no error.
PostsAfter(s, ms) ==
  /\ ms \in Seq(Item) /\ DoneThen(s, ms)
  /\ \A t : Has(ms, t) => t \in {"PreInitErr", "OpenReq", "Fin"}
  /\ Lone(ms, "Fin")
  /\ Has(ms, "Fin") =>
       cacheFin[s] /\ ~chErr[s] /\ ~cacheFin'[s] /\ finisher'[s] = "pending"
  /\ cacheFin'[s] => cacheFin[s]

LEMMA FewPosted ==
  /\ Plain("Fin") \in Item /\ Plain("PreInitErr") \in Item
  /\ <<>> \in Seq(Item) /\ \A t : ~Has(<<>>, t) /\ Lone(<<>>, t)
  /\ \A u \in {"Fin", "PreInitErr"} :
       /\ <<Plain(u)>> \in Seq(Item)
       /\ \A t : Lone(<<Plain(u)>>, t) /\ (Has(<<Plain(u)>>, t) => t = u)
<1>1. Plain("Fin") \in Item /\ Plain("PreInitErr") \in Item
  BY PlainIsItem DEF TaskTypes, MsgTypes
<1>2. ASSUME NEW u \in {"Fin", "PreInitErr"}
      PROVE  /\ <<Plain(u)>> \in Seq(Item)
             /\ \A t : Lone(<<Plain(u)>>, t) /\ (Has(<<Plain(u)>>, t) => t = u)
  <2>1. <<Plain(u)>> \in Seq(Item) /\ Plain(u).type = u
    BY <1>1, OneMore DEF Plain, New
  <2>2. \A t : Lone(<<Plain(u)>>, t) /\ (Plain(u).type # t => ~Has(<<Plain(u)>>, t))
    BY FewElements
  <2> QED BY <2>1, <2>2
<1>3. <<>> \in Seq(Item)
  OBVIOUS
<1> QED BY <1>1, <1>2, <1>3, EmptyHas

LEMMA HandlersPost ==
  ASSUME TypeOK, Server(InitHandlersErr) \/ Server(InitHandlersOk)
  PROVE  Ready(Srv, "InitHandlers") /\ \E ms : PostsAfter(Srv, ms)
<1>0. /\ Srv \in Sides /\ cacheFin \in [Sides -> BOOLEAN]
      /\ finisher \in [Sides -> {"none", "pending", "done"}]
  BY SidesAreSides DEF TypeOK, BaseTypeOK, ChanTypeOK, EndTypeOK
<1> DEFINE fin == <<Plain("Fin")>>
<1>1. CASE Server(InitHandlersErr)
  <2> DEFINE ms == <<Plain("PreInitErr")>>
  <2>1. Ready(Srv, "InitHandlers") /\ DoneThen(Srv, ms) /\ UNCHANGED cacheFin
    BY <1>1 DEF Server, InitHandlersErr, chanVars
  <2>2. ms \in Seq(Item) /\ \A t : Lone(ms, t) /\ (Has(ms, t) => t = "PreInitErr")
    BY FewPosted
  <2> HIDE DEF ms
  <2>3. PostsAfter(Srv, ms)
    BY <1>0, <2>1, <2>2 DEF PostsAfter
  <2> QED BY <2>1, <2>3
<1>2. CASE Server(InitHandlersOk)
  <2>1. PICK ks \in {<<>>, Kept(Srv, "OpenReq")} :
          \/ DoneThen(Srv, ks) /\ UNCHANGED cacheFin
          \/ DoneThen(Srv, ks \o <<>>) /\ (cacheFin'[Srv] => cacheFin[Srv])
          \/ /\ DoneThen(Srv, ks \o fin) /\ cacheFin[Srv] /\ ~chErr[Srv]
             /\ ~cacheFin'[Srv] /\ finisher'[Srv] = "pending"
    BY <1>0, <1>2 DEF Server, InitHandlersOk, EmplaceFinisher
  <2>2. ks \in Seq(Item) /\ \A t : Has(ks, t) => t = "OpenReq"
    <3>1. "OpenReq" \in ReqTypes
      BY DEF ReqTypes
    <3>2. /\ Kept(Srv, "OpenReq") \in Seq(Item)
          /\ \A i \in 1..Len(Kept(Srv, "OpenReq")) : Kept(Srv, "OpenReq")[i].type = "OpenReq"
      BY <1>0, <3>1, KeptAre
    <3>3. \A t : Has(Kept(Srv, "OpenReq"), t) => t = "OpenReq"
      BY <3>2 DEF Has
    <3> QED BY <3>2, <3>3, FewPosted
  <2>3. Ready(Srv, "InitHandlers")
    BY <1>2 DEF Server, InitHandlersOk
  <2>4. ks \o <<>> = ks /\ Lone(ks, "Fin")
    <3>1. ks \o <<>> = ks
      BY <2>2
    <3> QED BY <2>2, <3>1 DEF Lone, Has
  <2>5. fin \in Seq(Item) /\ \A t : Lone(fin, t) /\ (Has(fin, t) => t = "Fin")
    BY FewPosted
  <2> HIDE DEF fin
  <2>6. CASE DoneThen(Srv, ks) /\ UNCHANGED cacheFin
    BY <2>2, <2>3, <2>4, <2>6 DEF PostsAfter
  <2>7. CASE DoneThen(Srv, ks \o <<>>) /\ (cacheFin'[Srv] => cacheFin[Srv])
    BY <2>2, <2>3, <2>4, <2>7 DEF PostsAfter
  <2>8. CASE /\ DoneThen(Srv, ks \o fin) /\ cacheFin[Srv] /\ ~chErr[Srv]
             /\ ~cacheFin'[Srv] /\ finisher'[Srv] = "pending"
    <3> DEFINE ms == ks \o fin
    <3>1. ms \in Seq(Item)
      BY <2>2, <2>5, QueueElements
    <3>2. \A t : Has(ms, t) => t \in {"OpenReq", "Fin"}
      BY <2>2, <2>5, OnConcat
    <3>3. Lone(ms, "Fin")
      BY <2>2, <2>4, <2>5, OnConcat
    <3>4. DoneThen(Srv, ms)
      BY <2>8
    <3> HIDE DEF ms
    <3>5. PostsAfter(Srv, ms)
      BY <2>8, <3>1, <3>2, <3>3, <3>4 DEF PostsAfter
    <3> QED BY <2>3, <3>5
  <2> QED BY <2>1, <2>6, <2>7, <2>8
<1> QED BY <1>1, <1>2

LEMMA CompletePosts ==
  ASSUME TypeOK, Client(CompleteOk)
  PROVE  Ready(Cli, "Complete") /\ \E ms : PostsAfter(Cli, ms)
<1>0. /\ Cli \in Sides /\ cacheFin \in [Sides -> BOOLEAN]
      /\ finisher \in [Sides -> {"none", "pending", "done"}]
  BY SidesAreSides DEF TypeOK, BaseTypeOK, ChanTypeOK, EndTypeOK
<1> DEFINE fin == <<Plain("Fin")>>
<1>1. /\ Ready(Cli, "Complete")
      /\ \/ DoneThen(Cli, <<>> \o <<>>) /\ (cacheFin'[Cli] => cacheFin[Cli])
         \/ /\ DoneThen(Cli, <<>> \o fin) /\ cacheFin[Cli] /\ ~chErr[Cli]
            /\ ~cacheFin'[Cli] /\ finisher'[Cli] = "pending"
  BY <1>0 DEF Client, CompleteOk, EmplaceFinisher
<1>2. fin \in Seq(Item) /\ \A t : Lone(fin, t) /\ (Has(fin, t) => t = "Fin")
  BY FewPosted
<1> HIDE DEF fin
<1>3. <<>> \o <<>> = <<>> /\ <<>> \o fin = fin
  BY <1>2
<1>4. CASE DoneThen(Cli, <<>>) /\ (cacheFin'[Cli] => cacheFin[Cli])
  BY <1>1, <1>4, FewPosted DEF PostsAfter
<1>5. CASE /\ DoneThen(Cli, fin) /\ cacheFin[Cli] /\ ~chErr[Cli]
           /\ ~cacheFin'[Cli] /\ finisher'[Cli] = "pending"
  BY <1>1, <1>2, <1>5 DEF PostsAfter
<1> QED BY <1>1, <1>3, <1>4, <1>5

LEMMA SrvOneCallStays ==
  ASSUME AllInv, Step
  PROVE  SrvOneCall'
<1>0. /\ TypeOK /\ SrvOneCall /\ Srv \in Sides /\ SrvCalls \in SUBSET TaskTypes
      /\ user \in [Sides -> {"idle", "call"}]
      /\ inside \in [Sides -> {"none", "open", "initAck", "onDone", "passive"}]
      /\ \A t \in SrvCalls : Plain(t).type = t
  BY SidesAreSides DEF AllInv, Known, EndInv, SrvCalls, TaskTypes, TypeOK, BaseTypeOK,
     ThreadTypeOK, Plain, New
<1>1. CASE \E t \in SrvCalls : Posts(Srv, t)
  <2>1. \E t \in SrvCalls : Call(Srv, t)
    <3>1. Server(SrvCallOpen) \/ \E t \in SrvCalls : Asks(t)
      BY <1>0, <1>1, SidesDiffer DEF Posts, SrvCalls, TypeOK, BaseTypeOK, ChanTypeOK
    <3> QED BY <3>1 DEF Server, SrvCallOpen, CallOpen, Asks, Common, SrvCallMdt,
            SrvCallInitHandlers, SrvCalls
  <2>2. PICK t \in SrvCalls : /\ Post(Srv, Plain(t)) /\ user[Srv] = "idle"
                              /\ user'[Srv] = "call" /\ inside' = inside
    BY <1>0, <2>1 DEF Call, Free
  <2>3. OneOf(wq'[Srv], SrvCalls)
    BY <1>0, <2>2, OnPost DEF SrvOneCall
  <2> QED BY <1>0, <2>2, <2>3 DEF SrvOneCall
<1>2. CASE \A t \in SrvCalls : ~Posts(Srv, t)
  <2>1. /\ OneOf(wq'[Srv], SrvCalls)
        /\ NoneOf(wq[Srv], SrvCalls) => NoneOf(wq'[Srv], SrvCalls)
    BY <1>0, <1>2, QueueStays DEF SrvOneCall
  <2>2. CASE /\ user'[Srv] = user[Srv]
             /\ inside'[Srv] \in {inside[Srv], "none", "initAck", "passive"}
    BY <1>0, <2>1, <2>2 DEF SrvOneCall
  <2>3. CASE Common(Open(Srv))
    <3>1. /\ Ready(Srv, "Open") /\ Done(Srv)
          /\ inside'[Srv] = "open" => user'[Srv] = user[Srv]
      BY <1>0, <2>3 DEF Common, Open, Answer, Ready
    <3>2. NoneOf(wq'[Srv], SrvCalls) /\ ~NoneOf(wq[Srv], SrvCalls)
      <4>1. "Open" \in SrvCalls /\ Has(wq[Srv], "Open")
        BY <1>0, <3>1, OnDone DEF SrvCalls
      <4>2. NoneOf(wq'[Srv], SrvCalls)
        BY <1>0, <3>1, <4>1, OnDone DEF SrvOneCall
      <4> QED BY <4>1, <4>2 DEF NoneOf, Has
    <3> QED BY <1>0, <2>1, <3>1, <3>2 DEF SrvOneCall
  <2>4. CASE \/ Common(OpenAnswered(Srv)) \/ Common(OpenBroken(Srv))
             \/ Common(OpenTimeout(Srv))
    <3>1. inside[Srv] = "open" /\ inside'[Srv] = "none"
      BY <1>0, <2>4 DEF Common, OpenAnswered, OpenBroken, OpenTimeout
    <3> QED BY <1>0, <2>1, <3>1 DEF SrvOneCall
  <2>5. CASE \/ Server(InitHandlersAgain) \/ Server(SrvToken) \/ Server(SrvMdt)
    <3>1. \E t \in SrvCalls : Ready(Srv, t) /\ Done(Srv)
      BY <2>5 DEF Server, InitHandlersAgain, SrvToken, SrvMdt, SrvCalls
    <3>2. inside' = inside
      BY <2>5 DEF Server, InitHandlersAgain, SrvToken, SrvMdt
    <3>3. NoneOf(wq'[Srv], SrvCalls) /\ inside[Srv] = "none"
      BY <1>0, <3>1, OnDone DEF SrvOneCall
    <3> QED BY <2>1, <3>2, <3>3 DEF SrvOneCall
  <2>6. CASE Server(InitHandlersErr) \/ Server(InitHandlersOk)
    <3>1. inside' = inside
      BY <2>6 DEF Server, InitHandlersErr, InitHandlersOk
    <3>2. PICK ms : PostsAfter(Srv, ms) /\ Ready(Srv, "InitHandlers")
      BY <1>0, <2>6, HandlersPost
    <3>3. "InitHandlers" \in SrvCalls /\ \A t \in SrvCalls : ~Has(ms, t)
      BY <3>2 DEF PostsAfter, SrvCalls
    <3>4. ms \in Seq(Item) /\ DoneThen(Srv, ms)
      BY <3>2 DEF PostsAfter
    <3>5. NoneOf(wq'[Srv], SrvCalls) /\ inside[Srv] = "none"
      BY <1>0, <3>2, <3>3, <3>4, OnDoneThen DEF SrvOneCall
    <3> QED BY <2>1, <3>1, <3>5 DEF SrvOneCall
  <2>7. CASE \/ Server(LogInReqAwaitAck) \/ Server(InitAcked) \/ Server(InitBroken)
    <3>1. UNCHANGED user
      BY <2>7 DEF Server, LogInReqAwaitAck, InitAcked, InitBroken
    <3>2. inside'[Srv] \in {"none", "initAck"}
      BY <1>0, <2>7 DEF Server, LogInReqAwaitAck, InitAcked, InitBroken
    <3> QED BY <1>0, <2>2, <3>1, <3>2
  <2>8. ~Server(SrvCallOpen) /\ \A t : ~Asks(t)
    <3>1. Server(SrvCallOpen) => Posts(Srv, "Open")
      BY DEF Posts
    <3>2. ASSUME NEW t, Asks(t) PROVE Posts(Srv, t) /\ t \in SrvCalls
      BY <3>2 DEF Posts, Asks, SrvCalls
    <3> QED BY <1>2, <3>1, <3>2 DEF SrvCalls
  <2>9. CASE user'[Srv] = user[Srv]
    <3>1. /\ Common(OpenAnswered(Srv)) \/ Common(OpenTimeout(Srv)) \/ Common(OpenBroken(Srv))
               => inside'[Srv] = "none"
          /\ Server(LogInReqAwaitAck) \/ Server(InitAcked) \/ Server(InitBroken)
               => inside'[Srv] \in {"none", "initAck"}
          /\ Common(OnOpenReq(Srv)) => inside'[Srv] \in {inside[Srv], "passive"}
          /\ Common(OnPassiveOpen(Srv)) => inside'[Srv] = "none"
      BY <1>0 DEF Common, Server, OpenAnswered, OpenTimeout, OpenBroken, OnOpenReq,
         OnPassiveOpen, LogInReqAwaitAck, InitAcked, InitBroken
    <3>2. inside'[Srv] \in {inside[Srv], "none", "initAck", "passive"} \/ Common(Open(Srv))
      BY <1>0, <3>1, SidesDiffer, InsideWays
    <3> QED BY <2>2, <2>3, <2>9, <3>2
  <2> QED BY <1>0, <2>3, <2>4, <2>5, <2>6, <2>7, <2>8, <2>9, UserWays, SidesDiffer
<1> QED BY <1>1, <1>2

-----------------------------------------------------------------------------
(* The destructor, continued.                                               *)

\* Whoever is about to call is not in the destructor.
LEMMA UserEnds ==
  ASSUME TypeOK, Step, NEW s \in Sides
  PROVE  user'[s] \in {user[s], "idle"} \/ (Free(s) /\ dtor'[s] = dtor[s])
<1>0. user \in [Sides -> {"idle", "call"}] /\ dtor \in [Sides -> {"no", "begin", "greet",
         "quiet", "fin", "await", "flush", "stopping", "stopped"}]
  BY DEF TypeOK, BaseTypeOK, ThreadTypeOK, EndTypeOK
<1>1. CASE Common(Open(s)) \/ Common(OpenAnswered(s)) \/ Common(OpenBroken(s))
             \/ Common(OpenTimeout(s))
  BY <1>0, <1>1 DEF Common, Open, OpenAnswered, OpenBroken, OpenTimeout, Answer
<1>2. CASE s = Cli /\ \/ Client(ConnectRefused) \/ Client(ConnectFails)
                      \/ Client(LogInRspBad) \/ Client(InitOpenLast) \/ Client(OnDoneOk)
                      \/ Client(OnDoneToNull) \/ Client(CompleteOk) \/ Client(CompleteBad)
                      \/ Client(CliErrConnecting) \/ Client(CliToken)
  <2>1. \E r : Answer(Cli, r) \/ UNCHANGED user
    BY <1>2 DEF Client, ConnectRefused, ConnectFails, LogInRspBad, InitOpenLast, OnDoneOk,
       OnDoneToNull, CompleteOk, CompleteBad, CliErrConnecting, CliToken, ConnectBreaks,
       ConnectDone, ConnectPending, Connected
  <2> QED BY <1>0, <1>2, <2>1 DEF Answer
<1>3. CASE s = Srv /\ \/ Server(InitHandlersAgain) \/ Server(InitHandlersErr)
                      \/ Server(InitHandlersOk) \/ Server(SrvToken) \/ Server(SrvMdt)
  <2>1. \E r : Answer(Srv, r)
    BY <1>3 DEF Server, InitHandlersAgain, InitHandlersErr, InitHandlersOk, SrvToken, SrvMdt
  <2> QED BY <1>0, <1>3, <2>1 DEF Answer
<1>4. CASE \/ s = Cli /\ \/ Client(CallConnect) \/ Client(CliCallOpen)
                         \/ Common(Call(Cli, "Token"))
           \/ s = Srv /\ (Server(SrvCallOpen) \/ \E t : Asks(t))
  <2>1. \E t : Call(s, t)
    BY <1>4 DEF Client, Server, Common, CallConnect, CliCallOpen, CallOpen, SrvCallOpen, Asks,
       SrvCallMdt, SrvCallInitHandlers
  <2> QED BY <2>1 DEF Call, endVars
<1> QED BY <1>1, <1>2, <1>3, <1>4, UserWays

\* With W stopped for good nothing happens to it or to its channel.
LEMMA StoppedRests ==
  ASSUME AllInv, Step, NEW s \in Sides, dtor[s] = "stopped"
  PROVE  wq'[s] = <<>> /\ chan'[s] = "reset"
<1>0. /\ TypeOK /\ wq[s] = <<>> /\ chan[s] = "reset" /\ inside[s] = "none"
      /\ chan \in [Sides -> {"none", "up", "reset"}]
  BY DEF AllInv, Known, EndInv, DtorInOrder, TypeOK, BaseTypeOK, ChanTypeOK
<1>1. TypeOK'
  BY <1>0, NextKeepsType DEF Step
<1>2. /\ \A t : ~Ready(s, t) /\ ~Arrives(s, t) /\ ~Call(s, t)
      /\ ~Free(s) /\ ~MayFlush(s) /\ ~EndOfStream(s)
  BY <1>0 DEF Ready, Arrives, Call, Free, MayFlush, EndOfStream
<1>3. \A t \in TaskTypes : ~Posts(s, t)
  BY <1>0, <1>2 DEF Posts, Client, Server, Common, Asks, CallConnect, CliCallOpen, CallOpen,
     SubclassPosts, LogInRspOk, InitOpenLast, LogInRspAwaitInit, CompleteOk, SrvCallOpen,
     SrvCallMdt, SrvCallInitHandlers, InitHandlersErr, InitHandlersOk, InitBroken, Starts,
     DtorStart, DtorGreet, DtorGoOn, DeliverLogIn, DeliverOpenReq, DeliverFin, DetectError,
     OpenBroken
<1>4. NoneOf(wq'[s], TaskTypes)
  BY <1>0, <1>3, QueueStays, EmptyHas
<1>5. wq'[s] = <<>>
  <2>1. wq'[s] \in Seq(Item)
    BY <1>1 DEF TypeOK, BaseTypeOK, ThreadTypeOK
  <2>2. \A i \in 1..Len(wq'[s]) : wq'[s][i] \in Item
    BY <2>1
  <2>3. \A i \in 1..Len(wq'[s]) : wq'[s][i].type \in TaskTypes
    BY <2>2 DEF Item
  <2> QED BY <1>4, <2>1, <2>3 DEF NoneOf
<1>6. chan'[s] = "reset"
  BY <1>0, <1>2, ChanWays DEF Stops, Common, Client, Server, DtorStop, SrvDtorStop,
     LogInRspBad, OnDoneToNull, OnDoneReturns, CompleteBad, CliErrConnecting, AcceptFails,
     AcceptStarts, LogInReqRefused, LogInRspUnsent, LogInReqInitFails, InitBroken, SrvErrLogIn
<1> QED BY <1>5, <1>6

LEMMA DtorInOrderStays ==
  ASSUME AllInv, Step, NEW s \in Sides
  PROVE  DtorInOrder(s)'
<1>0. /\ TypeOK /\ DtorInOrder(s) /\ Vanilla /\ SrvOneCall
      /\ inside \in [Sides -> {"none", "open", "initAck", "onDone", "passive"}]
      /\ chan \in [Sides -> {"none", "up", "reset"}]
      /\ finisher \in [Sides -> {"none", "pending", "done"}]
      /\ dtor \in [Sides -> {"no", "begin", "greet", "quiet", "fin", "await",
                             "flush", "stopping", "stopped"}]
      /\ user[Cli] = "idle" => cstate # "CONNECTING"
  BY DEF AllInv, Known, CliInv, OneCall, EndInv, TypeOK, BaseTypeOK, ChanTypeOK, ThreadTypeOK,
     EndTypeOK
<1> DEFINE Over == {"quiet", "flush", "stopping", "stopped"}
<1>1. \/ dtor'[s] = dtor[s]
      \/ Starts(s) /\ dtor[s] = "no" /\ user[s] = "idle"
         /\ (dtor'[s] = "begin" \/ (dtor'[s] = "flush" /\ ~GracefulFinish))
      \/ Common(DtorBegin(s)) /\ dtor[s] = "begin"
         /\ (dtor'[s] = "greet" \/ (dtor'[s] = "quiet" /\ finisher[s] = "none"))
      \/ Common(DtorGreet(s)) /\ dtor[s] # "no" /\ dtor'[s] = "fin"
      \/ Common(DtorFin(s)) /\ dtor[s] # "no" /\ dtor'[s] = "await"
      \/ Common(DtorGoOn(s)) /\ dtor'[s] = "flush" /\ dtor[s] # "no"
         /\ (dtor[s] = "quiet" \/ finisher[s] = "done")
      \/ Common(DtorFlush(s)) /\ dtor[s] = "flush" /\ dtor'[s] = "stopping"
         /\ inside[s] = "none"
      \/ Stops(s) /\ dtor[s] = "stopping" /\ dtor'[s] = "stopped"
  <2>1. \A t : Ready(s, t) => Has(wq[s], t) /\ inside[s] = "none"
    BY <1>0, ReadyHas, OnTail
  <2>2. Ready(s, "DtorBegin") => dtor[s] = "begin"
    BY <1>0, <2>1 DEF DtorInOrder, DtorQueue
  <2>3. Ready(s, "DtorFin") => dtor[s] = "fin"
    BY <1>0, <2>1 DEF DtorInOrder, DtorQueue
  <2>4. Ready(s, "DtorFlush") => dtor[s] = "flush" /\ inside[s] = "none"
    BY <1>0, <2>1 DEF DtorInOrder, DtorQueue
  <2>5. CASE Starts(s)
    BY <1>0, <2>5 DEF Starts, Common, DtorStart, Free
  <2>6. CASE Common(DtorBegin(s))
    BY <1>0, <2>2, <2>6 DEF Common, DtorBegin
  <2>7. CASE Common(DtorGreet(s)) \/ Common(DtorGoOn(s))
    BY <1>0, <2>7 DEF Common, DtorGreet, DtorGoOn, MayFlush
  <2>8. CASE Common(DtorFin(s)) \/ Common(DtorFlush(s))
    BY <1>0, <2>3, <2>4, <2>8 DEF Common, DtorFin, DtorFlush
  <2>9. CASE Stops(s)
    BY <1>0, <2>9 DEF Stops, Common, Server, SrvDtorStop, DtorStop
  <2> QED BY <1>0, <2>5, <2>6, <2>7, <2>8, <2>9, DtorWays
<1>2. \/ dtor'[s] = dtor[s]
      \/ UNCHANGED <<finisher, inside, user>>
  BY <1>1 DEF Starts, Common, DtorStart, DtorBegin, DtorGreet, DtorFin, DtorGoOn, DtorFlush,
     Stops, Server, SrvDtorStop, DtorStop
<1>3. dtor'[s] \in {"stopping", "stopped"} => inside'[s] = "none"
  <2>1. CASE dtor'[s] = dtor[s]
    <3>1. \A t : dtor[s] = "stopped" => ~Ready(s, t)
      BY <1>0 DEF DtorInOrder, Ready
    <3>2. CASE Common(Open(s))
      BY <1>0, <2>1, <3>1, <3>2 DEF Common, Open, Send, DtorInOrder
    <3>3. CASE s = Srv /\ Server(LogInReqAwaitAck)
      BY <1>0, <2>1, <3>1, <3>3 DEF Server, LogInReqAwaitAck, Send, DtorInOrder
    <3>4. CASE \/ Common(OpenAnswered(s)) \/ Common(OpenTimeout(s)) \/ Common(OpenBroken(s))
               \/ s = Srv /\ (Server(InitAcked) \/ Server(InitBroken))
      BY <1>0, <3>4 DEF Common, Server, OpenAnswered, OpenTimeout, OpenBroken, InitAcked,
         InitBroken
    <3>5. CASE Common(OnOpenReq(s))
      BY <1>0, <2>1, <3>1, <3>5 DEF Common, OnOpenReq, Send, DtorInOrder
    <3>6. CASE \/ Common(OnPassiveOpen(s))
               \/ s = Cli /\ \/ Client(OnDoneOk) \/ Client(OnDoneToConnecting)
                             \/ Client(OnDoneToNull)
      BY <1>0, <3>6 DEF Common, Client, OnPassiveOpen, OnDoneOk, OnDoneToConnecting,
         OnDoneToNull, OnDoneReturns
    <3>7. CASE s = Cli /\ (Client(LogInRspOk) \/ Client(InitOpenLast))
      <4>1. Ready(Cli, "LogInRsp") \/ Ready(Cli, "InitOpen")
        BY <3>7 DEF Client, LogInRspOk, InitOpenLast
      <4>2. user[Cli] # "idle"
        BY <1>0, <4>1, LogInIsInOrder, LogInIsConnecting DEF AllInv, Known, Counted
      <4>3. dtor[s] = "no"
        BY <1>0, <3>7, <4>2 DEF DtorInOrder
      <4> QED BY <2>1, <4>3
    <3> QED BY <1>0, <2>1, <3>2, <3>3, <3>4, <3>5, <3>6, <3>7, InsideWays DEF DtorInOrder
  <2> QED BY <1>0, <1>1, <1>2, <2>1 DEF DtorInOrder
<1>4. dtor'[s] = "stopped" => wq'[s] = <<>> /\ chan'[s] = "reset"
  <2>1. Stops(s) => wq'[s] = <<>> /\ chan'[s] = "reset"
    BY <1>0 DEF Stops, Common, Server, SrvDtorStop, DtorStop, TypeOK, BaseTypeOK, ThreadTypeOK
  <2> QED BY <1>1, <2>1, StoppedRests
<1>5. dtor'[s] \in Over => finisher'[s] # "pending"
  <2>1. CASE dtor'[s] = dtor[s] /\ dtor[s] \in Over
    <3>1. user[s] = "idle" /\ finisher[s] # "pending"
      BY <1>0, <2>1 DEF DtorInOrder
    <3>2. s = Cli => ~Client(CompleteOk)
      BY <1>0, <3>1 DEF Client, CompleteOk, MayComplete
    <3>3. s = Srv => ~Server(InitHandlersOk)
      <4>1. Ready(Srv, "InitHandlers") => Has(wq[Srv], "InitHandlers")
        BY <1>0, ReadyHas, OnTail, SidesAreSides
      <4>2. s = Srv => ~Has(wq[Srv], "InitHandlers")
        BY <1>0, <3>1 DEF SrvOneCall, NoneOf, Has, SrvCalls
      <4> QED BY <4>1, <4>2 DEF Server, InitHandlersOk
    <3>4. CASE Common(OnFin(s)) \/ (s = Cli /\ Client(CliErrPeer))
                 \/ (s = Srv /\ Server(SrvErrPeer))
      BY <1>0, <3>1, <3>4 DEF Common, OnFin, Client, Server, CliErrPeer, SrvErrPeer
    <3> QED BY <1>0, <3>1, <3>2, <3>3, <3>4, FinisherWays
  <2>2. CASE dtor'[s] # dtor[s]
    BY <1>0, <1>1, <1>2, <2>2 DEF DtorInOrder, Vanilla
  <2> QED BY <2>1, <2>2
<1>6. dtor'[s] # "no" => user'[s] = "idle"
  <2>1. CASE dtor'[s] = dtor[s]
    BY <1>0, <2>1, UserEnds DEF DtorInOrder, Free
  <2>2. CASE dtor'[s] # dtor[s]
    BY <1>0, <1>1, <1>2, <2>2 DEF DtorInOrder
  <2> QED BY <2>1, <2>2
<1> QED BY <1>3, <1>4, <1>5, <1>6, DtorQueueStays DEF DtorInOrder

-----------------------------------------------------------------------------
(* What stays.                                                              *)

\* Messages arrive from the channel of s only while it is up and unbroken.
LEMMA ArrivesHas ==
  ASSUME TypeOK, NEW s \in Sides, NEW t, Arrives(s, t)
  PROVE  /\ Has(net[s], t) /\ net'[s] = Tail(net[s]) /\ chan[s] = "up" /\ ~chErr[s]
         /\ \A u : Has(net'[s], u) => Has(net[s], u)
         /\ Lone(net[s], t) => ~Has(net'[s], t)
<1>1. /\ net[s] \in Seq(Item) /\ net[s] # <<>> /\ Head(net[s]).type = t
      /\ net'[s] = Tail(net[s]) /\ chan[s] = "up" /\ ~chErr[s]
  BY DEF Arrives, TypeOK, BaseTypeOK, ChanTypeOK
<1> QED BY <1>1, OnTail

\* A task that W does not take stays until W is stopped.
LEMMA TaskStays ==
  ASSUME TypeOK, Step, NEW s \in Sides, NEW t, Has(wq[s], t), Head(wq[s]).type # t
  PROVE  Has(wq'[s], t) \/ Stops(s)
<1>0. wq \in [Sides -> Seq(Item)]
  BY DEF TypeOK, BaseTypeOK, ThreadTypeOK
<1>1. ASSUME NEW r \in Sides, Stops(r), wq' = [wq EXCEPT ![r] = <<>>]
      PROVE  Has(wq'[s], t) \/ Stops(s)
  <2>1. CASE r # s
    <3>1. wq'[s] = wq[s]
      BY <1>0, <1>1, <2>1
    <3> QED BY <3>1
  <2>2. CASE r = s
    BY <1>1, <2>2
  <2> QED BY <2>1, <2>2
<1>2. ASSUME NEW r \in Sides, NEW u, Ready(r, u), Done(r)
      PROVE  Has(wq'[s], t)
  <2>1. r # s => wq'[s] = wq[s]
    BY <1>0, <1>2 DEF Done
  <2>2. r = s => u # t /\ (Has(wq[s], t) /\ u # t => Has(wq'[s], t))
    BY <1>2, OnDone DEF Ready
  <2> QED BY <2>1, <2>2
<1>3. ASSUME NEW r \in Sides, NEW x \in Item, Post(r, x)
      PROVE  Has(wq'[s], t)
  <2>1. r # s => wq'[s] = wq[s]
    BY <1>0, <1>3 DEF Post
  <2> QED BY <1>3, <2>1, OnPost
<1>4. ASSUME NEW r \in Sides, NEW ms \in Seq(Item), NEW u, Ready(r, u), DoneThen(r, ms)
      PROVE  Has(wq'[s], t)
  <2>1. r # s => wq'[s] = wq[s]
    BY <1>0, <1>4 DEF DoneThen
  <2>2. r = s => u # t
    BY <1>4 DEF Ready
  <2>3. Has(wq[r], t) /\ u # t => Has(wq'[r], t)
    BY <1>4, OnDoneThen
  <2> QED BY <2>1, <2>2, <2>3
<1>5. ASSUME NEW r \in Sides, Common(OnPassiveOpen(r))
      PROVE  Has(wq'[s], t)
  <2>1. wq[r] # <<>> /\ wq[r] \in Seq(Item) /\ wq' = [wq EXCEPT ![r] = Tail(wq[r])]
    BY <1>0, <1>5 DEF Common, OnPassiveOpen, Giving, Done
  <2>2. r # s => wq'[s] = wq[s]
    BY <1>0, <2>1
  <2>3. r = s => Has(wq'[s], t)
    BY <1>0, <2>1, OnTail
  <2> QED BY <2>2, <2>3
<1> QED BY <1>1, <1>2, <1>3, <1>4, <1>5, StepWay DEF WqWay

\* W keeps what tells it of the channel's error until a handler takes it.
LEMMA ErrorStays ==
  ASSUME TypeOK, Step, NEW s \in Sides, NEW t \in {"Err", "PreInitErr"}, Has(wq[s], t)
  PROVE  \/ Has(wq'[s], t) \/ Stops(s)
         \/ s = Cli /\ \/ Client(CliErrStale) \/ Client(CliErrConnecting)
                       \/ Client(CliErrPeer)
         \/ s = Srv /\ \/ Server(SrvErrStale) \/ Server(SrvErrLogIn)
                       \/ Server(SrvErrAlmostPeer) \/ Server(SrvErrPeer)
                       \/ Server(EmitPreInitErr)
<1>1. wq[s] \in Seq(Item) /\ wq[s] # <<>>
  BY DEF Has, TypeOK, BaseTypeOK, ThreadTypeOK
<1>2. \A x : Has(Append(wq[s], x), t)
  BY <1>1, OnAppend
<1>3. CASE Head(wq[s]).type = t
  BY <1>1, <1>2, <1>3, HeadWays
<1>4. CASE Head(wq[s]).type # t
  BY <1>4, TaskStays
<1> QED BY <1>3, <1>4

\* Nothing takes back an error, a handler, a destructor or PEER state.
LEMMA Onward ==
  ASSUME AllInv, Step, NEW s \in Sides
  PROVE  /\ chErr[s] => chErr'[s]
         /\ hosed[s] => hosed'[s]
         /\ linkDown => linkDown'
         /\ handlers => handlers'
         /\ preInitErr => preInitErr'
         /\ cstate = "PEER" => cstate' = "PEER"
         /\ cstate = "NULL" => cstate' = "NULL"
         /\ dtor'[s] = "no" => dtor[s] = "no"
         /\ dtor[s] \in FinSent => dtor'[s] \in FinSent
         /\ dtor[s] = "stopped" => dtor'[s] = "stopped"
<1>0. /\ TypeOK /\ CliInv /\ LogInInv /\ chErr \in [Sides -> BOOLEAN]
      /\ hosed \in [Sides -> BOOLEAN] /\ linkDown \in BOOLEAN
      /\ handlers \in BOOLEAN /\ preInitErr \in BOOLEAN
      /\ dtor \in [Sides -> {"no", "begin", "greet", "quiet", "fin", "await",
                             "flush", "stopping", "stopped"}]
  BY DEF AllInv, Known, TypeOK, BaseTypeOK, ChanTypeOK, PeerTypeOK, EndTypeOK, SrvTypeOK
<1>1. chErr[s] => chErr'[s]
  BY <1>0, ChErrWays DEF Common, Client, Server, Open, OnOpenReq, DtorFin, DetectError,
     OpenBroken, InitOpenLast, LogInRspUnsent, LogInReqInitFails, InitBroken, Send
<1>2. hosed[s] => hosed'[s]
  BY <1>0, HosedWays DEF Common, Client, Server, Open, OnOpenReq, OnFin, OpenBroken,
     CliErrPeer, EmitPreInitErr, SrvErrPeer, HoseUnlessHosed, Hose
<1>3. linkDown => linkDown'
  BY <1>0, ConnWays
<1>4. handlers => handlers'
  BY <1>0, HandlersWays DEF Server, InitHandlersErr, InitHandlersOk
<1>5. preInitErr => preInitErr'
  BY <1>0, PreInitErrWays DEF Server, SrvErrAlmostPeer
<1>6. cstate = "PEER" => cstate' = "PEER"
  BY <1>0, NextPeerInv DEF PeerInv, Step
<1>7. cstate = "NULL" => cstate' = "NULL"
  <2>1. LogInOrder
    BY <1>0, LogInIsInOrder
  <2>2. Ready(Cli, "LogInRsp") \/ Ready(Cli, "InitOpen") => cstate = "CONNECTING"
    BY <1>0, <2>1, LogInIsConnecting
  <2>3. \/ Client(LogInRspBad) \/ Client(InitOpenLast) \/ Client(OnDoneOk)
        \/ Client(OnDoneToNull) \/ Client(CompleteOk) \/ Client(CompleteBad)
        \/ Client(CliErrConnecting)
        => cstate = "CONNECTING"
    BY <1>0, <2>2 DEF Client, LogInRspBad, InitOpenLast, OnDoneOk, OnDoneToNull,
       OnDoneReturns, CompleteOk, CompleteBad, CliErrConnecting, MayComplete, CliInv,
       PastLogIn
  <2> QED BY <1>0, <2>3, StateWays
<1>8. /\ dtor'[s] = "no" => dtor[s] = "no"
      /\ dtor[s] \in FinSent => dtor'[s] \in FinSent
      /\ dtor[s] = "stopped" => dtor'[s] = "stopped"
  <2>1. /\ Has(wq[s], "DtorBegin") => dtor[s] = "begin"
        /\ Has(wq[s], "DtorFin") => dtor[s] = "fin"
        /\ Has(wq[s], "DtorFlush") => dtor[s] = "flush"
    BY DEF AllInv, EndInv, DtorInOrder, DtorQueue
  <2>2. /\ Common(DtorBegin(s)) => dtor[s] = "begin" /\ dtor'[s] # "no"
        /\ Common(DtorFin(s)) => dtor[s] = "fin" /\ dtor'[s] = "await"
        /\ Common(DtorFlush(s)) => dtor[s] = "flush" /\ dtor'[s] = "stopping"
    <3>1. \A t : Ready(s, t) => Has(wq[s], t)
      BY <1>0, ReadyHas
    <3> QED BY <1>0, <2>1, <3>1 DEF Common, DtorBegin, DtorFin, DtorFlush
  <2>3. /\ Starts(s) => dtor[s] = "no" /\ dtor'[s] # "no"
        /\ Common(DtorGreet(s)) => dtor[s] = "greet" /\ dtor'[s] = "fin"
        /\ Common(DtorGoOn(s)) => dtor[s] \in {"quiet", "await"} /\ dtor'[s] = "flush"
        /\ Stops(s) => dtor[s] = "stopping" /\ dtor'[s] = "stopped"
    BY <1>0 DEF Starts, Common, Server, DtorStart, Free, DtorGreet, DtorGoOn, MayFlush, Stops,
       SrvDtorStop, DtorStop
  <2> QED BY <1>0, <2>2, <2>3, DtorWays DEF FinSent
<1> QED BY <1>1, <1>2, <1>3, <1>4, <1>5, <1>6, <1>7, <1>8

LEMMA LogInWaysStay ==
  ASSUME AllInv, Step
  PROVE  LogInWays'
<1>0. /\ TypeOK /\ LogInWays /\ Cli \in Sides /\ Srv \in Sides /\ Cli # Srv
      /\ {"LogInReq", "LogInRsp", "InitOpen"} \subseteq TaskTypes
      /\ expects \in [Sides -> {"none", "InitOpen", "OpenReq"}]
  BY SidesAreSides, SidesDiffer DEF AllInv, Known, EndInv, TaskTypes, MsgTypes, TypeOK,
     BaseTypeOK, ChanTypeOK
<1>1. ~Sends(Cli, "LogInReq") /\ ~Sends(Srv, "LogInRsp")
  BY <1>0 DEF Sends
<1>2. ~Posts(Cli, "LogInReq") /\ ~Posts(Srv, "LogInRsp")
  <2>1. \A s \in Sides, t \in {"LogInReq", "LogInRsp"} : Posts(s, t) => Arrives(s, t)
    BY <1>0 DEF Posts, Asks
  <2> QED BY <1>0, <2>1, ArrivesHas DEF LogInWays
<1>3. ~Posts(Srv, "InitOpen")
  BY <1>0 DEF Posts, Asks, LogInWays
<1>4. expects'[Srv] # "InitOpen"
  BY <1>0, ExpectsWays DEF LogInWays, Server, InitHandlersOk
<1> QED BY <1>0, <1>1, <1>2, <1>3, <1>4, QueueStays DEF LogInWays

LEMMA VanillaStays ==
  ASSUME AllInv, Step
  PROVE  Vanilla'
<1> SUFFICES ASSUME ~GracefulFinish
             PROVE  /\ \A s \in Sides : finisher'[s] = "none"
                    /\ subclass' = "idle" /\ ~Has(wq'[Cli], "Complete")
  BY DEF Vanilla
<1>0. /\ TypeOK /\ Cli \in Sides /\ Srv \in Sides /\ Cli # Srv
      /\ \A s \in Sides : finisher[s] = "none" /\ (Has(wq[s], "Fin") => finisher[s] = "pending")
      /\ subclass = "idle" /\ ~Has(wq[Cli], "Complete") /\ "Complete" \in TaskTypes
      /\ expects \in [Sides -> {"none", "InitOpen", "OpenReq"}]
      /\ \A s \in Sides : \A t : Ready(s, t) => Has(wq[s], t)
  BY SidesAreSides, SidesDiffer, ReadyHas DEF AllInv, Known, EndInv, Vanilla, FinOnce,
     TaskTypes, TypeOK, BaseTypeOK, ChanTypeOK
<1>1. ~Client(CompleteOk) /\ \A s \in Sides : ~Common(OnFin(s))
  BY <1>0 DEF Client, Common, CompleteOk, OnFin
<1>2. ASSUME NEW s \in Sides PROVE finisher'[s] = "none"
  <2>1. Client(CliErrPeer) \/ Server(SrvErrPeer) \/ Server(InitHandlersOk)
          => UNCHANGED finisher
    BY DEF Client, Server, CliErrPeer, SrvErrPeer, InitHandlersOk
  <2> QED BY <1>0, <1>1, <2>1, FinisherWays
<1>3. subclass' = "idle"
  <2>1. CliSteps => subclass' \in {subclass, "idle"} \/ GracefulFinish \/ subclass = "busy"
    BY DEF CliSteps, Client, ConnectRefused, ConnectFails, LogInRspBad, LogInRspOk,
       LogInRspAwaitInit, InitOpenMore, InitOpenTooLate, InitOpenLast, OnDoneOk,
       OnDoneToConnecting, OnDoneToNull, CompleteOk, CompleteBad, CompleteTooLate,
       CliErrStale, CliErrConnecting, CliErrPeer, CliToken, SubclassPosts, CallConnect,
       CliCallOpen, ConnectBreaks, CallOpen, Call, Common, Connected, cliVars
  <2>2. ~CliSteps => subclass' = subclass
    <3>1. SrvSteps => UNCHANGED subclass
      BY DEF SrvSteps, Server, Asks, Common, SrvCallMdt, SrvCallInitHandlers, cliVars
    <3>2. \A s \in Sides : SideSteps(s) => UNCHANGED subclass
      BY DEF SideSteps, Common, Starts, Stops, Server, cliVars
    <3> QED BY <3>1, <3>2, StepSteps DEF Common, vars, cliVars
  <2> QED BY <1>0, <2>1, <2>2
<1>4. ~Posts(Cli, "Complete")
  BY <1>0 DEF Posts, Asks, Client, SubclassPosts
<1> QED BY <1>0, <1>2, <1>3, <1>4, QueueStays

-----------------------------------------------------------------------------
(* The log-in on the server.                                                *)

\* Before there is a session nothing happens to it.
LEMMA NoSessionRests ==
  ASSUME AllInv, Step, login = "none"
  PROVE  /\ login' = "none" /\ wq'[Srv] = <<>> /\ inside'[Srv] = "none"
         /\ chan'[Srv] = "none" /\ dtor'[Srv] = "no"
<1>0. /\ TypeOK /\ Srv \in Sides /\ Srv # Cli
      /\ wq[Srv] = <<>> /\ inside[Srv] = "none" /\ chan[Srv] = "none" /\ dtor[Srv] = "no"
      /\ mdt = "none"
  BY SidesAreSides, SidesDiffer DEF AllInv, Known, EndInv, SrvLogIn, SrvInPeer
<1>1. TypeOK'
  BY <1>0, NextKeepsType DEF Step
<1>2. /\ \A t : ~Ready(Srv, t) /\ ~Arrives(Srv, t) /\ ~Asks(t)
      /\ ~MayFlush(Srv) /\ ~EndOfStream(Srv) /\ ~Starts(Srv)
      /\ ~Server(SrvCallOpen)
  BY <1>0 DEF Ready, Arrives, MayFlush, EndOfStream, Asks, Starts, Server, SrvCallMdt,
     SrvCallInitHandlers, SrvCallOpen
<1>3. \A t \in TaskTypes : ~Posts(Srv, t)
  BY <1>0, <1>2 DEF Posts, Client, Server, Common, InitHandlersErr, InitHandlersOk, InitBroken,
     DtorGreet, DtorGoOn, DeliverLogIn, DeliverOpenReq, DeliverFin, DetectError, OpenBroken
<1>4. wq'[Srv] = <<>>
  <2>1. wq'[Srv] \in Seq(Item) /\ NoneOf(wq'[Srv], TaskTypes)
    BY <1>0, <1>1, <1>3, QueueStays, EmptyHas DEF TypeOK, BaseTypeOK, ThreadTypeOK
  <2>2. \A i \in 1..Len(wq'[Srv]) : wq'[Srv][i] \in Item
    BY <2>1
  <2>3. \A i \in 1..Len(wq'[Srv]) : wq'[Srv][i].type \in TaskTypes
    BY <2>2 DEF Item
  <2> QED BY <2>1, <2>3 DEF NoneOf
<1>5. chan'[Srv] = "none"
  BY <1>0, <1>2, ChanWays DEF Stops, Server, DtorStop, SrvDtorStop, AcceptFails, AcceptStarts,
     LogInReqRefused, LogInRspUnsent, LogInReqInitFails, InitBroken, SrvErrLogIn
<1>6. dtor'[Srv] = "no"
  BY <1>0, <1>2, DtorWays DEF Stops, Common, Server, DtorStop, SrvDtorStop, DtorBegin,
     DtorGreet, DtorFin, DtorGoOn, DtorFlush
<1>7. inside'[Srv] = "none"
  BY <1>0, <1>2, InsideWays DEF Common, Server, Open, OnOpenReq, OnPassiveOpen, Giving,
     OpenAnswered, OpenTimeout, OpenBroken, LogInReqAwaitAck, InitAcked, InitBroken
<1>8. login' = "none"
  <2>1. \A s \in Sides : Stops(s) => login' = login
    BY <1>0 DEF Stops, Common, Server, SrvDtorStop, DtorStop, srvVars
  <2> QED BY <1>0, <1>2, <2>1, LoginWays DEF Server, AcceptFails, LogInReqRefused,
          LogInRspUnsent, LogInReqOk, LogInReqInitFails, InitAcked, InitBroken, SrvErrLogIn
<1> QED BY <1>4, <1>5, <1>6, <1>7, <1>8

\* The tasks and the waits of the log-in find it going on.
LogInReqSteps ==
  \/ Server(LogInReqRefused) \/ Server(LogInRspUnsent) \/ Server(LogInReqOk)
  \/ Server(LogInReqAwaitAck) \/ Server(LogInReqInitFails)

LEMMA LogInIsOn ==
  ASSUME AllInv, Step
  PROVE  /\ Server(AcceptFails) \/ Server(AcceptStarts) =>
              /\ login = "outstanding" /\ chan[Srv] = "none" /\ inside[Srv] = "none"
              /\ ~Has(wq'[Srv], "LogInReq") /\ ~Has(wq'[Srv], "AcceptLogIn")
         /\ LogInReqSteps =>
              /\ login = "outstanding" /\ chan[Srv] = "up" /\ inside[Srv] = "none"
              /\ ~Has(net[Srv], "LogInReq")
              /\ ~Has(wq'[Srv], "LogInReq") /\ ~Has(wq'[Srv], "AcceptLogIn")
         /\ Server(InitAcked) \/ Server(InitBroken) =>
              /\ login = "outstanding" /\ chan[Srv] = "up" /\ inside[Srv] = "initAck"
              /\ ~Requested /\ ~Has(wq[Srv], "AcceptLogIn")
         /\ Server(SrvErrLogIn) =>
              /\ login = "outstanding" /\ chan[Srv] = "up" /\ inside[Srv] = "none"
              /\ ~Has(wq'[Srv], "LogInReq") /\ ~Has(wq'[Srv], "AcceptLogIn")
<1>0. /\ TypeOK /\ Srv \in Sides /\ SrvLogIn /\ OneLogIn
      /\ Has(wq[Srv], "LogInReq") => ~Has(net[Srv], "LogInReq")
  BY SidesAreSides DEF AllInv, Known, EndInv, LogInInv, OneLogIn
<1>1. CASE Server(AcceptFails) \/ Server(AcceptStarts)
  <2>1. Ready(Srv, "AcceptLogIn") /\ Done(Srv)
    BY <1>1 DEF Server, AcceptFails, AcceptStarts
  <2>2. /\ Has(wq[Srv], "AcceptLogIn") /\ inside[Srv] = "none"
        /\ ~Has(wq'[Srv], "AcceptLogIn")
        /\ \A u : Has(wq'[Srv], u) => Has(wq[Srv], u)
    BY <1>0, <2>1, OnDone DEF SrvLogIn
  <2>3. login = "outstanding" /\ chan[Srv] = "none" /\ ~Has(wq[Srv], "LogInReq")
    BY <1>0, <2>2 DEF SrvLogIn
  <2>4. ~LogInReqSteps /\ ~Server(InitAcked) /\ ~Server(InitBroken) /\ ~Server(SrvErrLogIn)
    BY <2>1, <2>2, <2>3 DEF LogInReqSteps, Server, LogInReqRefused, LogInRspUnsent, LogInReqOk,
       LogInReqAwaitAck, LogInReqInitFails, InitAcked, InitBroken, SrvErrLogIn, Ready
  <2> QED BY <2>2, <2>3, <2>4
<1>2. CASE LogInReqSteps
  <2>1. Ready(Srv, "LogInReq") /\ Done(Srv)
    BY <1>2 DEF LogInReqSteps, Server, LogInReqRefused, LogInRspUnsent, LogInReqOk,
       LogInReqAwaitAck, LogInReqInitFails
  <2>2. /\ Has(wq[Srv], "LogInReq") /\ inside[Srv] = "none"
        /\ ~Has(wq'[Srv], "LogInReq")
        /\ \A u : Has(wq'[Srv], u) => Has(wq[Srv], u)
    BY <1>0, <2>1, OnDone DEF OneLogIn
  <2>3. login = "outstanding" /\ chan[Srv] = "up" /\ ~Has(wq[Srv], "AcceptLogIn")
    BY <1>0, <2>2 DEF SrvLogIn, Requested
  <2>4. ~Server(AcceptFails) /\ ~Server(AcceptStarts) /\ ~Server(InitAcked)
        /\ ~Server(InitBroken) /\ ~Server(SrvErrLogIn)
    BY <2>1, <2>2 DEF Server, AcceptFails, AcceptStarts, InitAcked, InitBroken, SrvErrLogIn,
       Ready
  <2> QED BY <1>0, <2>2, <2>3, <2>4
<1>3. CASE Server(InitAcked) \/ Server(InitBroken)
  <2>1. inside[Srv] = "initAck"
    BY <1>3 DEF Server, InitAcked, InitBroken
  <2>2. /\ login = "outstanding" /\ chan[Srv] = "up" /\ ~Requested
        /\ ~Has(wq[Srv], "AcceptLogIn")
    BY <1>0, <2>1 DEF SrvLogIn
  <2>3. \A t : ~Ready(Srv, t)
    BY <2>1 DEF Ready
  <2>4. ~Server(AcceptFails) /\ ~Server(AcceptStarts) /\ ~LogInReqSteps /\ ~Server(SrvErrLogIn)
    BY <2>3 DEF LogInReqSteps, Server, LogInReqRefused, LogInRspUnsent, LogInReqOk,
       LogInReqAwaitAck, LogInReqInitFails, AcceptFails, AcceptStarts, SrvErrLogIn
  <2> QED BY <2>1, <2>2, <2>4
<1>4. CASE Server(SrvErrLogIn)
  <2>1. /\ Ready(Srv, "Err") /\ Done(Srv) /\ login = "outstanding" /\ chan[Srv] = "up"
    BY <1>4 DEF Server, SrvErrLogIn
  <2>2. /\ inside[Srv] = "none" /\ ~Has(wq[Srv], "LogInReq")
        /\ \A u : Has(wq'[Srv], u) => Has(wq[Srv], u)
    BY <1>0, <2>1, OnDone DEF SrvLogIn
  <2>3. ~Has(wq[Srv], "AcceptLogIn")
    BY <1>0, <2>1 DEF SrvLogIn
  <2>4. ~Server(AcceptFails) /\ ~Server(AcceptStarts) /\ ~LogInReqSteps
        /\ ~Server(InitAcked) /\ ~Server(InitBroken)
    BY <2>1, <2>2 DEF LogInReqSteps, Server, LogInReqRefused, LogInRspUnsent, LogInReqOk,
       LogInReqAwaitAck, LogInReqInitFails, AcceptFails, AcceptStarts, InitAcked, InitBroken,
       Ready
  <2> QED BY <2>1, <2>2, <2>3, <2>4
<1> QED BY <1>1, <1>2, <1>3, <1>4

\* What a step does to it: nothing; W is stopped; the channel starts; the log-in
\* goes on or is over, the request being handled.
LogInCalm ==
  /\ login' = login /\ chan'[Srv] = chan[Srv]
  /\ inside'[Srv] = "initAck" => inside[Srv] = "initAck"
SrvIsStopped ==
  /\ wq'[Srv] = <<>> /\ net'[Srv] = <<>> /\ inside'[Srv] = "none" /\ dtor'[Srv] = "stopped"
  /\ login' \in {login, "aborted"} /\ (login = "ok" => login' = "ok")
  /\ login # "none"
ChannelStarts ==
  /\ login = "outstanding" /\ login' = "outstanding" /\ chan'[Srv] = "up"
  /\ inside'[Srv] = "none" /\ ~Has(wq'[Srv], "AcceptLogIn")
LogInMoves ==
  /\ login = "outstanding" /\ login' \in {"outstanding", "ok", "failed"}
  /\ chan'[Srv] = IF login' = "failed" THEN "reset" ELSE "up"
  /\ ~Has(wq'[Srv], "LogInReq") /\ ~Has(net'[Srv], "LogInReq")
  /\ ~Has(wq'[Srv], "AcceptLogIn")
  /\ inside'[Srv] = "initAck" => login' = "outstanding"

LEMMA LogInChanges ==
  ASSUME AllInv, Step
  PROVE  LogInCalm \/ SrvIsStopped \/ ChannelStarts \/ LogInMoves
<1>0. /\ TypeOK /\ Cli \in Sides /\ Srv \in Sides /\ Cli # Srv
      /\ Peer(Srv) = Cli
      /\ chan \in [Sides -> {"none", "up", "reset"}] /\ net \in [Sides -> Seq(Item)]
      /\ wq \in [Sides -> Seq(Item)]
      /\ inside \in [Sides -> {"none", "open", "initAck", "onDone", "passive"}]
      /\ dtor \in [Sides -> {"no", "begin", "greet", "quiet", "fin", "await",
                             "flush", "stopping", "stopped"}]
      /\ \A t : ~Has(<<>>, t)
      /\ ~Has(wq[Srv], "LogInReq") => ~Requested \/ Has(net[Srv], "LogInReq")
  BY PeerOfPeer, EmptyHas DEF Sides, AllInv, Known, TypeOK, BaseTypeOK, ChanTypeOK,
     ThreadTypeOK, EndTypeOK, Requested
<1>1. CASE Stops(Srv)
  <2>1. inside[Srv] = "none" /\ login # "none"
    BY <1>0, <1>1, SidesDiffer DEF Stops, Server, SrvDtorStop, DtorStop, AllInv, EndInv,
       DtorInOrder, SrvLogIn
  <2>2. SrvIsStopped
    BY <1>0, <1>1, <2>1 DEF Stops, Server, SrvDtorStop, DtorStop, SrvIsStopped
  <2> QED BY <2>2
<1>2. CASE Server(AcceptStarts)
  <2>1. ChannelStarts
    BY <1>0, <1>2, LogInIsOn DEF Server, AcceptStarts, srvVars, ChannelStarts
  <2> QED BY <2>1
<1>3. CASE Server(AcceptFails) \/ Server(LogInReqRefused) \/ Server(LogInReqInitFails)
           \/ Server(SrvErrLogIn)
  <2>1. /\ login' = "failed" /\ chan'[Srv] = "reset" /\ net'[Srv] = <<>>
        /\ inside' = inside
    BY <1>0, <1>3 DEF Server, AcceptFails, LogInReqRefused, LogInReqInitFails, SrvErrLogIn,
       LogInFails
  <2>2. /\ login = "outstanding" /\ inside[Srv] = "none"
        /\ ~Has(wq'[Srv], "LogInReq") /\ ~Has(wq'[Srv], "AcceptLogIn")
    BY <1>3, LogInIsOn DEF LogInReqSteps
  <2>3. LogInMoves
    BY <1>0, <2>1, <2>2 DEF LogInMoves
  <2> QED BY <2>3
<1>4. CASE Server(LogInRspUnsent)
  <2>1. /\ \/ login' = login /\ chan' = chan
           \/ login' = "failed" /\ chan'[Srv] = "reset" /\ net'[Srv] = <<>>
        /\ inside' = inside
    BY <1>0, <1>4 DEF Server, LogInRspUnsent, LogInFails
  <2>2. /\ login = "outstanding" /\ inside[Srv] = "none"
        /\ ~Has(wq'[Srv], "LogInReq") /\ ~Has(wq'[Srv], "AcceptLogIn")
    BY <1>4, LogInIsOn DEF LogInReqSteps
  <2> QED BY <1>0, <2>1, <2>2 DEF LogInMoves, LogInCalm
<1>5. CASE Server(LogInReqOk) \/ Server(LogInReqAwaitAck)
  <2>1. /\ chan' = chan /\ net'[Srv] = net[Srv]
        /\ \/ login' = "ok" /\ inside' = inside
           \/ login' = login
    BY <1>0, <1>5 DEF Server, LogInReqOk, LogInReqAwaitAck, Send, srvVars
  <2>2. /\ login = "outstanding" /\ chan[Srv] = "up" /\ inside[Srv] = "none"
        /\ ~Has(net[Srv], "LogInReq")
        /\ ~Has(wq'[Srv], "LogInReq") /\ ~Has(wq'[Srv], "AcceptLogIn")
    BY <1>5, LogInIsOn DEF LogInReqSteps
  <2>3. LogInMoves
    BY <1>0, <2>1, <2>2 DEF LogInMoves
  <2> QED BY <2>3
<1>6. CASE Server(InitAcked)
  <2>1. /\ chan' = chan /\ wq' = wq /\ login' = "ok" /\ inside'[Srv] = "none"
        /\ Arrives(Srv, "OpenRsp")
    BY <1>0, <1>6 DEF Server, InitAcked
  <2>2. /\ login = "outstanding" /\ chan[Srv] = "up" /\ ~Requested
        /\ ~Has(wq[Srv], "AcceptLogIn")
    BY <1>6, LogInIsOn
  <2>3. ~Has(net'[Srv], "LogInReq")
    BY <1>0, <2>1, <2>2, ArrivesHas DEF Requested
  <2>4. LogInMoves
    BY <1>0, <2>1, <2>2, <2>3 DEF LogInMoves, Requested
  <2> QED BY <2>4
<1>7. CASE Server(InitBroken)
  <2>1. /\ \/ login' = login /\ chan' = chan
           \/ login' = "failed" /\ chan'[Srv] = "reset" /\ net'[Srv] = <<>> /\ wq' = wq
        /\ inside'[Srv] = "none"
    BY <1>0, <1>7 DEF Server, InitBroken, LogInFails
  <2>2. login = "outstanding" /\ ~Requested /\ ~Has(wq[Srv], "AcceptLogIn")
    BY <1>7, LogInIsOn
  <2> QED BY <1>0, <2>1, <2>2 DEF LogInMoves, LogInCalm, Requested
<1>8. CASE /\ ~Stops(Srv) /\ ~Server(AcceptStarts) /\ ~Server(AcceptFails)
           /\ ~Server(LogInReqRefused) /\ ~Server(LogInReqInitFails) /\ ~Server(SrvErrLogIn)
           /\ ~Server(LogInRspUnsent) /\ ~Server(LogInReqOk) /\ ~Server(LogInReqAwaitAck)
           /\ ~Server(InitAcked) /\ ~Server(InitBroken)
  <2>1. chan'[Srv] = chan[Srv]
    BY <1>0, <1>8, ChanWays
  <2>2. login' = login
    <3>1. Stops(Cli) => login' = login
      BY <1>0 DEF Stops, Common, srvVars
    <3>2. \A s \in Sides : Stops(s) => s = Cli
      BY <1>0, <1>8 DEF Stops
    <3> QED BY <1>0, <1>8, <3>1, <3>2, LoginWays
  <2>3. inside'[Srv] = "initAck" => inside[Srv] = "initAck"
    BY <1>0, <1>8, InsideWays DEF Common, Open, OnOpenReq, OnPassiveOpen, OpenAnswered,
       OpenTimeout, OpenBroken
  <2> QED BY <2>1, <2>2, <2>3 DEF LogInCalm
<1> QED BY <1>1, <1>2, <1>3, <1>4, <1>5, <1>6, <1>7, <1>8

LEMMA SrvLogInStays ==
  ASSUME AllInv, Step
  PROVE  SrvLogIn'
<1>0. /\ TypeOK /\ Srv \in Sides /\ Srv # Cli /\ SrvLogIn /\ OneLogIn /\ ErrReason(Srv)
      /\ {"AcceptLogIn", "LogInReq", "InitHandlers", "Err"} \subseteq TaskTypes
      /\ expects \in [Sides -> {"none", "InitOpen", "OpenReq"}]
      /\ wq \in [Sides -> Seq(Item)]
      /\ login \in {"none", "outstanding", "ok", "failed", "aborted"}
      /\ \A t : ~Has(<<>>, t)
  BY SidesAreSides, SidesDiffer, EmptyHas DEF AllInv, Known, EndInv, LogInInv, TaskTypes,
     MsgTypes, TypeOK, BaseTypeOK, ChanTypeOK, ThreadTypeOK, SrvTypeOK
<1>1. conn' = conn
  BY ConnWays
<1>2. login' = "none" => login = "none"
  BY LogInChanges DEF LogInCalm, SrvIsStopped, ChannelStarts, LogInMoves
<1>3. Has(wq'[Srv], "AcceptLogIn") => Has(wq[Srv], "AcceptLogIn")
  <2>1. ~Posts(Srv, "AcceptLogIn")
    BY <1>0 DEF Posts, Asks
  <2> QED BY <1>0, <2>1, QueueStays
<1>4. Lone(wq'[Srv], "AcceptLogIn")
  <2>1. ~Posts(Srv, "AcceptLogIn")
    BY <1>0 DEF Posts, Asks
  <2> QED BY <1>0, <2>1, QueueStays DEF SrvLogIn
<1>5. Posts(Srv, "LogInReq") =>
        /\ Arrives(Srv, "LogInReq") /\ Common(DeliverLogIn(Srv))
  BY <1>0 DEF Posts, Asks
<1>6. Posts(Srv, "LogInReq") =>
        Has(net[Srv], "LogInReq") /\ chan[Srv] = "up" /\ ~chErr[Srv] /\ chan'[Srv] = "up"
  <2>1. Common(DeliverLogIn(Srv)) => chan' = chan
    BY DEF Common, DeliverLogIn
  <2> QED BY <1>0, <1>5, <2>1, ArrivesHas
<1>7. Has(wq'[Srv], "LogInReq") => Has(wq[Srv], "LogInReq") \/ Posts(Srv, "LogInReq")
  BY <1>0, QueueStays
<1>8. Requested' => Requested
  <2>1. ~Sends(Srv, "LogInReq")
    BY <1>0 DEF Sends
  <2>2. Has(net'[Srv], "LogInReq") => Has(net[Srv], "LogInReq")
    BY <1>0, <2>1, QueueStays
  <2> QED BY <1>6, <1>7, <2>2 DEF Requested
<1>9. Before(wq'[Srv], "LogInReq", "Err")
  <2>1. CASE Posts(Srv, "LogInReq")
    <3>1. ~Has(wq[Srv], "Err")
      BY <1>0, <1>6, <2>1 DEF ErrReason
    <3>2. Post(Srv, Head(net[Srv])) /\ Head(net[Srv]).type = "LogInReq"
      BY <1>5, <2>1 DEF Common, DeliverLogIn, Arrives
    <3> QED BY <1>0, <3>1, <3>2, OnPost DEF SrvLogIn
  <2>2. CASE ~Posts(Srv, "LogInReq")
    BY <1>0, <2>2, QueueStays DEF SrvLogIn
  <2> QED BY <2>1, <2>2
<1>10. Has(wq'[Srv], "InitHandlers") \/ handlers' => login = "ok"
  <2>1. Posts(Srv, "InitHandlers") => login = "ok"
    BY <1>0 DEF Posts, Asks, Server, SrvCallInitHandlers
  <2>2. Has(wq'[Srv], "InitHandlers") => login = "ok"
    BY <1>0, <2>1, QueueStays DEF SrvLogIn
  <2>3. Server(InitHandlersErr) \/ Server(InitHandlersOk) => Has(wq[Srv], "InitHandlers")
    BY <1>0, ReadyHas DEF Server, InitHandlersErr, InitHandlersOk
  <2> QED BY <1>0, <2>2, <2>3, HandlersWays DEF SrvLogIn
<1>11. /\ conn' = 0 => login' = "none"
       /\ login' = "none" => /\ wq'[Srv] = <<>> /\ inside'[Srv] = "none"
                             /\ chan'[Srv] = "none" /\ dtor'[Srv] = "no"
  BY <1>0, <1>1, <1>2, NoSessionRests DEF SrvLogIn
<1>12. dtor[Srv] = "stopped" => dtor'[Srv] = "stopped"
  BY <1>0, Onward
<1>13. CASE LogInCalm
  BY <1>0, <1>3, <1>4, <1>6, <1>7, <1>8, <1>9, <1>10, <1>11, <1>12, <1>13
     DEF SrvLogIn, LogInCalm
<1>14. CASE SrvIsStopped
  <2>1. ~Requested'
    BY <1>0, <1>14 DEF SrvIsStopped, Requested
  <2> QED BY <1>0, <1>4, <1>9, <1>10, <1>11, <1>14, <2>1 DEF SrvLogIn, SrvIsStopped
<1>15. CASE ChannelStarts
  BY <1>0, <1>4, <1>9, <1>10, <1>11, <1>15 DEF SrvLogIn, ChannelStarts
<1>16. CASE LogInMoves
  <2>1. ~Requested'
    BY <1>16 DEF LogInMoves, Requested
  <2> QED BY <1>0, <1>4, <1>9, <1>10, <1>11, <1>16, <2>1 DEF SrvLogIn, LogInMoves
<1> QED BY <1>13, <1>14, <1>15, <1>16, LogInChanges

-----------------------------------------------------------------------------
(* What is done in PEER state only.                                         *)

LEMMA NotStartedStays ==
  ASSUME AllInv, Step
  PROVE  NotStarted'
<1> SUFFICES ASSUME chan'[Srv] = "none", dtor'[Srv] = "no" PROVE ~chErr'[Srv]
  BY DEF NotStarted
<1>0. /\ TypeOK /\ Srv \in Sides /\ Srv # Cli /\ NotStarted /\ SrvInPeer /\ SrvLogIn
      /\ DtorQueue(Srv)
      /\ chan \in [Sides -> {"none", "up", "reset"}]
      /\ \A t : Ready(Srv, t) => Has(wq[Srv], t)
  BY SidesAreSides, SidesDiffer, ReadyHas DEF AllInv, Known, EndInv, DtorInOrder, TypeOK,
     BaseTypeOK, ChanTypeOK
<1>1. dtor[Srv] = "no"
  BY <1>0, Onward
<1>2. chan[Srv] = "none"
  <2>1. Stops(Srv) => chan'[Srv] = "reset"
    BY <1>0 DEF Stops, Server, SrvDtorStop, DtorStop
  <2>2. \/ Server(AcceptFails) \/ Server(AcceptStarts) \/ Server(LogInReqRefused)
        \/ Server(LogInReqInitFails) \/ Server(SrvErrLogIn)
        => chan'[Srv] \in {"up", "reset"}
    BY <1>0 DEF Server, AcceptFails, AcceptStarts, LogInReqRefused, LogInReqInitFails,
       SrvErrLogIn, LogInFails
  <2>3. Server(LogInRspUnsent) \/ Server(InitBroken) =>
          chan'[Srv] = "reset" \/ chan' = chan
    BY <1>0 DEF Server, LogInRspUnsent, InitBroken, LogInFails
  <2> QED BY <1>0, <2>1, <2>2, <2>3, ChanWays
<1>3. ~chErr[Srv] /\ ~handlers
  BY <1>0, <1>1, <1>2 DEF NotStarted, SrvLogIn
<1>4. ~Common(Open(Srv)) /\ ~Common(OnOpenReq(Srv)) /\ ~Common(DtorFin(Srv))
  BY <1>0, <1>1, <1>3 DEF Common, Open, OnOpenReq, DtorFin, SrvInPeer, DtorQueue
<1>5. ~Common(DetectError(Srv)) /\ ~Common(OpenBroken(Srv)) /\ ~Server(InitBroken)
  BY <1>2 DEF Common, Server, DetectError, OpenBroken, InitBroken, EndOfStream
<1>6. ~Server(LogInRspUnsent) /\ ~Server(LogInReqInitFails)
  BY <1>2, LogInIsOn DEF LogInReqSteps
<1> QED BY <1>0, <1>3, <1>4, <1>5, <1>6, ChErrWays

LEMMA SrvInPeerStays ==
  ASSUME AllInv, Step
  PROVE  SrvInPeer'
<1>0. /\ TypeOK /\ Srv \in Sides /\ Srv # Cli /\ SrvInPeer
      /\ {"PreInitErr", "OpenReq", "Open"} \subseteq TaskTypes
      /\ Has(wq[Srv], "Fin") => finisher[Srv] = "pending"
      /\ \A t : Ready(Srv, t) => Has(wq[Srv], t)
      /\ expects \in [Sides -> {"none", "InitOpen", "OpenReq"}]
      /\ inside \in [Sides -> {"none", "open", "initAck", "onDone", "passive"}]
      /\ hosed \in [Sides -> BOOLEAN] /\ handlers \in BOOLEAN
  BY SidesAreSides, SidesDiffer, ReadyHas DEF AllInv, Known, EndInv, FinOnce, TaskTypes,
     MsgTypes, TypeOK, BaseTypeOK, ChanTypeOK, ThreadTypeOK, PeerTypeOK, SrvTypeOK
<1>1. Server(InitHandlersErr) \/ Server(InitHandlersOk) => handlers'
  BY DEF Server, InitHandlersErr, InitHandlersOk
<1>2. CASE handlers
  BY <1>0, <1>2, Onward DEF SrvInPeer
<1>3. CASE ~handlers /\ ~handlers'
  <2>1. /\ ~hosed[Srv] /\ finisher[Srv] = "none" /\ expects[Srv] = "none" /\ mdt = "none"
        /\ inside[Srv] # "open" /\ ~Has(wq[Srv], "PreInitErr") /\ ~Has(wq[Srv], "OpenReq")
        /\ ~Has(wq[Srv], "Open") /\ ~Has(wq[Srv], "Fin")
    BY <1>0, <1>3 DEF SrvInPeer
  <2>2. /\ ~Ready(Srv, "Open") /\ ~Ready(Srv, "OpenReq") /\ ~Ready(Srv, "PreInitErr")
        /\ ~Ready(Srv, "Fin")
    BY <1>0, <2>1
  <2>3. /\ ~Common(Open(Srv)) /\ ~Common(OnOpenReq(Srv)) /\ ~Common(OnFin(Srv))
        /\ ~Common(OpenBroken(Srv)) /\ ~Server(EmitPreInitErr) /\ ~Server(SrvErrPeer)
    BY <1>3, <2>1, <2>2 DEF Common, Server, Open, OnOpenReq, OnFin, OpenBroken,
       EmitPreInitErr, SrvErrPeer
  <2>4. ~Server(InitHandlersErr) /\ ~Server(InitHandlersOk)
    BY <1>1, <1>3
  <2>5. ~hosed'[Srv]
    BY <1>0, <2>1, <2>3, HosedWays
  <2>6. finisher'[Srv] = "none"
    BY <1>0, <2>1, <2>3, <2>4, FinisherWays
  <2>7. expects'[Srv] = "none"
    BY <1>0, <2>1, <2>4, ExpectsWays
  <2>8. mdt' = "none"
    BY <1>0, <1>3, <2>1, MdtWays DEF Server, SrvMdt, SrvCallOpen, SrvOpenEmpty
  <2>9. inside'[Srv] # "open"
    <3>1. \/ Common(OpenAnswered(Srv)) \/ Common(OpenTimeout(Srv))
          \/ Common(OnPassiveOpen(Srv))
          \/ Server(LogInReqAwaitAck) \/ Server(InitAcked) \/ Server(InitBroken)
          => inside'[Srv] \in {"none", "initAck"}
      BY <1>0 DEF Common, Server, OpenAnswered, OpenTimeout, OnPassiveOpen,
         LogInReqAwaitAck, InitAcked, InitBroken
    <3> QED BY <1>0, <2>1, <2>3, <3>1, InsideWays
  <2>10. ~Posts(Srv, "PreInitErr") /\ ~Posts(Srv, "OpenReq") /\ ~Posts(Srv, "Open")
    <3>1. ~Server(SrvCallOpen)
      BY <2>1 DEF Server, SrvCallOpen
    <3> QED BY <1>0, <2>1, <2>4, <3>1 DEF Posts, Asks
  <2>11. ~Has(wq'[Srv], "PreInitErr") /\ ~Has(wq'[Srv], "OpenReq") /\ ~Has(wq'[Srv], "Open")
    BY <1>0, <2>1, <2>10, QueueStays
  <2> QED BY <2>5, <2>6, <2>7, <2>8, <2>9, <2>11 DEF SrvInPeer
<1> QED BY <1>2, <1>3 DEF SrvInPeer

\* The client's handlers that give the connection up.
LEMMA ChanDropped ==
  ASSUME TypeOK, \/ Client(LogInRspBad) \/ Client(OnDoneToNull) \/ Client(CompleteBad)
                 \/ Client(CliErrConnecting)
  PROVE  chan'[Cli] = "reset"
<1>1. DropChannel
  BY DEF Client, LogInRspBad, OnDoneToNull, CompleteBad, CliErrConnecting, ConnectBreaks
<1> QED BY <1>1, SidesAreSides DEF DropChannel, TypeOK, BaseTypeOK, ChanTypeOK

\* The client's handlers that end a connect or make it succeed run while it goes on.
LEMMA ConnectIsOn ==
  ASSUME AllInv
  PROVE  /\ \/ Client(LogInRspBad) \/ Client(LogInRspOk) \/ Client(LogInRspAwaitInit)
            \/ Client(InitOpenLast) \/ Client(OnDoneOk) \/ Client(OnDoneToNull)
            \/ Client(CompleteOk) \/ Client(CompleteBad) \/ Client(CliErrConnecting)
            => cstate = "CONNECTING" /\ chan[Cli] = "up"
         /\ Client(InitOpenLast) => cacheOpen[Cli] = <<>> /\ dtor[Cli] = "no"
<1>0. /\ TypeOK /\ CliInv /\ LogInInv /\ LogInOrder
      /\ cstate = "CONNECTING" => chan[Cli] = "up" /\ user[Cli] # "idle"
      /\ dtor[Cli] # "no" => user[Cli] = "idle"
  BY LogInIsInOrder, SidesAreSides DEF AllInv, Known, CliInv, OneCall, Counted
<1>1. /\ Ready(Cli, "LogInRsp") \/ Ready(Cli, "InitOpen") => cstate = "CONNECTING"
      /\ Ready(Cli, "InitOpen") => cacheOpen[Cli] = <<>>
  BY <1>0, LogInIsConnecting
<1>2. \/ Client(LogInRspBad) \/ Client(LogInRspOk) \/ Client(LogInRspAwaitInit)
      \/ Client(InitOpenLast) \/ Client(OnDoneOk) \/ Client(OnDoneToNull)
      \/ Client(CompleteOk) \/ Client(CompleteBad) \/ Client(CliErrConnecting)
      => cstate = "CONNECTING"
  BY <1>0, <1>1 DEF Client, LogInRspBad, LogInRspOk, LogInRspAwaitInit, InitOpenLast,
     OnDoneOk, OnDoneToNull, OnDoneReturns, CompleteOk, CompleteBad, CliErrConnecting,
     MayComplete, CliInv, PastLogIn
<1>3. Client(InitOpenLast) => Ready(Cli, "InitOpen")
  BY DEF Client, InitOpenLast
<1> QED BY <1>0, <1>1, <1>2, <1>3

\* The error task in a session that is not CONNECTING finds it in PEER state.
LEMMA CliErrInPeer ==
  ASSUME AllInv, Client(CliErrPeer)
  PROVE  cstate = "PEER" /\ Has(wq[Cli], "Err")
<1>1. /\ TypeOK /\ Cli \in Sides /\ cstate \in {"NULL", "CONNECTING", "PEER"}
      /\ cstate = "NULL" /\ chan[Cli] = "up" => ~Has(wq[Cli], "Err")
  BY SidesAreSides DEF AllInv, Known, EndInv, CliInPeer, TypeOK, CliTypeOK
<1>2. Ready(Cli, "Err") /\ chan[Cli] = "up" /\ cstate # "CONNECTING"
  BY DEF Client, CliErrPeer
<1> QED BY <1>1, <1>2, ReadyHas

\* Nothing has been opened, nothing is hosed and no farewell is expected before
\* the client's PEER state.
LEMMA CliBeforePeer ==
  ASSUME AllInv, Step, cstate # "PEER"
  PROVE  /\ finisher'[Cli] # "none" => cstate' = "PEER"
         /\ ~GracefulFinish /\ hosed'[Cli] => cstate' = "PEER"
<1>0. /\ TypeOK /\ Cli \in Sides /\ CliInPeer
      /\ Has(wq[Cli], "Fin") => finisher[Cli] = "pending"
      /\ \A t : Ready(Cli, t) => Has(wq[Cli], t)
      /\ inside[Cli] # "open" /\ ~Has(wq[Cli], "Open")
  BY SidesAreSides, ReadyHas DEF AllInv, Known, EndInv, FinOnce, OpenInv, OpensInPeer,
     NothingOpen, NoOpenIn, Has
<1>1. finisher[Cli] = "none" /\ ~Has(wq[Cli], "Fin")
  BY <1>0 DEF CliInPeer
<1>2. ~Common(OnFin(Cli)) /\ ~Client(CliErrPeer) /\ ~Common(Open(Cli))
      /\ ~Common(OpenBroken(Cli))
  BY <1>0, <1>1, CliErrInPeer DEF Common, OnFin, Open, OpenBroken
<1>3. Client(CompleteOk) => cstate' = "PEER"
  BY DEF Client, CompleteOk
<1>4. finisher'[Cli] # "none" => cstate' = "PEER"
  BY <1>0, <1>1, <1>2, <1>3, SidesDiffer, FinisherWays
<1>5. ASSUME ~GracefulFinish PROVE ~hosed'[Cli]
  <2>1. ~hosed[Cli] /\ (Has(wq[Cli], "OpenReq") => AtOnDone)
    BY <1>0, <1>5 DEF CliInPeer
  <2>2. ~Common(OnOpenReq(Cli))
    <3>1. Common(OnOpenReq(Cli)) =>
            Ready(Cli, "OpenReq") /\ chan[Cli] = "up" /\ inside[Cli] = "none"
      BY <2>1 DEF Common, OnOpenReq, Preempted, Ready
    <3> QED BY <1>0, <2>1, <3>1 DEF AtOnDone
  <2> QED BY <1>0, <1>2, <2>1, <2>2, SidesDiffer, HosedWays
<1> QED BY <1>4, <1>5

\* on_done_func may take the session back to NULL, or leaves it in PEER state.
LEMMA OnDoneStays ==
  ASSUME AllInv, Step, ~GracefulFinish, cstate' # "PEER", AtOnDone
  PROVE  AtOnDone'
<1>0. /\ TypeOK /\ Cli \in Sides /\ Cli # Srv
      /\ chan \in [Sides -> {"none", "up", "reset"}]
  BY SidesAreSides, SidesDiffer DEF AllInv, Known, TypeOK, BaseTypeOK, ChanTypeOK
<1>1. CASE inside[Cli] = "onDone"
  <2>1. /\ ~Common(Open(Cli)) /\ ~Common(OnOpenReq(Cli)) /\ ~Common(OnPassiveOpen(Cli))
        /\ ~Common(OpenAnswered(Cli)) /\ ~Common(OpenTimeout(Cli))
        /\ ~Common(OpenBroken(Cli)) /\ ~Client(LogInRspOk) /\ ~Client(InitOpenLast)
    BY <1>1 DEF Common, Client, Open, OnOpenReq, OnPassiveOpen, Giving, OpenAnswered,
       OpenTimeout, OpenBroken, LogInRspOk, InitOpenLast, Ready
  <2>2. ~Client(OnDoneOk) /\ ~Client(OnDoneToConnecting)
    BY DEF Client, OnDoneOk, OnDoneToConnecting
  <2>3. Client(OnDoneToNull) => CancelsToNull /\ chan'[Cli] # "up"
    BY <1>0, ChanDropped DEF Client, OnDoneToNull
  <2> QED BY <1>0, <1>1, <2>1, <2>2, <2>3, InsideWays DEF AtOnDone
<1>2. CASE CancelsToNull /\ chan[Cli] # "up"
  <2>1. Stops(Cli) => chan'[Cli] # "up"
    BY <1>0 DEF Stops, Common, DtorStop
  <2>2. chan'[Cli] # "up"
    BY <1>0, <1>2, <2>1, ChanDropped, ChanWays
  <2> QED BY <1>2, <2>2 DEF AtOnDone
<1> QED BY <1>1, <1>2 DEF AtOnDone

LEMMA CliReqsInPeer ==
  ASSUME AllInv, Step, ~GracefulFinish, cstate' # "PEER"
  PROVE  /\ Has(wq'[Cli], "OpenReq") => AtOnDone'
         /\ expects'[Cli] = "OpenReq" => chErr'[Cli] \/ AtOnDone'
<1>0. /\ TypeOK /\ Cli \in Sides /\ Cli # Srv /\ CliInPeer /\ "OpenReq" \in TaskTypes
      /\ "OpenReq" \in ReqTypes
      /\ expects \in [Sides -> {"none", "InitOpen", "OpenReq"}]
      /\ chErr \in [Sides -> BOOLEAN]
      /\ inside \in [Sides -> {"none", "open", "initAck", "onDone", "passive"}]
  BY SidesAreSides, SidesDiffer DEF AllInv, Known, EndInv, TaskTypes, MsgTypes, ReqTypes,
     TypeOK, BaseTypeOK, ChanTypeOK, ThreadTypeOK
<1> SUFFICES ASSUME ~AtOnDone, ~AtOnDone'
             PROVE  /\ ~Has(wq'[Cli], "OpenReq")
                    /\ expects'[Cli] = "OpenReq" => chErr'[Cli]
  BY OnDoneStays
<1>1. /\ cstate # "PEER" /\ ~Has(wq[Cli], "OpenReq")
      /\ expects[Cli] = "OpenReq" => chErr[Cli]
      /\ chErr[Cli] => chErr'[Cli]
  BY <1>0, Onward DEF CliInPeer
<1>2. Client(LogInRspOk) =>
        Ready(Cli, "LogInRsp") /\ Done(Cli) /\ expects' = expects
  BY <1>0 DEF Client, LogInRspOk, Connected, AtOnDone
<1>3. Client(LogInRspAwaitInit) => expects'[Cli] \in {expects[Cli], "InitOpen"}
  BY <1>0 DEF Client, LogInRspAwaitInit, ExpectOpenReqs
<1>4. Client(InitOpenLast) =>
        /\ chErr'[Cli] /\ Ready(Cli, "InitOpen") /\ DoneThen(Cli, Kept(Cli, "OpenReq"))
        /\ cacheOpen[Cli] = <<>>
  BY <1>0, ConnectIsOn DEF Client, InitOpenLast, ExpectOpenReqs, Connected, Send, AtOnDone
<1>5. expects'[Cli] = "OpenReq" => chErr'[Cli]
  BY <1>0, <1>1, <1>2, <1>3, <1>4, ExpectsWays
<1>6. CASE Client(LogInRspOk)
  BY <1>0, <1>1, <1>2, <1>5, <1>6, OnDone
<1>7. CASE Client(InitOpenLast)
  <2>1. /\ Kept(Cli, "OpenReq") \in Seq(Item)
        /\ Len(Kept(Cli, "OpenReq")) = 0
    BY <1>0, <1>4, <1>7, KeptAre
  <2>2. ~Has(Kept(Cli, "OpenReq"), "OpenReq")
    BY <2>1 DEF Has
  <2>3. Ready(Cli, "InitOpen") /\ DoneThen(Cli, Kept(Cli, "OpenReq"))
    BY <1>4, <1>7
  <2>4. ~Has(wq'[Cli], "OpenReq")
    BY <1>0, <1>1, <2>1, <2>2, <2>3, OnDoneThen
  <2> QED BY <1>5, <2>4
<1>8. CASE ~Client(LogInRspOk) /\ ~Client(InitOpenLast)
  <2>1. ~Common(DeliverOpenReq(Cli)) \/ expects[Cli] # "OpenReq"
    BY <1>0, <1>1, ArrivesHas DEF Common, DeliverOpenReq
  <2>2. ~Posts(Cli, "OpenReq")
    BY <1>0, <1>8, <2>1 DEF Posts
  <2> QED BY <1>0, <1>1, <1>5, <2>2, QueueStays
<1> QED BY <1>6, <1>7, <1>8

LEMMA CliInPeerStays ==
  ASSUME AllInv, Step
  PROVE  CliInPeer'
<1>0. /\ TypeOK /\ CliInv /\ Cli \in Sides /\ Srv \in Sides /\ Cli # Srv /\ CliInPeer
      /\ {"Err", "Connect"} \subseteq TaskTypes /\ ErrReason(Cli)
      /\ chan \in [Sides -> {"none", "up", "reset"}] /\ chErr \in [Sides -> BOOLEAN]
      /\ cstate \in {"NULL", "CONNECTING", "PEER"}
      /\ dtor \in [Sides -> {"no", "begin", "greet", "quiet", "fin", "await",
                             "flush", "stopping", "stopped"}]
      /\ expects \in [Sides -> {"none", "InitOpen", "OpenReq"}]
  BY SidesAreSides, SidesDiffer DEF AllInv, Known, EndInv, TaskTypes, TypeOK, BaseTypeOK,
     ChanTypeOK, EndTypeOK, CliTypeOK
<1>1. /\ cstate = "PEER" => cstate' = "PEER"
      /\ cstate = "NULL" => cstate' = "NULL"
      /\ dtor[Cli] = "stopped" => dtor'[Cli] = "stopped"
      /\ dtor[Srv] = "stopped" => dtor'[Srv] = "stopped"
  BY <1>0, Onward
<1>2. /\ finisher'[Cli] # "none" => cstate' = "PEER"
      /\ ~GracefulFinish /\ hosed'[Cli] => cstate' = "PEER"
      /\ ~GracefulFinish /\ Has(wq'[Cli], "OpenReq") => cstate' = "PEER" \/ AtOnDone'
      /\ ~GracefulFinish /\ expects'[Cli] = "OpenReq" =>
           cstate' = "PEER" \/ chErr'[Cli] \/ AtOnDone'
  BY <1>1, CliBeforePeer, CliReqsInPeer
<1>3. chan'[Cli] # chan[Cli] =>
        /\ chan'[Cli] = "reset"
        /\ cstate = "PEER" => dtor'[Cli] = "stopped"
  <2>1. \/ Client(LogInRspBad) \/ Client(OnDoneToNull) \/ Client(CompleteBad)
        \/ Client(CliErrConnecting)
        => cstate = "CONNECTING" /\ chan'[Cli] = "reset"
    BY <1>0, ConnectIsOn, ChanDropped
  <2>2. Stops(Cli) => dtor'[Cli] = "stopped" /\ chan'[Cli] = "reset"
    BY <1>0 DEF Stops, Common, DtorStop
  <2> QED BY <1>0, <2>1, <2>2, ChanWays
<1>4. cstate' = "NULL" /\ chan'[Cli] = "up" => ~Has(wq'[Cli], "Err")
  <2> SUFFICES ASSUME cstate' = "NULL", chan'[Cli] = "up" PROVE ~Has(wq'[Cli], "Err")
    OBVIOUS
  <2>1. chan[Cli] = "up"
    BY <1>0, <1>3
  <2>2. CASE cstate = "NULL"
    <3>1. chErr[Cli] /\ ~Has(wq[Cli], "Err")
      BY <1>0, <2>1, <2>2 DEF CliInv, NullIsClean, CliInPeer
    <3>2. ~Posts(Cli, "Err")
      BY <1>0, <3>1 DEF Posts, Common, DetectError, OpenBroken, EndOfStream
    <3> QED BY <1>0, <3>1, <3>2, QueueStays
  <2>3. CASE cstate # "NULL"
    <3>1. Client(InitOpenLast)
      <4>1. /\ ~Client(LogInRspBad) /\ ~Client(OnDoneToNull) /\ ~Client(CompleteBad)
            /\ ~Client(CliErrConnecting)
        BY <1>0, ChanDropped
      <4>2. ~Client(CompleteOk) /\ ~Client(OnDoneOk)
        BY DEF Client, CompleteOk, OnDoneOk
      <4> QED BY <2>3, <4>1, <4>2, <1>0, StateWays
    <3>2. ~chErr[Cli]
      BY <3>1 DEF Client, InitOpenLast
    <3>3. ~Has(wq[Cli], "Err") /\ ~Posts(Cli, "Err")
      <4>1. ~Common(DetectError(Cli)) /\ ~Common(OpenBroken(Cli))
        BY <2>3 DEF Common, cliVars
      <4> QED BY <1>0, <3>2, <4>1 DEF Posts, ErrReason
    <3> QED BY <1>0, <3>3, QueueStays
  <2> QED BY <2>2, <2>3
<1>5. cstate' = "PEER" => chan'[Cli] = "up" \/ dtor'[Cli] = "stopped"
  <2>1. CASE cstate = "PEER"
    BY <1>0, <1>1, <1>3, <2>1 DEF CliInPeer
  <2>2. CASE cstate # "PEER" /\ cstate' = "PEER"
    <3>1. /\ ~Client(LogInRspBad) /\ ~Client(OnDoneToNull) /\ ~Client(CompleteBad)
          /\ ~Client(CliErrConnecting) /\ ~Client(InitOpenLast)
      BY <2>2 DEF Client, LogInRspBad, OnDoneToNull, CompleteBad, CliErrConnecting,
         ConnectBreaks, InitOpenLast, Connected
    <3>2. Client(OnDoneOk) \/ Client(CompleteOk)
      BY <1>0, <2>2, <3>1, StateWays
    <3>3. chan' = chan
      BY <3>2 DEF Client, OnDoneOk, CompleteOk, chanVars
    <3> QED BY <3>2, <3>3, ConnectIsOn
  <2> QED BY <2>1, <2>2
<1>6. Has(wq'[Cli], "Connect") => cstate' # "NULL" \/ conn' = 0 \/ dtor'[Srv] = "stopped"
  <2>1. CASE Posts(Cli, "Connect")
    <3>1. Client(CallConnect)
      BY <1>0, <2>1 DEF Posts
    <3>2. (conn = 0 \/ dtor[Srv] = "stopped" \/ cstate # "NULL") /\ cstate' = cstate
      BY <3>1 DEF Client, CallConnect
    <3> QED BY <1>1, <3>2, ConnWays
  <2>2. CASE ~Posts(Cli, "Connect")
    <3>1. Has(wq'[Cli], "Connect") => Has(wq[Cli], "Connect")
      BY <1>0, <2>2, QueueStays
    <3>2. cstate = "CONNECTING" => ~Has(wq[Cli], "Connect")
      BY <1>0 DEF CliInv, OneCall, NoCall, Has, CallTypes
    <3> QED BY <1>0, <1>1, <3>1, <3>2, ConnWays DEF CliInPeer
  <2> QED BY <2>1, <2>2
<1> QED BY <1>2, <1>4, <1>5, <1>6 DEF CliInPeer

-----------------------------------------------------------------------------
(* The error of the channel.                                                *)

LEMMA ErrReasonStays ==
  ASSUME AllInv, Step, NEW s \in Sides
  PROVE  ErrReason(s)'
<1>0. /\ TypeOK /\ ErrReason(s) /\ Peer(s) \in Sides /\ Peer(s) # s /\ "Err" \in TaskTypes
      /\ Peer(Srv) = Cli /\ Cli # Srv /\ s \in {Cli, Srv}
      /\ chan \in [Sides -> {"none", "up", "reset"}] /\ chErr \in [Sides -> BOOLEAN]
      /\ linkDown \in BOOLEAN
      /\ expects \in [Sides -> {"none", "InitOpen", "OpenReq"}]
  BY PeerOfPeer DEF AllInv, Known, EndInv, TaskTypes, TypeOK, BaseTypeOK, ChanTypeOK, Sides
<1>1. (linkDown => linkDown') /\ (chErr[s] => chErr'[s])
  BY <1>0, Onward
<1>2. \A r \in Sides : chan[r] = "reset" => chan'[r] = "reset"
  <2> SUFFICES ASSUME NEW r \in Sides, chan[r] = "reset", chan'[r] # "reset" PROVE FALSE
    OBVIOUS
  <2>1. ~Stops(r)
    BY <1>0 DEF Stops, Common, Server, SrvDtorStop, DtorStop
  <2>2. r = Cli => /\ ~Client(LogInRspBad) /\ ~Client(OnDoneToNull) /\ ~Client(CompleteBad)
                   /\ ~Client(CliErrConnecting)
    BY <1>0, ChanDropped
  <2>3. r = Srv => /\ ~Server(AcceptFails) /\ ~Server(AcceptStarts)
                   /\ ~Server(LogInReqRefused) /\ ~Server(LogInRspUnsent)
                   /\ ~Server(LogInReqInitFails) /\ ~Server(InitBroken) /\ ~Server(SrvErrLogIn)
    <3>1. r = Srv => chan[Srv] \notin {"none", "up"}
      BY <1>0
    <3> QED BY <3>1, LogInIsOn DEF LogInReqSteps
  <2> QED BY <1>0, <2>1, <2>2, <2>3, ChanWays
<1>3. chErr'[s] => linkDown' \/ chan'[Peer(s)] = "reset"
  <2>1. CASE chErr'[s] = chErr[s]
    BY <1>0, <1>1, <1>2, <2>1 DEF ErrReason
  <2>2. CASE chErr'[s] # chErr[s]
    <3>1. Gone(s)
      <4>1. CASE Common(DetectError(s)) \/ Common(OpenBroken(s)) \/
                 (s = Srv /\ Server(InitBroken))
        BY <1>0, <4>1 DEF Common, Server, DetectError, OpenBroken, InitBroken, EndOfStream, Gone
      <4>2. CASE \/ Common(Open(s)) \/ Common(OnOpenReq(s)) \/ Common(DtorFin(s))
                 \/ s = Cli /\ Client(InitOpenLast)
        BY <1>0, <2>2, <4>2 DEF Common, Client, Open, OnOpenReq, DtorFin, InitOpenLast, Send
      <4>3. CASE s = Srv /\ (Server(LogInRspUnsent) \/ Server(LogInReqInitFails))
        BY <1>0, <2>2, <4>3 DEF Server, LogInRspUnsent, LogInReqInitFails
      <4> QED BY <2>2, <4>1, <4>2, <4>3, <1>0, ChErrWays
    <3> QED BY <1>0, <1>1, <1>2, <3>1 DEF Gone
  <2> QED BY <2>1, <2>2
<1>4. Has(wq'[s], "Err") => chErr'[s]
  <2>1. CASE Posts(s, "Err")
    <3>1. Common(DetectError(s)) \/ Common(OpenBroken(s)) \/ (s = Srv /\ Server(InitBroken))
      BY <1>0, <2>1 DEF Posts, Asks
    <3> QED BY <1>0, <3>1 DEF Common, Server, DetectError, OpenBroken, InitBroken
  <2>2. CASE ~Posts(s, "Err")
    BY <1>0, <1>1, <2>2, QueueStays DEF ErrReason
  <2> QED BY <2>1, <2>2
<1> QED BY <1>3, <1>4 DEF ErrReason

-----------------------------------------------------------------------------
(* The farewell.                                                            *)

\* A session gets its Graceful_finisher once, with what was kept for it.
LEMMA FinisherStarts ==
  ASSUME AllInv, Step, NEW s \in Sides,
         (s = Cli /\ Client(CompleteOk)) \/ (s = Srv /\ Server(InitHandlersOk))
  PROVE  /\ finisher[s] = "none" /\ finisher'[s] # "done" /\ net' = net
         /\ \E t, ms : Ready(s, t) /\ PostsAfter(s, ms)
<1>0. /\ TypeOK /\ s \in {Cli, Srv} /\ finisher \in [Sides -> {"none", "pending", "done"}]
      /\ finisher[Cli] # "none" => cstate = "PEER"
      /\ finisher[Srv] # "none" => handlers
  BY DEF AllInv, Known, EndInv, CliInPeer, SrvInPeer, TypeOK, BaseTypeOK, EndTypeOK, Sides
<1>1. CASE s = Cli /\ Client(CompleteOk)
  <2>1. finisher[s] = "none" /\ finisher'[s] # "done" /\ net' = net
    BY <1>0, <1>1 DEF Client, CompleteOk, MayComplete, EmplaceFinisher
  <2> QED BY <1>0, <1>1, <2>1, CompletePosts
<1>2. CASE s = Srv /\ Server(InitHandlersOk)
  <2>1. finisher[s] = "none" /\ finisher'[s] # "done" /\ net' = net
    BY <1>0, <1>2 DEF Server, InitHandlersOk, EmplaceFinisher
  <2> QED BY <1>0, <1>2, <2>1, HandlersPost
<1> QED BY <1>1, <1>2

LEMMA FinOnceStays ==
  ASSUME AllInv, Step, NEW s \in Sides
  PROVE  FinOnce(s)'
<1>0. /\ TypeOK /\ FinOnce(s) /\ ErrReason(s) /\ DtorQueue(Peer(s)) /\ Peer(s) \in Sides
      /\ Peer(s) # s /\ Peer(Peer(s)) = s
      /\ {"Fin", "Err"} \subseteq TaskTypes
      /\ finisher \in [Sides -> {"none", "pending", "done"}]
      /\ cacheFin \in [Sides -> BOOLEAN] /\ chErr \in [Sides -> BOOLEAN]
      /\ net \in [Sides -> Seq(Item)] /\ wq \in [Sides -> Seq(Item)]
      /\ expects \in [Sides -> {"none", "InitOpen", "OpenReq"}]
      /\ dtor \in [Sides -> {"no", "begin", "greet", "quiet", "fin", "await",
                             "flush", "stopping", "stopped"}]
  BY PeerOfPeer DEF AllInv, Known, EndInv, DtorInOrder, TaskTypes, MsgTypes, TypeOK,
     BaseTypeOK, ChanTypeOK, ThreadTypeOK, EndTypeOK
<1>1. /\ chErr[s] => chErr'[s]
      /\ dtor[Peer(s)] \in FinSent => dtor'[Peer(s)] \in FinSent
  BY <1>0, Onward
<1>2. CASE Common(DtorFin(Peer(s)))
  <2>1. /\ Ready(Peer(s), "DtorFin") /\ dtor'[Peer(s)] = "await"
        /\ UNCHANGED <<finisher, cacheFin>> /\ wq'[s] = wq[s]
        /\ net'[s] \in {net[s], net[s] \o <<Plain("Fin")>>}
    BY <1>0, <1>2 DEF Common, DtorFin, Done, Send
  <2>2. dtor[Peer(s)] = "fin"
    <3>1. Has(wq[Peer(s)], "DtorFin")
      BY <1>0, <2>1, ReadyHas
    <3> QED BY <1>0, <3>1 DEF DtorQueue
  <2>3. /\ ~Has(net[s], "Fin") /\ ~cacheFin[s] /\ ~Has(wq[s], "Fin")
        /\ finisher[s] = "done" => chErr[s]
    BY <1>0, <2>2 DEF FinOnce, FinSent
  <2>4. Lone(net'[s], "Fin")
    <3>1. <<Plain("Fin")>> \in Seq(Item) /\ Lone(<<Plain("Fin")>>, "Fin")
      BY FewPosted
    <3>2. Lone(net[s] \o <<Plain("Fin")>>, "Fin")
      BY <1>0, <2>3, <3>1, OnConcat DEF FinOnce
    <3> QED BY <1>0, <2>1, <3>2 DEF FinOnce
  <2> QED BY <1>0, <1>1, <2>1, <2>3, <2>4 DEF FinOnce, FinSent
<1>3. /\ Has(net'[s], "Fin") => Has(net[s], "Fin") \/ Common(DtorFin(Peer(s)))
      /\ Lone(net'[s], "Fin") \/ Common(DtorFin(Peer(s)))
  BY <1>0, QueueStays DEF Sends, FinOnce
<1>4. CASE Common(DeliverFin(s))
  <2>1. Arrives(s, "Fin") /\ UNCHANGED finisher
    BY <1>4 DEF Common, DeliverFin, endVars
  <2>2. /\ Has(net[s], "Fin") /\ ~Has(net'[s], "Fin") /\ Lone(net'[s], "Fin") /\ ~chErr[s]
    <3>1. Has(net[s], "Fin") /\ ~Has(net'[s], "Fin") /\ ~chErr[s]
      BY <1>0, <2>1, ArrivesHas DEF FinOnce
    <3> QED BY <3>1 DEF Lone, Has
  <2>3. /\ ~cacheFin[s] /\ ~Has(wq[s], "Fin") /\ finisher[s] # "done"
        /\ dtor[Peer(s)] \in FinSent
    BY <1>0, <2>2 DEF FinOnce
  <2>4. CASE finisher[s] = "none"
    <3>1. wq' = wq
      BY <1>4, <2>4 DEF Common, DeliverFin
    <3> QED BY <1>0, <1>1, <2>1, <2>2, <2>3, <2>4, <3>1 DEF FinOnce
  <2>5. CASE finisher[s] # "none"
    <3>1. Post(s, Plain("Fin")) /\ UNCHANGED cacheFin /\ Plain("Fin").type = "Fin"
      BY <1>4, <2>5 DEF Common, DeliverFin, Plain, New
    <3>2. ~Has(wq[s], "Err")
      BY <1>0, <2>2 DEF ErrReason
    <3>3. Lone(wq'[s], "Fin") /\ Before(wq'[s], "Fin", "Err")
      BY <1>0, <2>3, <3>1, <3>2, OnPost DEF FinOnce
    <3> QED BY <1>0, <1>1, <2>1, <2>2, <2>3, <2>5, <3>1, <3>3 DEF FinOnce
  <2> QED BY <2>4, <2>5
<1>5. CASE (s = Cli /\ Client(CompleteOk)) \/ (s = Srv /\ Server(InitHandlersOk))
  <2>1. finisher[s] = "none" /\ finisher'[s] # "done" /\ net' = net
    BY <1>5, FinisherStarts
  <2>2. PICK t, ms : Ready(s, t) /\ PostsAfter(s, ms)
    BY <1>5, FinisherStarts
  <2>3. /\ ms \in Seq(Item) /\ DoneThen(s, ms) /\ Lone(ms, "Fin") /\ ~Has(ms, "Err")
        /\ Has(ms, "Fin") =>
             cacheFin[s] /\ ~chErr[s] /\ ~cacheFin'[s] /\ finisher'[s] = "pending"
        /\ cacheFin'[s] => cacheFin[s]
    BY <2>2 DEF PostsAfter
  <2>4. ~Has(wq[s], "Fin")
    BY <1>0, <2>1 DEF FinOnce
  <2>5. Has(wq'[s], "Fin") => Has(ms, "Fin")
    BY <1>0, <2>2, <2>3, <2>4, OnDoneThen
  <2>6. Lone(wq'[s], "Fin")
    BY <1>0, <2>2, <2>3, <2>4, OnDoneThen DEF FinOnce
  <2>7. Before(wq'[s], "Fin", "Err")
    <3>1. Before(ms, "Fin", "Err")
      BY <2>3 DEF Before, Has
    <3>2. Has(ms, "Fin") => ~Has(wq[s], "Err")
      BY <1>0, <2>3 DEF ErrReason
    <3> QED BY <1>0, <2>2, <2>3, <3>1, <3>2, OnDoneThen DEF FinOnce
  <2>8. /\ Has(net'[s], "Fin") => ~cacheFin[s] /\ Has(net[s], "Fin")
        /\ Lone(net'[s], "Fin")
    BY <1>0, <2>1 DEF FinOnce
  <2> QED BY <1>0, <1>1, <2>1, <2>3, <2>5, <2>6, <2>7, <2>8 DEF FinOnce
<1>6. CASE /\ ~Common(DtorFin(Peer(s))) /\ ~Common(DeliverFin(s))
           /\ s = Cli => ~Client(CompleteOk)
           /\ s = Srv => ~Server(InitHandlersOk)
  <2>1. ~Posts(s, "Fin")
    BY <1>0, <1>6 DEF Posts, Asks
  <2>2. cacheFin'[s] = cacheFin[s]
    BY <1>0, <1>6, CacheFinWays
  <2>3. /\ Has(wq'[s], "Fin") => Has(wq[s], "Fin")
        /\ Lone(wq'[s], "Fin") /\ Before(wq'[s], "Fin", "Err")
        /\ Has(net'[s], "Fin") => Has(net[s], "Fin")
        /\ Lone(net'[s], "Fin")
    BY <1>0, <1>3, <1>6, <2>1, QueueStays DEF FinOnce
  <2>4. CASE finisher'[s] = finisher[s]
    BY <1>0, <1>1, <2>2, <2>3, <2>4 DEF FinOnce
  <2>5. CASE Common(OnFin(s))
    <3>1. Ready(s, "Fin") /\ Done(s) /\ finisher'[s] = "done"
      BY <1>0, <2>5 DEF Common, OnFin
    <3>2. Has(wq[s], "Fin") /\ ~Has(wq'[s], "Fin")
      BY <1>0, <3>1, OnDone DEF FinOnce
    <3>3. dtor[Peer(s)] \in FinSent /\ ~Has(net[s], "Fin") /\ ~cacheFin[s]
      BY <1>0, <3>2 DEF FinOnce
    <3> QED BY <1>0, <1>1, <2>2, <2>3, <3>1, <3>2, <3>3 DEF FinOnce
  <2>6. CASE (s = Cli /\ Client(CliErrPeer)) \/ (s = Srv /\ Server(SrvErrPeer))
    <3>1. Ready(s, "Err") /\ Done(s)
      BY <2>6 DEF Client, Server, CliErrPeer, SrvErrPeer
    <3>2. Has(wq[s], "Err") /\ ~Has(wq[s], "Fin")
      BY <1>0, <3>1, OnDone DEF FinOnce
    <3>3. chErr[s]
      BY <1>0, <3>2 DEF ErrReason
    <3> QED BY <1>0, <1>1, <2>2, <2>3, <3>2, <3>3 DEF FinOnce
  <2> QED BY <1>0, <1>6, <2>4, <2>5, <2>6, FinisherWays
<1> QED BY <1>2, <1>4, <1>5, <1>6

-----------------------------------------------------------------------------
(* The alarm.                                                               *)

\* What has been reported stays so; init_handlers() emits what was recorded.
LEMMA ReportedStays ==
  ASSUME AllInv, Step, NEW s \in Sides, Reported(s)
  PROVE  Reported(s)' \/ Has(wq'[s], "PreInitErr")
<1>0. /\ TypeOK /\ Cli \in Sides /\ Srv \in Sides /\ Cli # Srv /\ s \in {Cli, Srv}
      /\ hosed \in [Sides -> BOOLEAN] /\ handlers \in BOOLEAN /\ preInitErr \in BOOLEAN
  BY SidesAreSides, SidesDiffer
     DEF AllInv, Known, TypeOK, BaseTypeOK, PeerTypeOK, SrvTypeOK, Sides
<1>1. /\ hosed[s] => hosed'[s]
      /\ handlers => handlers'
      /\ preInitErr => preInitErr'
      /\ cstate = "NULL" => cstate' = "NULL"
  BY Onward
<1>2. CASE s = Cli \/ handlers \/ ~handlers'
  BY <1>0, <1>1, <1>2 DEF Reported
<1>3. CASE s = Srv /\ ~handlers /\ handlers'
  <2>1. preInitErr
    BY <1>0, <1>3 DEF Reported
  <2>2. Server(InitHandlersErr)
    BY <1>0, <1>3, <2>1, HandlersWays DEF Server, InitHandlersOk
  <2>3. /\ Ready(Srv, "InitHandlers") /\ DoneThen(Srv, <<Plain("PreInitErr")>>)
        /\ <<Plain("PreInitErr")>> \in Seq(Item)
    BY <2>2, FewPosted DEF Server, InitHandlersErr
  <2>4. Has(<<Plain("PreInitErr")>>, "PreInitErr")
    BY DEF Has, Plain, New
  <2>5. PICK ms \in Seq(Item) : DoneThen(Srv, ms) /\ Has(ms, "PreInitErr")
    BY <2>3, <2>4
  <2>6. Has(wq'[Srv], "PreInitErr")
    BY <1>0, <2>3, <2>5, OnDoneThen
  <2> QED BY <1>3, <2>6
<1> QED BY <1>0, <1>2, <1>3

\* A handler that takes an error reports it, or the channel is gone.
LEMMA HandledIsReported ==
  ASSUME AllInv, Step, NEW s \in Sides, chan'[s] = "up",
         \/ s = Cli /\ \/ Client(CliErrStale) \/ Client(CliErrConnecting)
                       \/ Client(CliErrPeer)
         \/ s = Srv /\ \/ Server(SrvErrStale) \/ Server(SrvErrLogIn)
                       \/ Server(SrvErrAlmostPeer) \/ Server(SrvErrPeer)
                       \/ Server(EmitPreInitErr)
  PROVE  Reported(s)'
<1>0. /\ TypeOK /\ Cli \in Sides /\ Srv \in Sides /\ Cli # Srv /\ SrvInPeer
      /\ hosed \in [Sides -> BOOLEAN] /\ handlers \in BOOLEAN /\ preInitErr \in BOOLEAN
      /\ chan \in [Sides -> {"none", "up", "reset"}]
  BY SidesAreSides, SidesDiffer
     DEF AllInv, Known, EndInv, TypeOK, BaseTypeOK, ChanTypeOK, PeerTypeOK, SrvTypeOK
<1>1. CASE s = Cli /\ (Client(CliErrStale) \/ Client(CliErrConnecting))
  BY <1>0, <1>1 DEF Client, CliErrStale, CliErrConnecting, ConnectBreaks, DropChannel, chanVars
<1>2. CASE s = Cli /\ Client(CliErrPeer)
  <2>1. hosed'[Cli]
    BY <1>0, <1>2 DEF Client, CliErrPeer, HoseUnlessHosed, Hose
  <2> QED BY <1>0, <1>2, <2>1 DEF Reported
<1>3. CASE s = Srv /\ (Server(SrvErrStale) \/ Server(SrvErrLogIn))
  BY <1>0, <1>3 DEF Server, SrvErrStale, SrvErrLogIn, LogInFails, chanVars
<1>4. CASE s = Srv /\ Server(SrvErrAlmostPeer)
  <2>1. preInitErr' /\ ~handlers'
    BY <1>0, <1>4 DEF Server, SrvErrAlmostPeer
  <2> QED BY <1>0, <1>4, <2>1 DEF Reported
<1>5. CASE s = Srv /\ (Server(SrvErrPeer) \/ Server(EmitPreInitErr))
  <2>1. Ready(Srv, "PreInitErr") => handlers
    BY <1>0, ReadyHas DEF SrvInPeer
  <2>2. handlers' /\ hosed'[Srv]
    BY <1>0, <1>5, <2>1 DEF Server, SrvErrPeer, EmitPreInitErr, HoseUnlessHosed, Hose, srvVars
  <2> QED BY <1>0, <1>5, <2>2 DEF Reported
<1> QED BY <1>1, <1>2, <1>3, <1>4, <1>5

\* An error that is new is reported at once, or its handler's task is posted.
LEMMA NewErrorIsTold ==
  ASSUME AllInv, Step, NEW s \in Sides,
         ~chErr[s], chErr'[s], chan'[s] = "up", dtor'[s] = "no"
  PROVE  Reported(s)' \/ Has(wq'[s], "Err")
<1>0. /\ TypeOK /\ Cli \in Sides /\ Srv \in Sides /\ Cli # Srv /\ s \in {Cli, Srv}
      /\ hosed \in [Sides -> BOOLEAN] /\ handlers \in BOOLEAN /\ SrvInPeer
      /\ chan \in [Sides -> {"none", "up", "reset"}] /\ chErr \in [Sides -> BOOLEAN]
      /\ dtor \in [Sides -> {"no", "begin", "greet", "quiet", "fin", "await",
                             "flush", "stopping", "stopped"}]
      /\ wq \in [Sides -> Seq(Item)]
  BY SidesAreSides, SidesDiffer
     DEF AllInv, Known, EndInv, TypeOK, BaseTypeOK, ChanTypeOK, PeerTypeOK, SrvTypeOK,
         EndTypeOK, ThreadTypeOK, Sides
<1>1. Plain("Err").type = "Err"
  BY DEF Plain, New
<1>2. hosed'[s] /\ (s = Srv => handlers /\ handlers' = handlers) => Reported(s)'
  BY <1>0 DEF Reported
<1>3. Post(s, Plain("Err")) => Has(wq'[s], "Err")
  BY <1>0, <1>1, OnPost
<1>4. CASE Common(Open(s)) \/ Common(OnOpenReq(s))
  <2>1. Ready(s, "Open") \/ Ready(s, "OpenReq")
    BY <1>4 DEF Common, Open, OnOpenReq
  <2>2. s = Srv => handlers
    BY <1>0, <2>1, ReadyHas DEF SrvInPeer
  <2>3. hosed'[s] /\ handlers' = handlers
    BY <1>0, <1>4 DEF Common, Open, OnOpenReq, Send, Hose, srvVars
  <2> QED BY <1>2, <2>2, <2>3
<1>5. CASE Common(DetectError(s))
  BY <1>3, <1>5 DEF Common, DetectError
<1>6. CASE Common(OpenBroken(s))
  <2>1. s = Srv => handlers
    BY <1>0, <1>6 DEF Common, OpenBroken, SrvInPeer
  <2>2. handlers' = handlers /\ (hosed'[s] \/ Post(s, Plain("Err")))
    BY <1>0, <1>6 DEF Common, OpenBroken, Hose, srvVars
  <2> QED BY <1>2, <1>3, <2>1, <2>2
<1>7. CASE Common(DtorFin(s))
  BY <1>0, <1>7 DEF Common, DtorFin
<1>8. CASE s = Cli /\ Client(InitOpenLast)
  <2>1. cstate' = "NULL"
    BY <1>0, <1>8 DEF Client, InitOpenLast, Send
  <2> QED BY <1>0, <1>8, <2>1 DEF Reported
<1>9. CASE s = Srv /\ (Server(LogInRspUnsent) \/ Server(LogInReqInitFails))
  BY <1>0, <1>9 DEF Server, LogInRspUnsent, LogInReqInitFails, LogInFails
<1>10. CASE s = Srv /\ Server(InitBroken)
  <2>1. Post(Srv, Plain("Err"))
    BY <1>0, <1>10 DEF Server, InitBroken, LogInFails
  <2> QED BY <1>3, <1>10, <2>1
<1> QED BY <1>0, <1>4, <1>5, <1>6, <1>7, <1>8, <1>9, <1>10, ChErrWays

LEMMA AlarmStays ==
  ASSUME AllInv, Step, NEW s \in Sides
  PROVE  Alarm(s)'
<1> SUFFICES ASSUME chan'[s] = "up", chErr'[s], dtor'[s] = "no"
             PROVE  Reported(s)' \/ Has(wq'[s], "Err") \/ Has(wq'[s], "PreInitErr")
  BY DEF Alarm
<1>0. /\ TypeOK /\ Alarm(s) /\ NotStarted /\ Cli # Srv /\ Srv \in Sides
      /\ chan \in [Sides -> {"none", "up", "reset"}] /\ chErr \in [Sides -> BOOLEAN]
  BY SidesAreSides, SidesDiffer DEF AllInv, Known, EndInv, TypeOK, BaseTypeOK, ChanTypeOK
<1>1. dtor[s] = "no"
  BY Onward
<1>2. ~Stops(s)
  BY <1>0 DEF Stops, Common, Server, SrvDtorStop, DtorStop
<1>3. CASE ~chErr[s]
  BY <1>3, NewErrorIsTold
<1>4. CASE chErr[s] /\ chan[s] # "up"
  <2>1. s = Srv /\ Server(AcceptStarts)
    <3>1. s = Cli => /\ ~Client(LogInRspBad) /\ ~Client(OnDoneToNull) /\ ~Client(CompleteBad)
                     /\ ~Client(CliErrConnecting)
      BY <1>0, ChanDropped
    <3>2. s = Srv => /\ ~Server(AcceptFails) /\ ~Server(LogInReqRefused) /\ ~Server(SrvErrLogIn)
                     /\ ~Server(LogInReqInitFails)
      BY <1>0 DEF Server, AcceptFails, LogInReqRefused, LogInReqInitFails, SrvErrLogIn, LogInFails
    <3>3. s = Srv => ~Server(LogInRspUnsent) /\ ~Server(InitBroken)
      BY <1>4, LogInIsOn DEF LogInReqSteps
    <3> QED BY <1>0, <1>2, <1>4, <3>1, <3>2, <3>3, ChanWays
  <2>2. chan[Srv] = "none"
    BY <2>1, LogInIsOn
  <2> QED BY <1>0, <1>1, <1>4, <2>1, <2>2 DEF NotStarted
<1>5. CASE chErr[s] /\ chan[s] = "up"
  <2>1. CASE Reported(s)
    BY <2>1, ReportedStays
  <2>2. CASE Has(wq[s], "Err") \/ Has(wq[s], "PreInitErr")
    BY <1>0, <1>2, <2>2, ErrorStays, HandledIsReported
  <2> QED BY <1>0, <1>1, <1>5, <2>1, <2>2 DEF Alarm
<1> QED BY <1>0, <1>3, <1>4, <1>5

\* What is known of how sessions end stays true within a connection.
LEMMA EndInvStays ==
  ASSUME AllInv, Step
  PROVE  EndInv'
<1>1. \A s \in Sides : DtorInOrder(s)' /\ ErrReason(s)' /\ FinOnce(s)' /\ Alarm(s)'
  BY DtorInOrderStays, ErrReasonStays, FinOnceStays, AlarmStays
<1>2. /\ Vanilla' /\ SrvOneCall' /\ SrvLogIn' /\ LogInWays' /\ SrvInPeer' /\ CliInPeer'
      /\ NotStarted'
  BY VanillaStays, SrvOneCallStays, SrvLogInStays, LogInWaysStay, SrvInPeerStays,
     CliInPeerStays, NotStartedStays
<1> QED BY <1>1, <1>2 DEF EndInv

-----------------------------------------------------------------------------
(* A new connection.                                                        *)

\* It begins when all is over with the old one, on both sides.
LEMMA NothingIsLeft ==
  ASSUME AllInv, Reconnect
  PROVE  /\ cstate = "NULL" /\ Tail(wq[Cli]) = <<>> /\ dtor[Cli] = "no"
         /\ finisher[Cli] = "none" /\ (~GracefulFinish => ~hosed[Cli])
         /\ inside[Cli] = "none" /\ inside[Srv] = "none"
<1>0. /\ TypeOK /\ CliInv /\ CliInPeer /\ SrvLogIn /\ DtorInOrder(Srv)
      /\ Cli \in Sides /\ Srv \in Sides
  BY SidesAreSides DEF AllInv, Known, EndInv
<1>1. /\ Ready(Cli, "Connect") /\ cstate = "NULL"
  BY DEF Reconnect, ConnectReaches
<1>2. /\ wq[Cli] \in Seq(Item) /\ wq[Cli] # <<>> /\ Head(wq[Cli]).type = "Connect"
      /\ Has(wq[Cli], "Connect") /\ ~NoCall(wq[Cli]) /\ inside[Cli] = "none"
  BY <1>0, <1>1, ReadyHas DEF CallTypes
<1>3. Tail(wq[Cli]) = <<>>
  BY <1>0, <1>1, <1>2, TailKeeps DEF CliInv, NullIsClean
<1>4. dtor[Cli] = "no"
  BY <1>0, <1>2 DEF CliInv, OneCall
<1>5. finisher[Cli] = "none" /\ (~GracefulFinish => ~hosed[Cli])
  BY <1>0, <1>1 DEF CliInPeer
<1>6. inside[Srv] = "none"
  BY <1>0, <1>1, <1>2 DEF CliInPeer, SrvLogIn, DtorInOrder
<1> QED BY <1>1, <1>2, <1>3, <1>4, <1>5, <1>6

\* The queues, the channels and the two sessions once it is made.
LEMMA AllIsFresh ==
  ASSUME AllInv, Reconnect
  PROVE  /\ wq'[Srv] = <<Plain("AcceptLogIn")>>
         /\ \/ wq'[Cli] = <<>>
            \/ wq'[Cli] = <<Plain("Err")>> /\ chErr'[Cli]
         /\ net'[Cli] = <<>> /\ net'[Srv] \in {<<>>, <<Plain("LogInReq")>>}
         /\ chan'[Srv] = "none" /\ ~chErr'[Srv] /\ ~cacheFin'[Cli] /\ ~cacheFin'[Srv]
         /\ chErr'[Cli] => linkDown'
         /\ chErr'[Cli] /\ chan'[Cli] = "up" => wq'[Cli] = <<Plain("Err")>>
         /\ cstate' = "CONNECTING" \/ (cstate' = "NULL" /\ chan'[Cli] = "reset")
<1>0. /\ TypeOK /\ Cli \in Sides /\ Srv \in Sides /\ Cli # Srv
      /\ Tail(wq[Cli]) = <<>>
      /\ wq \in [Sides -> Seq(Item)] /\ net \in [Sides -> Seq(Item)]
      /\ chan \in [Sides -> {"none", "up", "reset"}] /\ chErr \in [Sides -> BOOLEAN]
  BY SidesAreSides, SidesDiffer, NothingIsLeft
     DEF AllInv, Known, TypeOK, BaseTypeOK, ChanTypeOK, ThreadTypeOK
<1>1. PICK out \in SendOutcomes :
        /\ linkDown' = (out # "ok")
        /\ chan' = [chan EXCEPT ![Cli] = IF out = "err" THEN "reset" ELSE "up",
                                ![Srv] = "none"]
        /\ chErr' = [chErr EXCEPT ![Cli] = (out # "ok"), ![Srv] = FALSE]
        /\ net' = [net EXCEPT ![Cli] = <<>>, ![Srv] =
                     IF out = "ok" THEN <<Plain("LogInReq")>> ELSE <<>>]
        /\ wq' = [wq EXCEPT ![Cli] = IF out = "false" THEN Append(Tail(@), Plain("Err"))
                                                      ELSE Tail(@),
                            ![Srv] = <<Plain("AcceptLogIn")>>]
        /\ IF out = "err" THEN cstate' = "NULL" ELSE cstate' = "CONNECTING"
  BY DEF Reconnect, ConnectReaches, SendOutcomes
<1>2. out \in {"false", "err", "ok"}
  BY DEF SendOutcomes
<1>3. Append(<<>>, Plain("Err")) = <<Plain("Err")>>
  OBVIOUS
<1>4. /\ wq'[Srv] = <<Plain("AcceptLogIn")>>
      /\ wq'[Cli] = IF out = "false" THEN <<Plain("Err")>> ELSE <<>>
  <2>1. /\ wq'[Srv] = <<Plain("AcceptLogIn")>>
        /\ wq'[Cli] = IF out = "false" THEN Append(<<>>, Plain("Err")) ELSE <<>>
    BY <1>0, <1>1
  <2> QED BY <1>3, <2>1
<1>5. net'[Cli] = <<>> /\ net'[Srv] \in {<<>>, <<Plain("LogInReq")>>}
  BY <1>0, <1>1
<1>6. /\ chan'[Cli] = IF out = "err" THEN "reset" ELSE "up"
      /\ chan'[Srv] = "none"
  BY <1>0, <1>1
<1>7. chErr'[Cli] = (out # "ok") /\ chErr'[Srv] = FALSE
  BY <1>0, <1>1
<1>8. ~cacheFin'[Cli] /\ ~cacheFin'[Srv]
  BY <1>0 DEF Reconnect, ConnectReaches
<1>9. /\ linkDown' = (out # "ok")
      /\ IF out = "err" THEN cstate' = "NULL" ELSE cstate' = "CONNECTING"
  BY <1>1
<1>10. /\ chErr'[Cli] => linkDown'
       /\ cstate' = "CONNECTING" \/ (cstate' = "NULL" /\ chan'[Cli] = "reset")
  BY <1>6, <1>7, <1>9
<1>11. /\ wq'[Cli] = <<>> \/ (wq'[Cli] = <<Plain("Err")>> /\ chErr'[Cli])
       /\ chErr'[Cli] /\ chan'[Cli] = "up" => wq'[Cli] = <<Plain("Err")>>
  BY <1>2, <1>4, <1>6, <1>7
<1> QED BY <1>4, <1>5, <1>6, <1>7, <1>8, <1>10, <1>11

\* What is known of how sessions end is true of one that begins.
LEMMA EndInvAnew ==
  ASSUME AllInv, Reconnect
  PROVE  EndInv'
<1>0. /\ TypeOK /\ Cli \in Sides /\ Srv \in Sides /\ Cli # Srv
      /\ Peer(Cli) = Srv /\ Peer(Srv) = Cli /\ Vanilla
      /\ \A s \in Sides : s = Cli \/ s = Srv
      /\ conn \in Nat /\ dtor \in [Sides -> {"no", "begin", "greet", "quiet", "fin", "await",
                                             "flush", "stopping", "stopped"}]
      /\ finisher \in [Sides -> {"none", "pending", "done"}]
      /\ hosed \in [Sides -> BOOLEAN]
  BY PeerOfPeer, SidesAreSides, SidesDiffer
     DEF AllInv, Known, EndInv, TypeOK, BaseTypeOK, ChanTypeOK, EndTypeOK, PeerTypeOK, Sides
<1>1. /\ cstate = "NULL" /\ dtor'[Cli] = "no" /\ dtor'[Srv] = "no"
      /\ finisher'[Cli] = "none" /\ finisher'[Srv] = "none"
      /\ ~GracefulFinish => ~hosed'[Cli]
      /\ ~hosed'[Srv] /\ inside'[Cli] = "none" /\ inside'[Srv] = "none"
      /\ expects'[Cli] = "none" /\ expects'[Srv] = "none" /\ subclass' = subclass
      /\ conn' = conn + 1
  BY <1>0, NothingIsLeft DEF Reconnect, ConnectReaches, FreshServer
<1>2. login' = "outstanding" /\ handlers' = FALSE /\ preInitErr' = FALSE /\ mdt' = "none"
  BY DEF Reconnect, NewServerSession
<1>3. /\ \A t : Has(wq'[Srv], t) => t = "AcceptLogIn"
      /\ \A t : Lone(wq'[Srv], t)
  <2>1. Plain("AcceptLogIn").type = "AcceptLogIn"
    BY DEF Plain, New
  <2> QED BY <2>1, AllIsFresh, FewElements
<1>4. /\ \A t : Has(wq'[Cli], t) => t = "Err"
      /\ \A t : Lone(wq'[Cli], t)
      /\ Has(wq'[Cli], "Err") => chErr'[Cli] /\ linkDown'
  <2>1. Plain("Err").type = "Err"
    BY DEF Plain, New
  <2> QED BY <2>1, AllIsFresh, FewElements
<1>5. /\ \A t : Has(net'[Srv], t) => t = "LogInReq"
      /\ \A t : ~Has(net'[Cli], t) /\ Lone(net'[Cli], t) /\ Lone(net'[Srv], t)
  <2>1. Plain("LogInReq").type = "LogInReq"
    BY DEF Plain, New
  <2> QED BY <2>1, AllIsFresh, FewElements
<1>6. \A s \in Sides : DtorInOrder(s)'
  <2>1. \A s \in Sides : DtorQueue(s)'
    BY <1>0, <1>3, <1>4 DEF DtorQueue, DtorTasks
  <2> QED BY <1>0, <1>1, <2>1 DEF DtorInOrder
<1>7. \A s \in Sides : ErrReason(s)'
  BY <1>0, <1>3, <1>4, AllIsFresh DEF ErrReason
<1>8. \A s \in Sides : FinOnce(s)'
  <2>1. \A s \in Sides : Before(wq'[s], "Fin", "Err")
    BY <1>0, <1>3, <1>4 DEF Before, Has
  <2> QED BY <1>0, <1>1, <1>3, <1>4, <1>5, <2>1, AllIsFresh DEF FinOnce
<1>9. \A s \in Sides : Alarm(s)'
  <2>1. Plain("Err").type = "Err" /\ Has(<<Plain("Err")>>, "Err")
    BY DEF Plain, New, Has
  <2>2. Alarm(Cli)'
    BY <2>1, AllIsFresh DEF Alarm
  <2>3. Alarm(Srv)'
    BY AllIsFresh DEF Alarm
  <2> QED BY <1>0, <2>2, <2>3
<1>10. Vanilla' /\ SrvOneCall' /\ NotStarted'
  <2>1. Vanilla'
    BY <1>0, <1>1, <1>4 DEF Vanilla
  <2>2. NoneOf(wq'[Srv], SrvCalls)
    BY <1>3 DEF NoneOf, Has, SrvCalls
  <2>3. OneOf(wq'[Srv], SrvCalls)
    BY <2>2 DEF NoneOf, OneOf
  <2>4. SrvOneCall'
    BY <1>1, <2>2, <2>3 DEF SrvOneCall
  <2> QED BY <2>1, <2>4, AllIsFresh DEF NotStarted
<1>11. SrvLogIn'
  <2>1. conn' # 0
    BY <1>0, <1>1
  <2>2. Before(wq'[Srv], "LogInReq", "Err")
    BY <1>3 DEF Before, Has
  <2> QED BY <1>1, <1>2, <1>3, <2>1, <2>2, AllIsFresh DEF SrvLogIn
<1>12. LogInWays' /\ SrvInPeer' /\ CliInPeer'
  <2>1. LogInWays'
    BY <1>1, <1>3, <1>4, <1>5 DEF LogInWays
  <2>2. SrvInPeer'
    BY <1>1, <1>2, <1>3 DEF SrvInPeer
  <2>3. CliInPeer'
    BY <1>1, <1>4, AllIsFresh DEF CliInPeer
  <2> QED BY <2>1, <2>2, <2>3
<1> QED BY <1>6, <1>7, <1>8, <1>9, <1>10, <1>11, <1>12 DEF EndInv

-----------------------------------------------------------------------------
(* The theorems.                                                            *)

LEMMA InitAllInv == Init => AllInv
<1> SUFFICES ASSUME Init PROVE AllInv
  OBVIOUS
<1>1. /\ Cli \in Sides /\ Srv \in Sides
      /\ \A s \in Sides :
           /\ wq[s] = <<>> /\ net[s] = <<>> /\ chan[s] = "none" /\ ~chErr[s]
           /\ inside[s] = "none" /\ user[s] = "idle" /\ dtor[s] = "no"
           /\ finisher[s] = "none" /\ ~hosed[s] /\ expects[s] = "none" /\ ~cacheFin[s]
      /\ conn = 0 /\ cstate = "NULL" /\ subclass = "idle" /\ dones = 0 /\ connects = 0
      /\ login = "none" /\ ~handlers /\ ~preInitErr /\ mdt = "none"
  BY SidesAreSides DEF Init, BaseInit, CliInit, SrvInit
<1>2. Known
  <2>1. Counted
    BY <1>1, EmptyHas DEF Counted, Connecting
  <2> QED BY <2>1, InitPeerInv, OpenInvStarts, ErrInvStarts DEF Known, PeerInv
<1>3. \A s \in Sides : DtorInOrder(s) /\ ErrReason(s) /\ FinOnce(s) /\ Alarm(s)
  <2> SUFFICES ASSUME NEW s \in Sides
               PROVE  DtorInOrder(s) /\ ErrReason(s) /\ FinOnce(s) /\ Alarm(s)
    OBVIOUS
  <2>1. /\ \A t : ~Has(wq[s], t) /\ Lone(wq[s], t) /\ ~Has(net[s], t) /\ Lone(net[s], t)
        /\ \A t, u : Before(wq[s], t, u)
    BY <1>1, EmptyHas
  <2> QED BY <1>1, <2>1 DEF DtorInOrder, DtorQueue, ErrReason, FinOnce, Alarm
<1>4. Vanilla /\ SrvOneCall /\ NotStarted /\ SrvLogIn
  <2>1. /\ \A t : ~Has(wq[Srv], t) /\ Lone(wq[Srv], t) /\ ~Has(net[Srv], t) /\ ~Has(wq[Cli], t)
        /\ \A t, u : Before(wq[Srv], t, u)
        /\ \A C : NoneOf(wq[Srv], C) /\ OneOf(wq[Srv], C)
    BY <1>1, EmptyHas
  <2> QED BY <1>1, <2>1 DEF Vanilla, SrvOneCall, NotStarted, SrvLogIn, Requested
<1>5. LogInWays /\ SrvInPeer /\ CliInPeer
  <2>1. \A s \in Sides, t \in TaskTypes : ~Has(wq[s], t) /\ ~Has(net[s], t)
    BY <1>1, EmptyHas
  <2> QED BY <1>1, <2>1 DEF LogInWays, SrvInPeer, CliInPeer, TaskTypes, MsgTypes
<1> QED BY <1>2, <1>3, <1>4, <1>5 DEF AllInv, EndInv

LEMMA NextAllInv == AllInv /\ [Next]_vars => AllInv'
<1> SUFFICES ASSUME AllInv, [Next]_vars PROVE AllInv'
  OBVIOUS
<1>1. Known'
  <2>1. PeerInv' /\ (cstate = "PEER" => cstate' = "PEER")
    BY NextPeerInv DEF AllInv, Known, PeerInv
  <2>2. Counted'
    BY NextCounted DEF AllInv, Known, PeerInv
  <2>3. OpenInv'
    BY <2>1, OpenInvStays DEF AllInv, Known
  <2>4. ErrInv'
    BY ErrInvStays DEF AllInv, Known
  <2> QED BY <2>1, <2>2, <2>3, <2>4 DEF Known, PeerInv
<1>2. EndInv'
  BY EndInvStays, EndInvAnew DEF Step
<1> QED BY <1>1, <1>2 DEF AllInv

\* The inductive invariant, of both sides and of what is between them: what is known
\* of log-ins, calls and open_channel() requests already, and on which side of
\* PEER state, of an error and of a farewell each task and each message is.
THEOREM AllInvHolds == Spec => []AllInv
BY InitAllInv, NextAllInv, PTL DEF Spec

\* hose() runs the user's on-error handler, which is known in PEER state only:
\* without S_GRACEFUL_FINISH_REQUIRED no error hoses a session before its PEER
\* state, whichever of its ways to W it takes.  With it a client that its SHM
\* subclass has put back to CONNECTING answers open-channel requests already, and
\* hoses when the answer cannot be sent.
THEOREM HosedOnlyInPeerHolds == Spec => [](~GracefulFinish => HosedOnlyInPeer)
<1>1. AllInv => (~GracefulFinish => HosedOnlyInPeer)
  <2> SUFFICES ASSUME AllInv, ~GracefulFinish, NEW s \in Sides, hosed[s] PROVE IsPeer(s)
    BY DEF HosedOnlyInPeer
  <2>1. CASE s = Cli
    BY <2>1 DEF AllInv, EndInv, CliInPeer, IsPeer
  <2>2. CASE s = Srv /\ Cli # Srv
    BY <2>2 DEF AllInv, EndInv, SrvInPeer, IsPeer
  <2> QED BY <2>1, <2>2, SidesDiffer DEF Sides
<1> QED BY <1>1, AllInvHolds, PTL

\* The server's half of it holds whatever the switches: init_handlers() comes
\* before every step that hoses the server's session.
THEOREM SrvHosedOnlyInPeer == Spec => [](hosed[Srv] => handlers)
<1>1. AllInv => (hosed[Srv] => handlers)
  BY DEF AllInv, EndInv, SrvInPeer
<1> QED BY <1>1, AllInvHolds, PTL

\* The one error of a master channel is found by a failing call or by the on-error
\* handler, before, in or after almost-PEER state; when W has come to rest the user
\* knows of it, or m_pre_init_err_code does, or the session is NULL again.
THEOREM ErrorNotLostHolds == Spec => []ErrorNotLost
<1>1. AllInv => ErrorNotLost
  <2> SUFFICES ASSUME AllInv, NEW s \in Sides, chan[s] = "up", chErr[s], Quiet(s),
                      dtor[s] = "no"
               PROVE  Reported(s)
    BY DEF ErrorNotLost
  <2>1. ~Has(wq[s], "Err") /\ ~Has(wq[s], "PreInitErr")
    BY EmptyHas DEF Quiet
  <2> QED BY <2>1 DEF AllInv, EndInv, Alarm
<1> QED BY <1>1, AllInvHolds, PTL

\* m_master_channel goes back to null at the end of a failed log-in, of a failed
\* connect and of on_done_func, while its thread may have posted more; the tasks
\* that use it without looking find it all the same, whatever the switches and
\* whichever of them the posts overtake.  Left out is only the open-channel request
\* a client was sent before its subclass took the session back to NULL.
THEOREM TasksFindChannelHolds == Spec => []TasksFindChannel
<1>1. ASSUME AllInv, NEW s \in Sides,
             \/ Ready(s, "LogInReq") \/ Ready(s, "LogInRsp") \/ Ready(s, "InitOpen")
             \/ Ready(s, "OpenReq") /\ ~(s = Cli /\ MayCancel /\ cstate = "NULL")
      PROVE  chan[s] = "up"
  <2>0. /\ TypeOK /\ CliInv /\ LogInInv /\ Counted /\ DtorInOrder(s) /\ SrvLogIn
        /\ LogInWays /\ SrvInPeer /\ CliInPeer /\ s \in {Cli, Srv} /\ wq[s] # <<>>
        /\ cstate \in {"NULL", "CONNECTING", "PEER"} /\ inside[s] = "none"
    BY <1>1 DEF AllInv, Known, EndInv, Sides, Ready, TypeOK, CliTypeOK
  <2>1. dtor[s] # "stopped"
    BY <2>0 DEF DtorInOrder
  <2>2. CASE s = Cli
    <3>1. ~Ready(Cli, "LogInReq")
      BY <2>0, <2>2, ReadyHas DEF LogInWays
    <3>2. Ready(Cli, "LogInRsp") \/ Ready(Cli, "InitOpen") => chan[Cli] = "up"
      BY <2>0, LogInIsInOrder, LogInIsConnecting DEF Counted
    <3>3. ASSUME Ready(Cli, "OpenReq"), ~(MayCancel /\ cstate = "NULL") PROVE chan[Cli] = "up"
      <4>1. CASE cstate = "NULL"
        <5>1. ~GracefulFinish /\ ~CancelsToNull /\ Has(wq[Cli], "OpenReq")
          BY <2>0, <3>3, <4>1, ReadyHas, SidesAreSides DEF MayCancel
        <5> QED BY <2>0, <2>2, <4>1, <5>1 DEF CliInPeer, AtOnDone
      <4>2. CASE cstate = "CONNECTING"
        BY <2>0, <4>2 DEF Counted
      <4>3. CASE cstate = "PEER"
        BY <2>0, <2>1, <2>2, <4>3 DEF CliInPeer
      <4> QED BY <2>0, <4>1, <4>2, <4>3
    <3> QED BY <1>1, <2>2, <3>1, <3>2, <3>3
  <2>3. CASE s = Srv
    <3>1. ~Ready(Srv, "LogInRsp") /\ ~Ready(Srv, "InitOpen")
      BY <2>0, <2>3, ReadyHas DEF LogInWays
    <3>2. Ready(Srv, "LogInReq") => chan[Srv] = "up"
      BY <2>0, <2>3, ReadyHas DEF SrvLogIn
    <3>3. Ready(Srv, "OpenReq") => chan[Srv] = "up"
      BY <2>0, <2>1, <2>3, ReadyHas DEF SrvInPeer, SrvLogIn
    <3> QED BY <1>1, <2>3, <3>1, <3>2, <3>3
  <2> QED BY <2>0, <2>2, <2>3
<1>2. AllInv => TasksFindChannel
  BY <1>1 DEF TasksFindChannel
<1> QED BY <1>2, AllInvHolds, PTL

\* The destructor of a session with a Graceful_finisher is over only when the
\* opposing one has begun, or the opposing side is cut off or gone, in whatever
\* order farewells, errors and destructors of the two sides meet.
THEOREM GracefulBarrierHolds == Spec => []GracefulBarrier
<1>1. AllInv => GracefulBarrier
  <2> SUFFICES ASSUME AllInv, NEW s \in Sides, dtor[s] = "stopped", finisher[s] # "none"
               PROVE  dtor[Peer(s)] # "no" \/ linkDown \/ chan[Peer(s)] = "reset"
    BY DEF GracefulBarrier
  <2>1. finisher[s] \in {"none", "pending", "done"}
    BY DEF AllInv, Known, TypeOK, BaseTypeOK, EndTypeOK
  <2>2. finisher[s] = "done"
    BY <2>1 DEF AllInv, EndInv, DtorInOrder
  <2>3. chErr[s] \/ dtor[Peer(s)] \in FinSent
    BY <2>2 DEF AllInv, EndInv, FinOnce
  <2>4. chErr[s] => linkDown \/ chan[Peer(s)] = "reset"
    BY DEF AllInv, EndInv, ErrReason
  <2> QED BY <2>3, <2>4 DEF FinSent
<1> QED BY <1>1, AllInvHolds, PTL

\* The handler of GracefulSessionEnd finds m_opposing_session_done unfulfilled:
\* a farewell is taken once, and never after an error has fulfilled the promise.
THEOREM FinFulfilsOnceHolds == Spec => []FinFulfilsOnce
<1>1. AllInv => FinFulfilsOnce
  <2> SUFFICES ASSUME AllInv, NEW s \in Sides, Ready(s, "Fin") PROVE finisher[s] = "pending"
    BY DEF FinFulfilsOnce
  <2>1. Has(wq[s], "Fin")
    BY ReadyHas DEF AllInv, Known
  <2> QED BY <2>1 DEF AllInv, EndInv, FinOnce
<1> QED BY <1>1, AllInvHolds, PTL
=============================================================================
