------------------------------ MODULE OpenProofs ------------------------------
(***************************************************************************)
(* A channel that open_channel() has returned is one the opposing user has   *)
(* been given or is just being given, for any bounds and switches of         *)
(* SessionPair.                                                              *)
(*                                                                         *)
(* The answer leaves before the passive side's user gets the channel, but the *)
(* thread that has sent it goes on to his handler and to nothing else; an     *)
(* answer carries the number of its request, and the active side takes only   *)
(* the answer to its present request: RspBacked says so of every answer on    *)
(* its way.  The destructor does not cut the handler short: when it stops W,  *)
(* W can no longer send and has no handler running (NotCutShort).            *)
(*                                                                         *)
(* A new connection finds a server that has been given nothing, so the       *)
(* client must not have opened anything before: OpensInPeer, which rests on   *)
(* PeerProofs: a client never leaves PEER state.                             *)
(***************************************************************************)
EXTENDS PeerProofs

-----------------------------------------------------------------------------
(* The invariant.                                                           *)

\* The answers in q that say a channel is open are about the channels in set.
Backed(q, set) ==
  \A i \in 1..Len(q) : q[i].type = "OpenRsp" /\ q[i].note = "ok" => q[i].id \in set

\* What the user of side s has been given, or is being given.
Given(s) == {i \in Nat : i \in passiveOpened[s] \/ BeingGiven(s, i)}

RspBacked == \A s \in Sides : Backed(net[s], Given(Peer(s)))

\* The destructor does not stop W in a passive-open handler.
NotCutShort == \A s \in Sides : inside[s] = "passive" => dtor[s] # "stopping"

NoOpenIn(q) == \A i \in 1..Len(q) : q[i].type # "Open"

\* The client opens nothing, and W is not asked to, out of PEER state.
NothingOpen == activeOpened[Cli] = {} /\ inside[Cli] # "open" /\ NoOpenIn(wq[Cli])
OpensInPeer == cstate # "PEER" => NothingOpen

OpenInv ==
  TypeOK /\ NotCutShort /\ RspBacked /\ ActiveImpliesPassive /\ OpensInPeer

-----------------------------------------------------------------------------
(* Queues.                                                                  *)

\* A queue that loses its head, or gains tasks, has the tasks it had or gained.
LEMMA NoOpenKept ==
  ASSUME NEW q \in Seq(Item), NoOpenIn(q)
  PROVE  /\ q # <<>> => NoOpenIn(Tail(q))
         /\ \A ts \in Seq(Item) : NoOpenIn(ts) => NoOpenIn(q \o ts)
         /\ \A t \in Item : t.type # "Open" => NoOpenIn(Append(q, t))
<1>1. q # <<>> => NoOpenIn(Tail(q))
  BY QueueElements DEF NoOpenIn
<1>2. ASSUME NEW ts \in Seq(Item), NoOpenIn(ts) PROVE NoOpenIn(q \o ts)
  BY <1>2, QueueElements DEF NoOpenIn
<1>3. ASSUME NEW t \in Item, t.type # "Open" PROVE NoOpenIn(Append(q, t))
  <2>1. NoOpenIn(<<t>>)
    BY <1>3, OneMore DEF NoOpenIn
  <2> QED BY <1>2, <2>1, OneMore
<1> QED BY <1>1, <1>2, <1>3

\* The same of answers.
LEMMA BackedKept ==
  ASSUME NEW q \in Seq(Item), NEW P, NEW R, P \subseteq R, Backed(q, P)
  PROVE  /\ Backed(q, R) /\ Backed(<<>>, R)
         /\ q # <<>> => Backed(Tail(q), R)
         /\ \A ts \in Seq(Item) : Backed(ts, R) => Backed(q \o ts, R)
<1>1. Backed(q, R)
  BY DEF Backed
<1>2. q # <<>> => Backed(Tail(q), R)
  BY <1>1, QueueElements DEF Backed
<1>3. ASSUME NEW ts \in Seq(Item), Backed(ts, R) PROVE Backed(q \o ts, R)
  BY <1>1, <1>3, QueueElements DEF Backed
<1> QED BY <1>1, <1>2, <1>3 DEF Backed

-----------------------------------------------------------------------------
(* The passive-open handlers.                                               *)

\* What the channels given to the passive users do in every step but a new
\* connection.
Grows == \A s \in Sides : Given(s) \subseteq Given(s)'

\* A queue that gains a task keeps its head.
LEMMA HeadStays ==
  ASSUME NEW q \in Seq(Item), q # <<>>, NEW t
  PROVE  Append(q, t) # <<>> /\ Head(Append(q, t)) = Head(q)
<1>1. q \in Seq(Item \cup {t}) /\ t \in Item \cup {t}
  OBVIOUS
<1> QED BY <1>1

\* A step of W of side r leaves the opposing W where it is.
LEMMA TaskIsLocal ==
  ASSUME TypeOK, NEW r \in Sides, NEW s \in Sides, r # s,
         \/ SharedTask(r)
         \/ r = Cli /\ CliTask /\ ~(ConnectReaches /\ NewServerSession)
         \/ r = Srv /\ SrvTask
  PROVE  wq'[s] = wq[s] /\ inside'[s] = inside[s]
<1>0. DOMAIN wq = Sides /\ DOMAIN inside = Sides
  BY DEF TypeOK, BaseTypeOK, ThreadTypeOK
<1>1. CASE SharedTask(r)
  BY <1>0, <1>1 DEF SharedTask, Common, Open, OnOpenReq, OnPassiveOpen, OnFin, DtorBegin,
     DtorFin, DtorFlush, Done
<1>2. CASE r = Cli /\ CliTask /\ ~(ConnectReaches /\ NewServerSession)
  BY <1>0, <1>2 DEF CliTask, Connect, Client, ConnectRefused, ConnectFails, LogInRspBad,
     LogInRspOk, LogInRspAwaitInit, InitOpenMore, InitOpenTooLate, InitOpenLast,
     OnDoneOk, OnDoneToConnecting, OnDoneToNull, OnDoneReturns, CompleteOk, CompleteBad,
     CompleteTooLate, CliErrStale, CliErrConnecting, CliErrPeer, CliToken, ConnectBreaks,
     ExpectOpenReqs, Connected, EmplaceFinisher, Done, DoneThen
<1>3. CASE r = Srv /\ SrvTask
  BY <1>0, <1>3 DEF SrvTask, Server, AcceptFails, AcceptStarts, LogInReqRefused,
     LogInRspUnsent, LogInReqOk, LogInReqAwaitAck, LogInReqInitFails,
     InitHandlersAgain, InitHandlersErr, InitHandlersOk, EmitPreInitErr,
     SrvErrStale, SrvErrLogIn, SrvErrAlmostPeer, SrvErrPeer, SrvToken, SrvMdt,
     EmplaceFinisher, Done, DoneThen
<1> QED BY <1>1, <1>2, <1>3

\* While W is in a passive-open handler it does nothing else: no task of its own
\* begins, and what the other threads do leaves it there with its request.
LEMMA HandlerGoesOn ==
  ASSUME TypeOK, NEW s \in Sides, Giving(s), dtor[s] # "stopping", [Next]_vars,
         ~Common(OnPassiveOpen(s)), ~(ConnectReaches /\ NewServerSession)
  PROVE  Giving(s)' /\ Task(s)' = Task(s)
<1>0. /\ inside[s] = "passive" /\ wq[s] # <<>> /\ wq[s] \in Seq(Item)
      /\ DOMAIN wq = Sides /\ DOMAIN inside = Sides
      /\ \A t : ~Ready(s, t)
  BY DEF Giving, Ready, TypeOK, BaseTypeOK, ThreadTypeOK
<1> DEFINE Goes == /\ inside'[s] = inside[s]
                   /\ wq'[s] = wq[s] \/ \E t : wq'[s] = Append(wq[s], t)
<1>1. Goes => Giving(s)' /\ Task(s)' = Task(s)
  <2>1. \A t : wq'[s] = Append(wq[s], t) => wq'[s] # <<>> /\ Head(wq'[s]) = Head(wq[s])
    BY <1>0, HeadStays
  <2> QED BY <1>0, <2>1 DEF Giving, Task
<1>2. ASSUME NEW r \in Sides,
             \/ SharedTask(r)
             \/ r = Cli /\ CliTask
             \/ r = Srv /\ SrvTask
      PROVE  Goes
  <2>1. r # s
    <3>1. CASE SharedTask(r)
      BY <1>0, <3>1 DEF SharedTask, Common, Open, OnOpenReq, OnFin, DtorBegin, DtorFin,
         DtorFlush
    <3>2. CASE r = Cli /\ CliTask
      BY <1>0, <3>2 DEF CliTask, Connect, Client, ConnectRefused, ConnectFails, LogInRspBad,
         LogInRspOk, LogInRspAwaitInit, InitOpenMore, InitOpenTooLate, InitOpenLast,
         OnDoneOk, OnDoneToConnecting, OnDoneToNull, OnDoneReturns, CompleteOk, CompleteBad,
         CompleteTooLate, CliErrStale, CliErrConnecting, CliErrPeer, CliToken
    <3>3. CASE r = Srv /\ SrvTask
      BY <1>0, <3>3 DEF SrvTask, Server, AcceptFails, AcceptStarts, LogInReqRefused,
         LogInRspUnsent, LogInReqOk, LogInReqAwaitAck, LogInReqInitFails,
         InitHandlersAgain, InitHandlersErr, InitHandlersOk, EmitPreInitErr,
         SrvErrStale, SrvErrLogIn, SrvErrAlmostPeer, SrvErrPeer, SrvToken, SrvMdt
    <3> QED BY <1>2, <3>1, <3>2, <3>3
  <2> QED BY <1>2, <2>1, TaskIsLocal
<1>3. ASSUME NEW r \in Sides, WcStep(r) \/ Timeout(r) PROVE Goes
  <2>1. CASE \/ Common(DeliverLogIn(r)) \/ Common(DeliverOpenReq(r)) \/ Common(DeliverFin(r))
             \/ Common(DropLateRsp(r)) \/ Common(DetectError(r))
    <3>1. UNCHANGED inside /\ (UNCHANGED wq \/ \E t : Post(r, t))
      BY <2>1 DEF Common, DeliverLogIn, DeliverOpenReq, DeliverFin, DropLateRsp,
         DetectError, threadVars
    <3> QED BY <1>0, <3>1 DEF Post
  <2>2. CASE \/ Common(OpenAnswered(r)) \/ Common(OpenBroken(r)) \/ Common(OpenTimeout(r))
             \/ r = Srv /\ (Server(InitAcked) \/ Server(InitBroken))
    <3>1. /\ inside[r] # "passive" /\ inside' = [inside EXCEPT ![r] = "none"]
          /\ UNCHANGED wq \/ \E t : Post(r, t)
      BY <2>2 DEF Common, Server, OpenAnswered, OpenBroken, OpenTimeout, InitAcked, InitBroken
    <3> QED BY <1>0, <3>1 DEF Post
  <2> QED BY <1>3, <2>1, <2>2 DEF WcStep, Timeout
<1>4. ASSUME NEW r \in Sides, DtorStep(r) PROVE Goes
  <2>1. UNCHANGED inside
        /\ \/ \E t : Post(r, t)
           \/ dtor[r] = "stopping" /\ wq' = [wq EXCEPT ![r] = <<>>]
    BY <1>4 DEF DtorStep, Common, Server, DtorGreet, DtorGoOn, DtorStop, SrvDtorStop
  <2> QED BY <1>0, <2>1 DEF Post
<1>5. ASSUME Discard \/ UserStep \/ SubclassStep \/ Break \/ UNCHANGED vars PROVE Goes
  <2>1. UNCHANGED inside /\ (UNCHANGED wq \/ \E r \in Sides : \E t : Post(r, t))
    BY <1>5, SidesAreSides DEF Discard, UserStep, SubclassStep, Break, Common, Client, Server,
       DtorStart, CallConnect, CliCallOpen, CallOpen, SrvCallInitHandlers, SrvCallMdt,
       SrvCallOpen, SrvOpenEmpty, Call, SubclassPosts, LinkFail, vars, baseVars, threadVars
  <2> QED BY <1>0, <2>1 DEF Post
<1> HIDE DEF Goes
<1> QED BY <1>1, <1>2, <1>3, <1>4, <1>5, SidesAreSides DEF Next

\* Only a passive-open handler that returns adds to passiveOpened; only a new
\* connection takes away from it.
LEMMA PassiveWays ==
  ASSUME [Next]_vars, ~(ConnectReaches /\ NewServerSession)
  PROVE  \/ UNCHANGED passiveOpened
         \/ \E s \in Sides : Common(OnPassiveOpen(s))
<1>1. ASSUME CliTask PROVE UNCHANGED passiveOpened
  BY <1>1 DEF CliTask, Connect, Client, ConnectRefused, ConnectFails, LogInRspBad,
     LogInRspOk, LogInRspAwaitInit, InitOpenMore, InitOpenTooLate, InitOpenLast,
     OnDoneOk, OnDoneToConnecting, OnDoneToNull, CompleteOk, CompleteBad,
     CompleteTooLate, CliErrStale, CliErrConnecting, CliErrPeer, CliToken,
     ConnectBreaks, peerVars
<1>2. ASSUME SrvTask PROVE UNCHANGED passiveOpened
  BY <1>2 DEF SrvTask, Server, AcceptFails, AcceptStarts, LogInReqRefused,
     LogInRspUnsent, LogInReqOk, LogInReqAwaitAck, LogInReqInitFails,
     InitHandlersAgain, InitHandlersErr, InitHandlersOk, EmitPreInitErr,
     SrvErrStale, SrvErrLogIn, SrvErrAlmostPeer, SrvErrPeer, SrvToken, SrvMdt, peerVars
<1>3. ASSUME NEW s \in Sides, SharedTask(s), ~Common(OnPassiveOpen(s))
      PROVE  UNCHANGED passiveOpened
  BY <1>3 DEF SharedTask, Common, Open, OnOpenReq, OnFin, DtorBegin, DtorFin, DtorFlush,
     peerVars
<1>4. ASSUME NEW s \in Sides, WcStep(s) \/ Timeout(s) \/ DtorStep(s)
      PROVE  UNCHANGED passiveOpened
  BY <1>4 DEF WcStep, Timeout, DtorStep, Common, Server, DeliverLogIn, DeliverOpenReq,
     DeliverFin, DropLateRsp, DetectError, OpenAnswered, OpenBroken, InitAcked, InitBroken,
     OpenTimeout, DtorGreet, DtorGoOn, DtorStop, SrvDtorStop, peerVars
<1>5. ASSUME Discard \/ UserStep \/ SubclassStep \/ Break \/ UNCHANGED vars
      PROVE  UNCHANGED passiveOpened
  BY <1>5 DEF Discard, UserStep, SubclassStep, Break, Common, Client, Server, DtorStart,
     CallConnect, CliCallOpen, CallOpen, SrvCallInitHandlers, SrvCallMdt, SrvCallOpen,
     SrvOpenEmpty, Call, SubclassPosts, LinkFail, vars, baseVars, peerVars
<1> QED BY <1>1, <1>2, <1>3, <1>4, <1>5 DEF Next

\* What a user has been given, or is being given, stays given.
LEMMA GivenGrows ==
  ASSUME TypeOK, NotCutShort, [Next]_vars
  PROVE  Grows \/ (ConnectReaches /\ NewServerSession)
<1> SUFFICES ASSUME ~(ConnectReaches /\ NewServerSession), NEW s \in Sides,
                    NEW i \in Given(s)
             PROVE  i \in Given(s)'
  BY DEF Grows
<1>0. /\ passiveOpened \in [Sides -> SUBSET Nat] /\ i \in Nat
      /\ i \in passiveOpened[s] \/ BeingGiven(s, i)
  BY DEF Given, TypeOK, BaseTypeOK, PeerTypeOK
<1>1. CASE i \in passiveOpened[s]
  <2>1. i \in passiveOpened'[s]
    BY <1>0, <1>1, PassiveWays DEF Common, OnPassiveOpen
  <2> QED BY <1>0, <2>1 DEF Given
<1>2. CASE BeingGiven(s, i) /\ Common(OnPassiveOpen(s))
  <2>1. passiveOpened' = [passiveOpened EXCEPT ![s] = @ \cup {Task(s).id}] /\ Task(s).id = i
    BY <1>2 DEF Common, OnPassiveOpen, BeingGiven
  <2>2. i \in passiveOpened'[s]
    BY <1>0, <2>1
  <2> QED BY <1>0, <2>2 DEF Given
<1>3. CASE BeingGiven(s, i) /\ ~Common(OnPassiveOpen(s))
  <2>1. Giving(s) /\ dtor[s] # "stopping"
    BY <1>3 DEF BeingGiven, Giving, NotCutShort
  <2>2. Giving(s)' /\ Task(s)' = Task(s)
    BY <1>3, <2>1, HandlerGoesOn
  <2> QED BY <1>0, <1>3, <2>2 DEF Given, BeingGiven
<1> QED BY <1>0, <1>1, <1>2, <1>3

\* A handler begins only where the response has been sent, which the destructor
\* makes impossible before it stops W; and W flushes only in between handlers.
LEMMA NotCutShortStays ==
  ASSUME TypeOK, NotCutShort, [Next]_vars
  PROVE  NotCutShort'
<1> SUFFICES ASSUME NEW s \in Sides, inside'[s] = "passive" PROVE dtor'[s] # "stopping"
  BY DEF NotCutShort
<1>0. /\ DOMAIN inside = Sides /\ DOMAIN dtor = Sides
      /\ inside[s] = "passive" => dtor[s] # "stopping"
  BY DEF NotCutShort, TypeOK, BaseTypeOK, ThreadTypeOK, EndTypeOK
<1>1. \/ UNCHANGED dtor \/ dtor'[s] = dtor[s]
      \/ \E r \in Sides : Common(DtorFlush(r))
      \/ dtor'[s] # "stopping"
  <2>1. ASSUME CliTask PROVE UNCHANGED dtor \/ dtor'[s] \in {dtor[s], "no"}
    BY <1>0, <2>1, SidesAreSides DEF CliTask, Connect, Client, ConnectRefused, ConnectFails,
       ConnectReaches, FreshServer, LogInRspBad, LogInRspOk, LogInRspAwaitInit,
       InitOpenMore, InitOpenTooLate, InitOpenLast, OnDoneOk, OnDoneToConnecting,
       OnDoneToNull, CompleteOk, CompleteBad, CompleteTooLate, CliErrStale,
       CliErrConnecting, CliErrPeer, CliToken, ConnectBreaks, endVars
  <2>2. ASSUME SrvTask PROVE UNCHANGED dtor
    BY <2>2 DEF SrvTask, Server, AcceptFails, AcceptStarts, LogInReqRefused,
       LogInRspUnsent, LogInReqOk, LogInReqAwaitAck, LogInReqInitFails,
       InitHandlersAgain, InitHandlersErr, InitHandlersOk, EmitPreInitErr,
       SrvErrStale, SrvErrLogIn, SrvErrAlmostPeer, SrvErrPeer, SrvToken, SrvMdt, endVars
  <2>3. ASSUME NEW r \in Sides, SharedTask(r), ~Common(DtorFlush(r))
        PROVE  UNCHANGED dtor \/ dtor'[s] = dtor[s] \/ dtor'[s] # "stopping"
    BY <1>0, <2>3 DEF SharedTask, Common, Open, OnOpenReq, OnPassiveOpen, OnFin,
       DtorBegin, DtorFin, endVars
  <2>4. ASSUME NEW r \in Sides, WcStep(r) \/ Timeout(r) \/ DtorStep(r)
        PROVE  UNCHANGED dtor \/ dtor'[s] = dtor[s] \/ dtor'[s] # "stopping"
    BY <1>0, <2>4 DEF WcStep, Timeout, DtorStep, Common, Server, DeliverLogIn,
       DeliverOpenReq, DeliverFin, DropLateRsp, DetectError, OpenAnswered, OpenBroken,
       InitAcked, InitBroken, OpenTimeout, DtorGreet, DtorGoOn, DtorStop, SrvDtorStop,
       endVars
  <2>5. ASSUME Discard \/ UserStep \/ SubclassStep \/ Break \/ UNCHANGED vars
        PROVE  UNCHANGED dtor \/ dtor'[s] = dtor[s] \/ dtor'[s] # "stopping"
    BY <1>0, <2>5, SidesAreSides DEF Discard, UserStep, SubclassStep, Break, Common, Client,
       Server, DtorStart, CallConnect, CliCallOpen, CallOpen, SrvCallInitHandlers,
       SrvCallMdt, SrvCallOpen, SrvOpenEmpty, Call, SubclassPosts, LinkFail, vars,
       baseVars, endVars
  <2> QED BY <2>1, <2>2, <2>3, <2>4, <2>5 DEF Next
<1>2. inside[s] = "passive" \/ Common(OnOpenReq(s))
  <2>1. ASSUME inside[s] # "passive", CliTask PROVE FALSE
    BY <1>0, <2>1, SidesAreSides DEF CliTask, Connect, Client, ConnectRefused, ConnectFails,
       ConnectReaches, LogInRspBad, LogInRspOk, LogInRspAwaitInit, InitOpenMore,
       InitOpenTooLate, InitOpenLast, OnDoneOk, OnDoneToConnecting, OnDoneToNull,
       OnDoneReturns, CompleteOk, CompleteBad, CompleteTooLate, CliErrStale,
       CliErrConnecting, CliErrPeer, CliToken, ConnectBreaks, Connected
  <2>2. ASSUME inside[s] # "passive", SrvTask PROVE FALSE
    BY <1>0, <2>2 DEF SrvTask, Server, AcceptFails, AcceptStarts, LogInReqRefused,
       LogInRspUnsent, LogInReqOk, LogInReqAwaitAck, LogInReqInitFails,
       InitHandlersAgain, InitHandlersErr, InitHandlersOk, EmitPreInitErr,
       SrvErrStale, SrvErrLogIn, SrvErrAlmostPeer, SrvErrPeer, SrvToken, SrvMdt
  <2>3. ASSUME NEW r \in Sides, inside[s] # "passive", SharedTask(r),
               ~Common(OnOpenReq(s))
        PROVE  FALSE
    BY <1>0, <2>3 DEF SharedTask, Common, Open, OnOpenReq, OnPassiveOpen, OnFin,
       DtorBegin, DtorFin, DtorFlush
  <2>4. ASSUME NEW r \in Sides, inside[s] # "passive",
               WcStep(r) \/ Timeout(r) \/ DtorStep(r)
        PROVE  FALSE
    BY <1>0, <2>4 DEF WcStep, Timeout, DtorStep, Common, Server, DeliverLogIn,
       DeliverOpenReq, DeliverFin, DropLateRsp, DetectError, OpenAnswered, OpenBroken,
       InitAcked, InitBroken, OpenTimeout, DtorGreet, DtorGoOn, DtorStop, SrvDtorStop,
       threadVars
  <2>5. ASSUME inside[s] # "passive",
               Discard \/ UserStep \/ SubclassStep \/ Break \/ UNCHANGED vars
        PROVE  FALSE
    BY <1>0, <2>5 DEF Discard, UserStep, SubclassStep, Break, Common, Client, Server,
       DtorStart, CallConnect, CliCallOpen, CallOpen, SrvCallInitHandlers, SrvCallMdt,
       SrvCallOpen, SrvOpenEmpty, Call, SubclassPosts, LinkFail, vars, baseVars, threadVars
  <2> QED BY <2>1, <2>2, <2>3, <2>4, <2>5 DEF Next
<1>3. CASE Common(OnOpenReq(s))
  <2>1. UNCHANGED dtor /\ (inside[s] = "passive" \/ dtor[s] # "stopping")
    BY <1>0, <1>3 DEF Common, OnOpenReq, Send, endVars
  <2> QED BY <1>0, <2>1
<1>4. CASE inside[s] = "passive" /\ \E r \in Sides : Common(DtorFlush(r))
  BY <1>0, <1>4 DEF Common, DtorFlush, Ready
<1> QED BY <1>0, <1>1, <1>2, <1>3, <1>4

-----------------------------------------------------------------------------
(* Answers on their way.                                                    *)

\* One side's incoming messages change, and stay backed.
LEMMA NetChanges ==
  ASSUME TypeOK, RspBacked, Grows, NEW s \in Sides, NEW q,
         net' = [net EXCEPT ![s] = q], Backed(q, Given(Peer(s))')
  PROVE  RspBacked'
<1>1. ASSUME NEW r \in Sides PROVE Backed(net'[r], Given(Peer(r))')
  <2>1. CASE r = s
    BY <2>1 DEF TypeOK, BaseTypeOK, ChanTypeOK
  <2>2. CASE r # s
    <3>1. net'[r] = net[r] /\ net[r] \in Seq(Item)
      BY <2>2 DEF TypeOK, BaseTypeOK, ChanTypeOK
    <3>2. Given(Peer(r)) \subseteq Given(Peer(r))'
      BY PeerOfPeer DEF Grows
    <3> QED BY <3>1, <3>2, BackedKept DEF RspBacked
  <2> QED BY <2>1, <2>2
<1> QED BY <1>1 DEF RspBacked

\* The ways of the messages: none, one taken, some sent, all dropped.
LEMMA NetWays ==
  ASSUME TypeOK, RspBacked, Grows,
         \/ UNCHANGED net
         \/ \E s \in Sides, t \in TaskTypes : Arrives(s, t)
         \/ \E s \in Sides : net' = [net EXCEPT ![s] = <<>>]
         \/ \E s \in Sides, ms \in Seq(Item), out \in SendOutcomes :
              /\ Send(s, ms, out)
              /\ out = "ok" => Backed(ms, Given(s)')
  PROVE  RspBacked'
<1>0. \A s \in Sides : /\ net[s] \in Seq(Item)
                       /\ Backed(net[s], Given(Peer(s)))
                       /\ Given(Peer(s)) \subseteq Given(Peer(s))'
  BY PeerOfPeer DEF TypeOK, BaseTypeOK, ChanTypeOK, RspBacked, Grows
<1>1. CASE UNCHANGED net
  <2>1. \A s \in Sides : Backed(net[s], Given(Peer(s))')
    BY <1>0, BackedKept
  <2> QED BY <1>1, <2>1 DEF RspBacked
<1>2. ASSUME NEW s \in Sides, NEW t \in TaskTypes, Arrives(s, t) PROVE RspBacked'
  <2>1. net[s] # <<>> /\ net' = [net EXCEPT ![s] = Tail(net[s])]
    BY <1>2 DEF Arrives
  <2>2. Backed(Tail(net[s]), Given(Peer(s))')
    BY <1>0, <2>1, BackedKept
  <2> QED BY <2>1, <2>2, NetChanges
<1>3. ASSUME NEW s \in Sides, net' = [net EXCEPT ![s] = <<>>] PROVE RspBacked'
  <2>1. Backed(<<>>, Given(Peer(s))')
    BY DEF Backed
  <2> QED BY <1>3, <2>1, NetChanges
<1>4. ASSUME NEW s \in Sides, NEW ms \in Seq(Item), NEW out \in SendOutcomes,
             Send(s, ms, out), out = "ok" => Backed(ms, Given(s)')
      PROVE  RspBacked'
  <2>1. CASE net' = net
    BY <1>1, <2>1
  <2>2. CASE net' # net
    <3>1. out = "ok" /\ net' = [net EXCEPT ![Peer(s)] = net[Peer(s)] \o ms]
      BY <1>4, <2>2 DEF Send
    <3>2. Backed(net[Peer(s)] \o ms, Given(Peer(Peer(s)))')
      BY <1>0, <1>4, <3>1, PeerOfPeer, BackedKept
    <3> QED BY <3>1, <3>2, PeerOfPeer, NetChanges
  <2> QED BY <2>1, <2>2
<1> QED BY <1>1, <1>2, <1>3, <1>4

\* Messages that are no answers to open_channel().
LEMMA NoAnswers ==
  ASSUME NEW P
  PROVE  /\ \A t \in TaskTypes : t # "OpenRsp" => Backed(<<Plain(t)>>, P)
         /\ \A i : Backed(<<New("OpenReq", i, "user")>>, P)
         /\ \A i : Backed(<<New("OpenRsp", i, "init")>>, P)
BY DEF Backed, Plain, New

\* The log-in response and the requests that announce init-channels.
LEMMA LogInBacked ==
  ASSUME NEW P, NEW k \in Nat
  PROVE  /\ <<Plain("LogInRsp")>> \o InitReqs(k) \in Seq(Item)
         /\ Backed(<<Plain("LogInRsp")>> \o InitReqs(k), P)
<1>1. Plain("LogInRsp") \in Item /\ InitReqs(k) \in Seq(Item)
  BY PlainIsItem, InitReqsAreTyped DEF TaskTypes, MsgTypes
<1>2. <<Plain("LogInRsp")>> \in Seq(Item) /\ Backed(<<Plain("LogInRsp")>>, P)
  BY <1>1, NoAnswers DEF TaskTypes, MsgTypes
<1>3. Backed(InitReqs(k), P)
  BY DEF Backed, InitReqs, InitReq, New
<1> QED BY <1>1, <1>2, <1>3, BackedKept, QueueElements

\* The client's tasks.
LEMMA CliTaskBacked ==
  ASSUME TypeOK, RspBacked, CliTask, Grows \/ (ConnectReaches /\ NewServerSession)
  PROVE  RspBacked'
<1>1. CASE ConnectReaches /\ NewServerSession
  <2>1. PICK out \in SendOutcomes :
          net' = [net EXCEPT ![Cli] = <<>>,
                    ![Srv] = IF out = "ok" THEN <<Plain("LogInReq")>> ELSE <<>>]
    BY <1>1 DEF ConnectReaches, SendOutcomes
  <2>2. net'[Cli] = <<>> /\ net'[Srv] \in {<<>>, <<Plain("LogInReq")>>}
    BY <2>1, PeerOfPeer DEF TypeOK, BaseTypeOK, ChanTypeOK, Sides
  <2>3. \A P : Backed(<<>>, P) /\ Backed(<<Plain("LogInReq")>>, P)
    BY NoAnswers DEF Backed, TaskTypes, MsgTypes
  <2> QED BY <2>2, <2>3, PeerOfPeer DEF RspBacked
<1>2. CASE \/ Client(ConnectRefused) \/ Client(ConnectFails) \/ Client(LogInRspOk)
           \/ Client(LogInRspAwaitInit) \/ Client(InitOpenMore) \/ Client(InitOpenTooLate)
           \/ Client(OnDoneOk) \/ Client(OnDoneToConnecting)
           \/ Client(CompleteOk) \/ Client(CompleteTooLate) \/ Client(CliErrStale)
           \/ Client(CliErrPeer) \/ Client(CliToken)
  <2>1. UNCHANGED net
    BY <1>2 DEF Client, ConnectRefused, ConnectFails, LogInRspOk, LogInRspAwaitInit,
       InitOpenMore, InitOpenTooLate, OnDoneOk, OnDoneToConnecting, CompleteOk,
       CompleteTooLate, CliErrStale, CliErrPeer, CliToken, chanVars
  <2> QED BY <1>1, <2>1, NetWays
<1>3. CASE \/ Client(LogInRspBad) \/ Client(OnDoneToNull) \/ Client(CompleteBad)
           \/ Client(CliErrConnecting)
  <2>1. net' = [net EXCEPT ![Cli] = <<>>]
    BY <1>3 DEF Client, LogInRspBad, OnDoneToNull, CompleteBad, CliErrConnecting,
       ConnectBreaks, DropChannel
  <2> QED BY <1>1, <2>1, NetWays, SidesAreSides
<1>4. CASE Client(InitOpenLast)
  <2> DEFINE m == New("OpenRsp", Task(Cli).id, "init")
  <2>1. Ready(Cli, "InitOpen") /\ \E out \in SendOutcomes : Send(Cli, <<m>>, out)
    BY <1>4 DEF Client, InitOpenLast
  <2>2. m \in Item
    BY <2>1, TaskIsItem, NewIsItem, PeerOfPeer
       DEF TypeOK, BaseTypeOK, Sides, TaskTypes, MsgTypes, Notes
  <2>3. <<m>> \in Seq(Item) /\ \A P : Backed(<<m>>, P)
    BY <2>2, NoAnswers
  <2> HIDE DEF m
  <2> QED BY <1>1, <2>1, <2>3, NetWays, SidesAreSides
<1> QED BY <1>1, <1>2, <1>3, <1>4 DEF CliTask, Connect

\* The server's tasks.
LEMMA SrvTaskBacked ==
  ASSUME TypeOK, RspBacked, SrvTask, Grows
  PROVE  RspBacked'
<1>1. Srv \in Sides /\ Cli \in Sides
  BY SidesAreSides
<1>2. CASE \/ Server(AcceptStarts) \/ Server(InitHandlersAgain) \/ Server(InitHandlersErr)
           \/ Server(InitHandlersOk) \/ Server(EmitPreInitErr) \/ Server(SrvErrStale)
           \/ Server(SrvErrAlmostPeer) \/ Server(SrvErrPeer) \/ Server(SrvToken)
           \/ Server(SrvMdt)
  <2>1. UNCHANGED net
    BY <1>2 DEF Server, AcceptStarts, InitHandlersAgain, InitHandlersErr, InitHandlersOk,
       EmitPreInitErr, SrvErrStale, SrvErrAlmostPeer, SrvErrPeer, SrvToken, SrvMdt, chanVars
  <2> QED BY <1>1, <2>1, NetWays
<1>3. CASE \/ Server(AcceptFails) \/ Server(LogInReqRefused) \/ Server(LogInRspUnsent)
           \/ Server(SrvErrLogIn)
  <2>1. UNCHANGED net \/ net' = [net EXCEPT ![Srv] = <<>>]
    BY <1>3 DEF Server, AcceptFails, LogInReqRefused, LogInRspUnsent, SrvErrLogIn, LogInFails
  <2> QED BY <1>1, <2>1, NetWays
<1>4. CASE Server(LogInReqOk)
  <2>1. Send(Srv, <<Plain("LogInRsp")>>, "ok") /\ "ok" \in SendOutcomes
    BY <1>4 DEF Server, LogInReqOk, SendOutcomes
  <2>2. <<Plain("LogInRsp")>> \in Seq(Item) /\ \A P : Backed(<<Plain("LogInRsp")>>, P)
    BY PlainIsItem, NoAnswers DEF TaskTypes, MsgTypes
  <2> QED BY <1>1, <2>1, <2>2, NetWays
<1>5. CASE Server(LogInReqAwaitAck)
  <2> DEFINE ms == <<Plain("LogInRsp")>> \o InitReqs(NInit)
  <2>1. Send(Srv, ms, "ok") /\ "ok" \in SendOutcomes
    BY <1>5 DEF Server, LogInReqAwaitAck, SendOutcomes
  <2>2. ms \in Seq(Item) /\ Backed(ms, Given(Srv)')
    BY LogInBacked, NInitIsNat
  <2> HIDE DEF ms
  <2> QED BY <1>1, <2>1, <2>2, NetWays
<1>6. CASE Server(LogInReqInitFails)
  <2>1. PICK k \in 0..NInit :
          net' = [net EXCEPT ![Srv] = <<>>, ![Cli] =
                    IF Gone(Srv) THEN @ ELSE @ \o <<Plain("LogInRsp")>> \o InitReqs(k)]
    BY <1>6 DEF Server, LogInReqInitFails
  <2> DEFINE ms == <<Plain("LogInRsp")>> \o InitReqs(k)
  <2>2. k \in Nat /\ InitReqs(k) \in Seq(Item) /\ <<Plain("LogInRsp")>> \in Seq(Item)
    BY NInitIsNat, InitReqsAreTyped, PlainIsItem DEF TaskTypes, MsgTypes
  <2>3. net[Cli] \o <<Plain("LogInRsp")>> \o InitReqs(k) = net[Cli] \o ms
    BY <1>1, <2>2, ConcatAssociative DEF TypeOK, BaseTypeOK, ChanTypeOK
  <2>4. ms \in Seq(Item) /\ Backed(ms, Given(Srv)')
    BY <2>2, LogInBacked
  <2>5. net'[Srv] = <<>> /\ net'[Cli] \in {net[Cli], net[Cli] \o ms}
    BY <1>1, <2>1, <2>3, PeerOfPeer DEF TypeOK, BaseTypeOK, ChanTypeOK
  <2> HIDE DEF ms
  <2>6. Backed(net[Cli], Given(Srv)') /\ net[Cli] \in Seq(Item)
    <3>1. /\ net[Cli] \in Seq(Item) /\ Backed(net[Cli], Given(Srv))
          /\ Given(Srv) \subseteq Given(Srv)'
      BY <1>1, PeerOfPeer DEF RspBacked, Grows, TypeOK, BaseTypeOK, ChanTypeOK
    <3> QED BY <3>1, BackedKept
  <2>7. Backed(net[Cli] \o ms, Given(Srv)')
    BY <2>4, <2>6, BackedKept, Zenon
  <2>8. Backed(net'[Cli], Given(Srv)')
    BY <2>5, <2>6, <2>7, Zenon
  <2>9. Backed(net'[Srv], Given(Cli)')
    BY <2>5 DEF Backed
  <2> QED BY <2>8, <2>9, PeerOfPeer DEF RspBacked
<1> QED BY <1>2, <1>3, <1>4, <1>5, <1>6 DEF SrvTask

\* The tasks both sides have: a request, an answer, GracefulSessionEnd.
LEMMA SharedTaskBacked ==
  ASSUME TypeOK, RspBacked, NEW s \in Sides, SharedTask(s), Grows
  PROVE  RspBacked'
<1>1. CASE Common(Open(s))
  <2> DEFINE m == New("OpenReq", opens[s] + 1, "user")
  <2>1. UNCHANGED net \/ \E out \in SendOutcomes : Send(s, <<m>>, out)
    BY <1>1 DEF Common, Open
  <2>2. m \in Item
    BY NewIsItem DEF TypeOK, BaseTypeOK, PeerTypeOK, TaskTypes, MsgTypes, Notes
  <2>3. <<m>> \in Seq(Item) /\ \A P : Backed(<<m>>, P)
    BY <2>2, NoAnswers
  <2> HIDE DEF m
  <2> QED BY <2>1, <2>3, NetWays
<1>2. CASE Common(OnOpenReq(s))
  <2>1. CASE Preempted(s)
    BY <1>2, <2>1, NetWays DEF Common, OnOpenReq
  <2>2. CASE ~Preempted(s)
    <3>1. PICK v \in Verdicts(s), out \in SendOutcomes :
            /\ Send(s, <<New("OpenRsp", Task(s).id, v)>>, out)
            /\ out = "ok" /\ v = "ok" =>
                 inside' = [inside EXCEPT ![s] = "passive"] /\ UNCHANGED wq
      BY <1>2, <2>2 DEF Common, OnOpenReq
    <3> DEFINE m == New("OpenRsp", Task(s).id, v)
    <3>2. m \in Item
      <4>1. Task(s).id \in Nat /\ v \in Notes
        BY <1>2, TaskIsItem
           DEF Common, OnOpenReq, Verdicts, Notes, TypeOK, BaseTypeOK
      <4> QED BY <4>1, NewIsItem DEF TaskTypes, MsgTypes
    <3>3. <<m>> \in Seq(Item) /\ \A i \in 1..Len(<<m>>) : <<m>>[i] = m
      BY <3>2, OneMore
    <3>5. out = "ok" => Backed(<<m>>, Given(s)')
      <4>1. m.id = Task(s).id /\ m.note = v
        BY DEF New
      <4>2. out = "ok" /\ v = "ok" => Task(s).id \in Given(s)'
        <5>1. wq[s] # <<>> /\ Task(s).type = "OpenReq" /\ Task(s).id \in Nat
          BY <1>2, TaskIsItem DEF Common, OnOpenReq, Ready, Task, TypeOK, BaseTypeOK
        <5>2. out = "ok" /\ v = "ok" => inside'[s] = "passive" /\ wq' = wq
          BY <3>1 DEF TypeOK, BaseTypeOK, ThreadTypeOK
        <5> QED BY <5>1, <5>2 DEF Given, BeingGiven, Giving, Task
      <4> HIDE DEF m
      <4> QED BY <3>3, <4>1, <4>2 DEF Backed
    <3>6. Send(s, <<m>>, out)
      BY <3>1
    <3> HIDE DEF m
    <3> QED BY <3>3, <3>5, <3>6, NetWays
  <2> QED BY <2>1, <2>2
<1>3. CASE Common(DtorFin(s))
  <2>1. \E out \in SendOutcomes : Send(s, <<Plain("Fin")>>, out)
    BY <1>3 DEF Common, DtorFin
  <2>2. <<Plain("Fin")>> \in Seq(Item) /\ \A P : Backed(<<Plain("Fin")>>, P)
    BY PlainIsItem, NoAnswers DEF TaskTypes, MsgTypes
  <2> QED BY <2>1, <2>2, NetWays
<1>4. CASE \/ Common(OnPassiveOpen(s)) \/ Common(OnFin(s))
           \/ Common(DtorBegin(s)) \/ Common(DtorFlush(s))
  <2>1. UNCHANGED net
    BY <1>4 DEF Common, OnPassiveOpen, OnFin, DtorBegin, DtorFlush, chanVars
  <2> QED BY <2>1, NetWays
<1> QED BY <1>1, <1>2, <1>3, <1>4 DEF SharedTask

\* The other threads: messages that arrive, and channels that go.
LEMMA ThreadStepBacked ==
  ASSUME TypeOK, RspBacked, Grows,
         \/ \E s \in Sides : WcStep(s) \/ Timeout(s) \/ DtorStep(s)
         \/ Discard \/ UserStep \/ SubclassStep \/ Break \/ UNCHANGED vars
  PROVE  RspBacked'
<1>1. ASSUME NEW s \in Sides, WcStep(s) PROVE RspBacked'
  <2>2. CASE \/ Common(DeliverLogIn(s)) \/ Common(DeliverOpenReq(s)) \/ Common(DeliverFin(s))
             \/ Common(DropLateRsp(s)) \/ Common(OpenAnswered(s))
             \/ (s = Srv /\ Server(InitAcked))
    <3>1. \E t \in TaskTypes : Arrives(s, t)
      BY <2>2 DEF Common, Server, DeliverLogIn, DeliverOpenReq, DeliverFin, DropLateRsp,
         OpenAnswered, InitAcked, TaskTypes, MsgTypes
    <3> QED BY <3>1, NetWays
  <2>3. CASE \/ Common(DetectError(s)) \/ Common(OpenBroken(s))
             \/ (s = Srv /\ Server(InitBroken))
    <3>1. UNCHANGED net \/ net' = [net EXCEPT ![s] = <<>>]
      BY <2>3 DEF Common, Server, DetectError, OpenBroken, InitBroken, LogInFails
    <3> QED BY <3>1, NetWays
  <2> QED BY <1>1, <2>2, <2>3 DEF WcStep
<1>2. ASSUME NEW s \in Sides, DtorStep(s) PROVE RspBacked'
  <2>1. UNCHANGED net \/ net' = [net EXCEPT ![s] = <<>>]
    BY <1>2 DEF DtorStep, Common, Server, DtorGreet, DtorGoOn, DtorStop, SrvDtorStop,
       chanVars
  <2> QED BY <2>1, NetWays
<1>3. CASE \/ \E s \in Sides : Timeout(s)
           \/ Discard \/ UserStep \/ SubclassStep \/ Break \/ UNCHANGED vars
  <2>1. UNCHANGED net
    BY <1>3 DEF Timeout, Discard, UserStep, SubclassStep, Break, Common, Client, Server,
       OpenTimeout, DtorStart, CallConnect, CliCallOpen, CallOpen, SrvCallInitHandlers,
       SrvCallMdt, SrvCallOpen, SrvOpenEmpty, Call, SubclassPosts, LinkFail, vars,
       baseVars, chanVars
  <2> QED BY <2>1, NetWays
<1> QED BY <1>1, <1>2, <1>3

\* Every answer that says a channel is open is about one the other user has.
LEMMA RspBackedStays ==
  ASSUME TypeOK, NotCutShort, RspBacked, [Next]_vars
  PROVE  RspBacked'
<1>1. Grows \/ (ConnectReaches /\ NewServerSession)
  BY GivenGrows
<1>2. CASE ConnectReaches /\ NewServerSession
  BY <1>2, CliTaskBacked DEF CliTask, Connect
<1>3. CASE Grows
  BY <1>3, CliTaskBacked, SrvTaskBacked, SharedTaskBacked, ThreadStepBacked DEF Next
<1> QED BY <1>1, <1>2, <1>3

-----------------------------------------------------------------------------
(* Channels opened actively.                                                *)

\* What the users have been given grows on both sides, or a new connection
\* finds a client that has opened nothing; the active side takes an answer.
LEMMA ActiveStays ==
  ASSUME TypeOK, NotCutShort, RspBacked, ActiveImpliesPassive, OpensInPeer, [Next]_vars
  PROVE  ActiveImpliesPassive'
<1>0. \A s \in Sides : Peer(s) \in Sides /\ activeOpened[s] \subseteq Given(Peer(s))
  BY PeerOfPeer DEF ActiveImpliesPassive, Given, TypeOK, BaseTypeOK, PeerTypeOK
<1>1. CASE ConnectReaches /\ NewServerSession
  <2>1. activeOpened[Cli] = {}
    BY <1>1 DEF ConnectReaches, OpensInPeer, NothingOpen
  <2>2. activeOpened'[Cli] = {} /\ activeOpened'[Srv] = {}
    BY <1>1, <2>1, PeerOfPeer
       DEF ConnectReaches, FreshServer, Sides, TypeOK, BaseTypeOK, PeerTypeOK
  <2> QED BY <2>2, PeerOfPeer DEF ActiveImpliesPassive
<1>2. CASE Grows /\ \A s \in Sides : activeOpened'[s] \subseteq Given(Peer(s))
  <2>1. ASSUME NEW s \in Sides, NEW i \in activeOpened'[s] PROVE i \in Given(Peer(s))'
    BY <1>0, <1>2, <2>1 DEF Grows
  <2> QED BY <2>1 DEF ActiveImpliesPassive, Given
<1>3. ASSUME NEW s \in Sides, Common(OpenAnswered(s))
      PROVE  \A r \in Sides : activeOpened'[r] \subseteq Given(Peer(r))
  <2>1. net[s] \in Seq(Item) /\ net[s] # <<>>
    BY <1>3 DEF Common, OpenAnswered, Arrives, TypeOK, BaseTypeOK, ChanTypeOK
  <2>2. 1 \in 1..Len(net[s]) /\ Head(net[s]) = net[s][1]
    BY <2>1
  <2>3. Head(net[s]).type = "OpenRsp" /\ Head(net[s]).id = opens[s]
    BY <1>3 DEF Common, OpenAnswered, Arrives, Answers
  <2>4. Head(net[s]).note = "ok" => opens[s] \in Given(Peer(s))
    BY <2>2, <2>3 DEF RspBacked, Backed
  <2>5. activeOpened' = [activeOpened EXCEPT ![s] =
          IF Head(net[s]).note = "ok" THEN @ \cup {opens[s]} ELSE @]
    BY <1>3 DEF Common, OpenAnswered
  <2>6. activeOpened \in [Sides -> SUBSET Nat]
    BY DEF TypeOK, BaseTypeOK, PeerTypeOK
  <2>7. ASSUME NEW r \in Sides PROVE activeOpened'[r] \subseteq Given(Peer(r))
    <3>1. CASE r = s
      BY <1>0, <2>4, <2>5, <2>6, <3>1
    <3>2. CASE r # s
      BY <1>0, <2>5, <2>6, <3>2
    <3> QED BY <3>1, <3>2
  <2> QED BY <2>7
<1>4. ASSUME CliTask /\ ~(ConnectReaches /\ NewServerSession)
      PROVE  UNCHANGED activeOpened
  BY <1>4 DEF CliTask, Connect, Client, ConnectRefused, ConnectFails, LogInRspBad,
     LogInRspOk, LogInRspAwaitInit, InitOpenMore, InitOpenTooLate, InitOpenLast,
     OnDoneOk, OnDoneToConnecting, OnDoneToNull, CompleteOk, CompleteBad,
     CompleteTooLate, CliErrStale, CliErrConnecting, CliErrPeer, CliToken,
     ConnectBreaks, peerVars
<1>5. ASSUME SrvTask
      PROVE  UNCHANGED activeOpened
  BY <1>5 DEF SrvTask, Server, AcceptFails, AcceptStarts, LogInReqRefused,
     LogInRspUnsent, LogInReqOk, LogInReqAwaitAck, LogInReqInitFails,
     InitHandlersAgain, InitHandlersErr, InitHandlersOk, EmitPreInitErr,
     SrvErrStale, SrvErrLogIn, SrvErrAlmostPeer, SrvErrPeer, SrvToken, SrvMdt,
     peerVars
<1>6. ASSUME \E s \in Sides : SharedTask(s)
      PROVE  UNCHANGED activeOpened
  BY <1>6 DEF SharedTask, Common, Open, OnOpenReq, OnPassiveOpen, OnFin, DtorBegin,
     DtorFin, DtorFlush, peerVars
<1>7. ASSUME \E s \in Sides : WcStep(s) /\ ~Common(OpenAnswered(s))
      PROVE  UNCHANGED activeOpened
  BY <1>7 DEF WcStep, Common, Server, DeliverLogIn, DeliverOpenReq, DeliverFin,
     DropLateRsp, DetectError, OpenBroken, InitAcked, InitBroken, peerVars
<1>8. ASSUME \/ \E s \in Sides : Timeout(s) \/ DtorStep(s)
             \/ Discard \/ UserStep \/ SubclassStep \/ Break \/ UNCHANGED vars
      PROVE  UNCHANGED activeOpened
  BY <1>8 DEF Timeout, DtorStep, Discard, UserStep, SubclassStep, Break, Common,
     Client, Server, OpenTimeout, DtorGreet, DtorGoOn, DtorStop, SrvDtorStop,
     DtorStart, CallConnect, CliCallOpen, CallOpen, SrvCallInitHandlers,
     SrvCallMdt, SrvCallOpen, SrvOpenEmpty, Call, SubclassPosts, LinkFail, vars,
     baseVars, peerVars
<1>9. CASE UNCHANGED activeOpened
  <2>1. \A s \in Sides : activeOpened'[s] \subseteq Given(Peer(s))
    BY <1>0, <1>9
  <2> QED BY <1>1, <1>2, <2>1, GivenGrows
<1>10. CASE \E s \in Sides : Common(OpenAnswered(s))
  <2>1. \A s \in Sides : activeOpened'[s] \subseteq Given(Peer(s))
    BY <1>3, <1>10
  <2> QED BY <1>1, <1>2, <2>1, GivenGrows
<1> QED BY <1>1, <1>4, <1>5, <1>6, <1>7, <1>8, <1>9, <1>10 DEF Next

-----------------------------------------------------------------------------
(* The client opens nothing before PEER state.                              *)

\* The ways of W's queue: tasks done, followed by others, posted, or dropped.
LEMMA QueueWays ==
  ASSUME TypeOK, NoOpenIn(wq[Cli]),
         \/ UNCHANGED wq
         \/ \E v : wq' = [wq EXCEPT ![Srv] = v]
         \/ \E s \in Sides : \/ wq[s] # <<>> /\ Done(s)
                             \/ wq' = [wq EXCEPT ![s] = <<>>]
         \/ \E s \in Sides, t \in Item : t.type # "Open" /\ Post(s, t)
         \/ \E ts \in Seq(Item) : \E t : Ready(Cli, t) /\ NoOpenIn(ts) /\ DoneThen(Cli, ts)
  PROVE  NoOpenIn(wq'[Cli])
<1>0. /\ wq \in [Sides -> Seq(Item)] /\ wq[Cli] \in Seq(Item)
      /\ Cli \in Sides /\ Srv \in Sides /\ Cli # Srv /\ NoOpenIn(<<>>)
  BY PeerOfPeer, SidesDiffer DEF TypeOK, BaseTypeOK, ThreadTypeOK, Sides, NoOpenIn
<1>1. CASE UNCHANGED wq \/ \E v : wq' = [wq EXCEPT ![Srv] = v]
  BY <1>0, <1>1
<1>2. ASSUME NEW s \in Sides, wq[s] # <<>>, Done(s) PROVE NoOpenIn(wq'[Cli])
  <2>1. wq'[Cli] = IF s = Cli THEN Tail(wq[Cli]) ELSE wq[Cli]
    BY <1>0, <1>2 DEF Done
  <2>2. s = Cli => NoOpenIn(Tail(wq[Cli]))
    BY <1>0, <1>2, NoOpenKept
  <2> QED BY <2>1, <2>2
<1>3. ASSUME NEW s \in Sides, wq' = [wq EXCEPT ![s] = <<>>] PROVE NoOpenIn(wq'[Cli])
  <2>1. wq'[Cli] \in {<<>>, wq[Cli]}
    BY <1>0, <1>3
  <2> QED BY <1>0, <2>1
<1>4. ASSUME NEW s \in Sides, NEW t \in Item, t.type # "Open", Post(s, t)
      PROVE  NoOpenIn(wq'[Cli])
  <2>1. wq'[Cli] \in {Append(wq[Cli], t), wq[Cli]}
    BY <1>0, <1>4 DEF Post
  <2>2. NoOpenIn(Append(wq[Cli], t))
    BY <1>0, <1>4, NoOpenKept
  <2> QED BY <2>1, <2>2
<1>5. ASSUME NEW ts \in Seq(Item), NEW t, Ready(Cli, t), NoOpenIn(ts), DoneThen(Cli, ts)
      PROVE  NoOpenIn(wq'[Cli])
  <2>1. wq'[Cli] = Tail(wq[Cli]) \o ts
    BY <1>0, <1>5 DEF DoneThen
  <2>2. Tail(wq[Cli]) \in Seq(Item) /\ NoOpenIn(Tail(wq[Cli]))
    BY <1>0, <1>5, NoOpenKept, QueueElements DEF Ready
  <2>3. NoOpenIn(Tail(wq[Cli]) \o ts)
    BY <1>5, <2>2, NoOpenKept, Zenon
  <2> QED BY <2>1, <2>3
<1> QED BY <1>1, <1>2, <1>3, <1>4, <1>5

\* Plain tasks, and requests kept for a handler, are not calls of open_channel().
LEMMA NoOpenTasks ==
  ASSUME TypeOK
  PROVE  /\ \A t \in TaskTypes : Plain(t) \in Item /\ Plain(t).type = t
         /\ \A t \in {"InitOpen", "OpenReq"} :
              Kept(Cli, t) \in Seq(Item) /\ NoOpenIn(Kept(Cli, t))
         /\ <<>> \in Seq(Item) /\ NoOpenIn(<<>>)
         /\ <<Plain("Fin")>> \in Seq(Item) /\ NoOpenIn(<<Plain("Fin")>>)
         /\ \A ts \in Seq(Item) : <<>> \o ts = ts
<1>1. \A t \in TaskTypes : Plain(t) \in Item /\ Plain(t).type = t
  BY PlainIsItem DEF Plain, New
<1>2. ASSUME NEW t \in {"InitOpen", "OpenReq"}
      PROVE  Kept(Cli, t) \in Seq(Item) /\ NoOpenIn(Kept(Cli, t))
  <2>1. Kept(Cli, t) \in Seq(Item)
    BY KeptIsTyped, SidesAreSides DEF TypeOK, BaseTypeOK, TaskTypes, MsgTypes
  <2>2. cacheOpen[Cli] \in Seq(Item)
    BY SidesAreSides DEF TypeOK, BaseTypeOK, ChanTypeOK
  <2>3. Len(Kept(Cli, t)) = Len(cacheOpen[Cli])
    BY <2>2 DEF Kept
  <2>4. ASSUME NEW i \in 1..Len(cacheOpen[Cli]) PROVE Kept(Cli, t)[i].type = t
    <3>1. cacheOpen[Cli][i] \in Item
      BY <2>2
    <3> QED BY <3>1 DEF Kept, Item
  <2> QED BY <2>1, <2>3, <2>4 DEF NoOpenIn
<1>3. <<>> \in Seq(Item) /\ NoOpenIn(<<>>) /\ \A ts \in Seq(Item) : <<>> \o ts = ts
  BY DEF NoOpenIn
<1>4. <<Plain("Fin")>> \in Seq(Item) /\ NoOpenIn(<<Plain("Fin")>>)
  BY <1>1, OneMore DEF NoOpenIn, TaskTypes, MsgTypes
<1> QED BY <1>1, <1>2, <1>3, <1>4

\* The tasks only the client has post no calls of open_channel().
LEMMA CliTaskNoOpen ==
  ASSUME TypeOK, NoOpenIn(wq[Cli]), CliTask
  PROVE  NoOpenIn(wq'[Cli])
<1>1. CASE ConnectReaches /\ NewServerSession
  <2>1. PICK out \in SendOutcomes :
          wq' = [wq EXCEPT ![Cli] = IF out = "false" THEN Append(Tail(@), Plain("Err"))
                                                     ELSE Tail(@),
                           ![Srv] = <<Plain("AcceptLogIn")>>]
    BY <1>1 DEF ConnectReaches, SendOutcomes
  <2>2. wq[Cli] # <<>> /\ wq[Cli] \in Seq(Item)
    BY <1>1, SidesAreSides DEF ConnectReaches, Ready, TypeOK, BaseTypeOK, ThreadTypeOK
  <2>3. Tail(wq[Cli]) \in Seq(Item) /\ NoOpenIn(Tail(wq[Cli]))
    BY <2>2, NoOpenKept, QueueElements
  <2>4. Plain("Err") \in Item /\ Plain("Err").type # "Open"
    BY NoOpenTasks DEF TaskTypes
  <2>5. NoOpenIn(Append(Tail(wq[Cli]), Plain("Err")))
    BY <2>3, <2>4, NoOpenKept
  <2>6. wq'[Cli] \in {Tail(wq[Cli]), Append(Tail(wq[Cli]), Plain("Err"))}
    BY <2>1, PeerOfPeer, SidesAreSides DEF TypeOK, BaseTypeOK, ThreadTypeOK
  <2> QED BY <2>3, <2>5, <2>6
<1>2. CASE \/ Client(ConnectRefused) \/ Client(ConnectFails) \/ Client(LogInRspBad)
           \/ Client(InitOpenMore) \/ Client(InitOpenTooLate) \/ Client(CompleteBad)
           \/ Client(CompleteTooLate) \/ Client(CliErrStale) \/ Client(CliErrConnecting)
           \/ Client(CliErrPeer) \/ Client(CliToken) \/ Client(OnDoneOk)
           \/ Client(OnDoneToConnecting) \/ Client(OnDoneToNull)
  <2>1. UNCHANGED wq \/ (wq[Cli] # <<>> /\ Done(Cli))
    BY <1>2 DEF Client, ConnectRefused, ConnectFails, LogInRspBad, InitOpenMore,
       InitOpenTooLate, CompleteBad, CompleteTooLate, CliErrStale, CliErrConnecting,
       CliErrPeer, CliToken, ConnectBreaks, OnDoneOk, OnDoneToConnecting, OnDoneToNull,
       Ready
  <2> QED BY <2>1, QueueWays, SidesAreSides
<1>3. CASE Client(LogInRspOk) \/ Client(LogInRspAwaitInit) \/ Client(InitOpenLast)
  <2>1. \/ wq[Cli] # <<>> /\ Done(Cli)
        \/ \E t : /\ Ready(Cli, t)
                  /\ \E u \in {"InitOpen", "OpenReq"} : DoneThen(Cli, Kept(Cli, u))
    BY <1>3 DEF Client, LogInRspOk, LogInRspAwaitInit, InitOpenLast, ExpectOpenReqs, Ready
  <2> QED BY <2>1, NoOpenTasks, QueueWays, SidesAreSides
<1>4. CASE Client(CompleteOk)
  <2>1. /\ Ready(Cli, "Complete")
        /\ DoneThen(Cli, <<>> \o <<>>) \/ DoneThen(Cli, <<>> \o <<Plain("Fin")>>)
    BY <1>4 DEF Client, CompleteOk, EmplaceFinisher
  <2> QED BY <2>1, NoOpenTasks, QueueWays
<1> QED BY <1>1, <1>2, <1>3, <1>4 DEF CliTask, Connect

\* Whatever the server does, the client's queue gets nothing from it.
LEMMA SrvTaskNoOpen ==
  ASSUME TypeOK, NoOpenIn(wq[Cli]), SrvTask
  PROVE  NoOpenIn(wq'[Cli])
<1>1. UNCHANGED wq \/ \E v : wq' = [wq EXCEPT ![Srv] = v]
  BY DEF SrvTask, Server, AcceptFails, AcceptStarts, LogInReqRefused, LogInRspUnsent,
     LogInReqOk, LogInReqAwaitAck, LogInReqInitFails, InitHandlersAgain,
     InitHandlersErr, InitHandlersOk, EmitPreInitErr, SrvErrStale, SrvErrLogIn,
     SrvErrAlmostPeer, SrvErrPeer, SrvToken, SrvMdt, EmplaceFinisher, Done, DoneThen
<1> QED BY <1>1, QueueWays

\* Out of PEER state the client neither opens a channel nor is asked to.
LEMMA NothingOpenStays ==
  ASSUME TypeOK, cstate # "PEER", NothingOpen, [Next]_vars
  PROVE  NothingOpen'
<1>0. /\ activeOpened[Cli] = {} /\ inside[Cli] # "open" /\ NoOpenIn(wq[Cli])
      /\ Cli \in Sides /\ Srv \in Sides /\ Cli # Srv
      /\ \A s \in Sides : s # Cli => s = Srv
      /\ ~Ready(Cli, "Open")
  <2>1. wq[Cli] # <<>> => 1 \in 1..Len(wq[Cli]) /\ Head(wq[Cli]) = wq[Cli][1]
    BY SidesAreSides DEF TypeOK, BaseTypeOK, ThreadTypeOK
  <2>2. ~Ready(Cli, "Open")
    BY <2>1 DEF NothingOpen, NoOpenIn, Ready
  <2> QED BY <2>2, PeerOfPeer, SidesAreSides DEF NothingOpen
<1>1. NoOpenIn(wq'[Cli])
  <2>1. CASE CliTask \/ SrvTask
    BY <1>0, <2>1, CliTaskNoOpen, SrvTaskNoOpen
  <2>2. ASSUME NEW s \in Sides, SharedTask(s) PROVE NoOpenIn(wq'[Cli])
    <3>1. UNCHANGED wq \/ (wq[s] # <<>> /\ Done(s))
      BY <2>2 DEF SharedTask, Common, Open, OnOpenReq, OnPassiveOpen, Giving, OnFin,
         DtorBegin, DtorFin, DtorFlush, Ready
    <3> QED BY <1>0, <3>1, QueueWays
  <2>3. ASSUME NEW s \in Sides, WcStep(s) PROVE NoOpenIn(wq'[Cli])
    <3>1. \A t \in TaskTypes : t # "Open" => Plain(t) \in Item /\ Plain(t).type # "Open"
      BY NoOpenTasks
    <3>2. CASE Common(DeliverLogIn(s)) \/ Common(DeliverOpenReq(s))
      <4>1. Head(net[s]) \in Item
            /\ Head(net[s]).type \in {"LogInReq", "LogInRsp", "OpenReq"}
        BY <3>2, ArrivesKeepsType
           DEF Common, DeliverLogIn, DeliverOpenReq, Arrives, TypeOK, BaseTypeOK
      <4>2. expects[s] # "none" =>
              LET t == [Head(net[s]) EXCEPT !.type = expects[s]]
              IN  t \in Item /\ t.type # "Open"
        <5>1. expects[s] # "none" => expects[s] \in {"InitOpen", "OpenReq"}
          BY DEF TypeOK, BaseTypeOK, ChanTypeOK
        <5> QED BY <4>1, <5>1, RetypeIsItem DEF Item, TaskTypes, MsgTypes
      <4>3. \/ UNCHANGED wq
            \/ \E t \in Item : t.type # "Open" /\ Post(s, t)
        BY <3>2, <4>1, <4>2 DEF Common, DeliverLogIn, DeliverOpenReq
      <4> QED BY <1>0, <4>3, QueueWays
    <3>3. CASE \/ Common(DeliverFin(s)) \/ Common(DropLateRsp(s)) \/ Common(DetectError(s))
               \/ Common(OpenAnswered(s)) \/ Common(OpenBroken(s))
               \/ (s = Srv /\ (Server(InitAcked) \/ Server(InitBroken)))
      <4>1. UNCHANGED wq \/ Post(s, Plain("Fin")) \/ Post(s, Plain("Err"))
        BY <3>3 DEF Common, Server, DeliverFin, DropLateRsp, DetectError, OpenAnswered,
           OpenBroken, InitAcked, InitBroken, threadVars
      <4>2. Plain("Fin") \in Item /\ Plain("Fin").type # "Open"
            /\ Plain("Err") \in Item /\ Plain("Err").type # "Open"
        BY <3>1 DEF TaskTypes, MsgTypes
      <4> QED BY <1>0, <4>1, <4>2, QueueWays
    <3> QED BY <2>3, <3>2, <3>3 DEF WcStep
  <2>4. CASE \E s \in Sides : Timeout(s) \/ DtorStep(s)
    <3>1. PICK s \in Sides : Timeout(s) \/ DtorStep(s)
      BY <2>4
    <3>2. \/ UNCHANGED wq \/ wq' = [wq EXCEPT ![s] = <<>>]
          \/ Post(s, Plain("DtorFin")) \/ Post(s, Plain("DtorFlush"))
      BY <3>1 DEF Timeout, DtorStep, Common, Server, OpenTimeout, DtorGreet, DtorGoOn,
         DtorStop, SrvDtorStop
    <3>3. \A t \in {"DtorFin", "DtorFlush"} : Plain(t) \in Item /\ Plain(t).type # "Open"
      BY NoOpenTasks DEF TaskTypes
    <3> QED BY <1>0, <3>2, <3>3, QueueWays
  <2>5. CASE Discard \/ UserStep \/ SubclassStep
    <3>1. \/ UNCHANGED wq
          \/ \E v : wq' = [wq EXCEPT ![Srv] = v]
          \/ \E t \in {"Connect", "Token", "DtorBegin", "DtorFlush"} : Post(Cli, Plain(t))
          \/ \E n \in {"ok", "rejected"} : Post(Cli, New("Complete", 0, n))
      BY <2>5 DEF Discard, UserStep, SubclassStep, Common, Client, Server, DtorStart,
         CallConnect, CliCallOpen, CallOpen, SrvCallInitHandlers, SrvCallMdt, SrvCallOpen,
         SrvOpenEmpty, Call, SubclassPosts, Post
    <3>2. \A t \in {"Connect", "Token", "DtorBegin", "DtorFlush"} :
            Plain(t) \in Item /\ Plain(t).type # "Open"
      BY NoOpenTasks DEF TaskTypes
    <3>3. \A n \in {"ok", "rejected"} :
            New("Complete", 0, n) \in Item /\ New("Complete", 0, n).type # "Open"
      BY NewIsItem DEF New, TaskTypes, Notes
    <3> QED BY <1>0, <3>1, <3>2, <3>3, QueueWays
  <2>6. CASE Break \/ UNCHANGED vars
    <3>1. UNCHANGED wq
      BY <2>6 DEF Break, Common, LinkFail, vars, baseVars, threadVars
    <3> QED BY <1>0, <3>1
  <2> QED BY <2>1, <2>2, <2>3, <2>4, <2>5, <2>6 DEF Next
<1>2. inside'[Cli] # "open" /\ activeOpened'[Cli] = {}
  <2>0. inside \in [Sides -> {"none", "open", "initAck", "onDone", "passive"}]
        /\ activeOpened \in [Sides -> SUBSET Nat]
    BY DEF TypeOK, BaseTypeOK, ThreadTypeOK, PeerTypeOK
  <2>1. CASE ConnectReaches /\ NewServerSession
    <3>1. UNCHANGED inside /\ activeOpened'[Cli] = activeOpened[Cli]
      BY <1>0, <2>0, <2>1 DEF ConnectReaches, FreshServer
    <3> QED BY <1>0, <3>1
  <2>2. CASE CliTask /\ ~(ConnectReaches /\ NewServerSession)
    <3>1. /\ UNCHANGED activeOpened
          /\ \/ UNCHANGED inside
             \/ \E v \in {"none", "onDone"} : inside' = [inside EXCEPT ![Cli] = v]
      BY <2>2 DEF CliTask, Connect, Client, ConnectRefused, ConnectFails, LogInRspBad,
         LogInRspOk, LogInRspAwaitInit, InitOpenMore, InitOpenTooLate, InitOpenLast,
         OnDoneOk, OnDoneToConnecting, OnDoneToNull, OnDoneReturns, Connected, CompleteOk,
         CompleteBad, CompleteTooLate, CliErrStale, CliErrConnecting, CliErrPeer, CliToken,
         ConnectBreaks, peerVars
    <3> QED BY <1>0, <2>0, <3>1
  <2>3. CASE SrvTask
    <3>1. UNCHANGED activeOpened
          /\ (UNCHANGED inside \/ inside' = [inside EXCEPT ![Srv] = "initAck"])
      BY <2>3 DEF SrvTask, Server, AcceptFails, AcceptStarts, LogInReqRefused,
         LogInRspUnsent, LogInReqOk, LogInReqAwaitAck, LogInReqInitFails,
         InitHandlersAgain, InitHandlersErr, InitHandlersOk, EmitPreInitErr,
         SrvErrStale, SrvErrLogIn, SrvErrAlmostPeer, SrvErrPeer, SrvToken, SrvMdt,
         peerVars
    <3> QED BY <1>0, <2>0, <3>1
  <2>4. ASSUME NEW s \in Sides, SharedTask(s)
        PROVE  inside'[Cli] # "open" /\ activeOpened'[Cli] = {}
    <3>1. UNCHANGED activeOpened
      BY <2>4 DEF SharedTask, Common, Open, OnOpenReq, OnPassiveOpen, OnFin, DtorBegin,
         DtorFin, DtorFlush, peerVars
    <3>2. \/ UNCHANGED inside
          \/ s # Cli /\ inside' = [inside EXCEPT ![s] = "open"]
          \/ \E v \in {"none", "passive"} : inside' = [inside EXCEPT ![s] = v]
      BY <1>0, <2>4 DEF SharedTask, Common, Open, OnOpenReq, OnPassiveOpen, OnFin,
         DtorBegin, DtorFin, DtorFlush
    <3> QED BY <1>0, <2>0, <3>1, <3>2
  <2>5. ASSUME NEW s \in Sides, WcStep(s) \/ Timeout(s) \/ DtorStep(s)
        PROVE  inside'[Cli] # "open" /\ activeOpened'[Cli] = {}
    <3>1. CASE Common(OpenAnswered(s))
      <4>1. s = Srv
        BY <1>0, <3>1 DEF Common, OpenAnswered
      <4>2. /\ \E a : activeOpened' = [activeOpened EXCEPT ![Srv] = a]
            /\ inside' = [inside EXCEPT ![Srv] = "none"]
        BY <3>1, <4>1 DEF Common, OpenAnswered
      <4> QED BY <1>0, <2>0, <4>2
    <3>2. CASE ~Common(OpenAnswered(s))
      <4>1. /\ UNCHANGED activeOpened
            /\ UNCHANGED inside \/ inside' = [inside EXCEPT ![s] = "none"]
        BY <2>5, <3>2 DEF WcStep, Timeout, DtorStep, Common, Server, DeliverLogIn,
           DeliverOpenReq, DeliverFin, DropLateRsp, DetectError, OpenBroken, InitAcked,
           InitBroken, OpenTimeout, DtorGreet, DtorGoOn, DtorStop, SrvDtorStop,
           threadVars, peerVars
      <4> QED BY <1>0, <2>0, <4>1
    <3> QED BY <3>1, <3>2
  <2>6. CASE Discard \/ UserStep \/ SubclassStep \/ Break \/ UNCHANGED vars
    <3>1. UNCHANGED <<inside, activeOpened>>
      BY <2>6 DEF Discard, UserStep, SubclassStep, Break, Common, Client, Server,
         DtorStart, CallConnect, CliCallOpen, CallOpen, SrvCallInitHandlers, SrvCallMdt,
         SrvCallOpen, SrvOpenEmpty, Call, SubclassPosts, LinkFail, vars, baseVars,
         threadVars, peerVars
    <3> QED BY <1>0, <3>1
  <2> QED BY <2>1, <2>2, <2>3, <2>4, <2>5, <2>6 DEF Next
<1> QED BY <1>1, <1>2 DEF NothingOpen

-----------------------------------------------------------------------------
(* The theorem.                                                             *)

LEMMA OpenInvStarts == Init => OpenInv
<1> SUFFICES ASSUME Init PROVE OpenInv
  OBVIOUS
<1>1. TypeOK
  BY InitIsTyped
<1>2. NotCutShort /\ RspBacked /\ ActiveImpliesPassive
  BY PeerOfPeer DEF Init, BaseInit, NotCutShort, RspBacked, Backed, ActiveImpliesPassive
<1>3. OpensInPeer
  BY SidesAreSides DEF Init, BaseInit, OpensInPeer, NothingOpen, NoOpenIn
<1> QED BY <1>1, <1>2, <1>3 DEF OpenInv

\* As far as a client in PEER state stays in PEER state.
LEMMA OpenInvStays ==
  OpenInv /\ [Next]_vars /\ (cstate = "PEER" => cstate' = "PEER") => OpenInv'
<1> SUFFICES ASSUME OpenInv, [Next]_vars, cstate = "PEER" => cstate' = "PEER"
             PROVE  OpenInv'
  OBVIOUS
<1>1. TypeOK'
  BY NextKeepsType DEF OpenInv
<1>2. NotCutShort' /\ RspBacked' /\ ActiveImpliesPassive'
  BY NotCutShortStays, RspBackedStays, ActiveStays DEF OpenInv
<1>3. OpensInPeer'
  BY NothingOpenStays DEF OpenInv, OpensInPeer
<1> QED BY <1>1, <1>2, <1>3 DEF OpenInv

\* A channel that open_channel() has returned on either side is one that the
\* opposing side's on_master_channel_open_channel_req() has given its user or is
\* giving him now, whatever times out, breaks, is answered late or connects again.
THEOREM ActiveImpliesPassiveHolds == Spec => []ActiveImpliesPassive
<1>1. OpenInv /\ PeerInv /\ [Next]_vars => OpenInv'
  BY NextPeerInv, OpenInvStays
<1>2. OpenInv => ActiveImpliesPassive
  BY DEF OpenInv
<1> QED BY <1>1, <1>2, OpenInvStarts, PeerInvHolds, PTL DEF Spec
=============================================================================
