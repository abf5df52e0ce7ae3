------------------------------ MODULE InitProofs ------------------------------
(***************************************************************************)
(* The init-channels, for any bounds and switches of SessionPair: when the   *)
(* log-in is over, the client has all of them in the server's order, and     *)
(* neither of its two handlers of open-channel requests has ever been given  *)
(* a request meant for the other.                                           *)
(*                                                                         *)
(* A request is followed from the server's sending through the channel, the  *)
(* requests that are kept and W's queue: by its number and its note, which   *)
(* stay the same when it becomes a task of one type or another.              *)
(***************************************************************************)
EXTENDS EndProofs

-----------------------------------------------------------------------------
(* The invariant.                                                           *)

\* The request with number n and note t is in q; on its way to the client.
Asked(q, n, t) == \E i \in 1..Len(q) : IsReq(q[i]) /\ q[i].id = n /\ q[i].note = t
OnTheWay(n, t) ==
  Asked(net[Cli], n, t) \/ Asked(wq[Cli], n, t) \/ Asked(cacheOpen[Cli], n, t)

\* Init-channels are announced, none with a number missing that is not
\* collected yet, until ordinary requests are expected.
Awaiting == NInit > 0 /\ expects[Cli] # "OpenReq"
AllOfOneKind == \A n, t : OnTheWay(n, t) => t = IF Awaiting THEN "init" ELSE "user"
NoGaps ==
  Awaiting =>
    \A n \in Nat, k \in Nat :
      OnTheWay(n, "init") /\ Len(initChans) < k /\ k < n => OnTheWay(k, "init")

\* What has been collected.
Collected ==
  NInit > 0 => /\ \A i \in 1..Len(initChans) : initChans[i] = i
               /\ expects[Cli] = "OpenReq" => Len(initChans) = NInit

\* Only requests are kept for a handler to come.
OnlyReqsKept == AllReqs(cacheOpen[Cli])

InitInv == AllOfOneKind /\ NoGaps /\ Collected /\ OnlyReqsKept

-----------------------------------------------------------------------------
(* Queues.                                                                  *)

LEMMA AskedOnTail ==
  ASSUME NEW q \in Seq(Item), q # <<>>
  PROVE  /\ \A n, t : Asked(Tail(q), n, t) => Asked(q, n, t)
         /\ IsReq(Head(q)) => Asked(q, Head(q).id, Head(q).note)
         /\ \A n, t : Asked(q, n, t) =>
              \/ Asked(Tail(q), n, t)
              \/ IsReq(Head(q)) /\ n = Head(q).id /\ t = Head(q).note
<1> DEFINE r == Tail(q)
<1>1. /\ Len(q) \in Nat /\ 1 \in 1..Len(q) /\ Len(r) = Len(q) - 1
      /\ Head(q) = q[1] /\ \A i \in 1..Len(q) - 1 : r[i] = q[i + 1]
  BY QueueShape
<1> HIDE DEF r
<1>2. \A i \in 1..Len(r) : i + 1 \in 1..Len(q) /\ r[i] = q[i + 1]
  BY <1>1
<1>3. \A i \in 1..Len(q) : i = 1 \/ (i - 1 \in 1..Len(r) /\ q[i] = r[i - 1])
  BY <1>1
<1>4. \A n, t : Asked(r, n, t) => Asked(q, n, t)
  BY <1>2 DEF Asked
<1>5. IsReq(Head(q)) => Asked(q, Head(q).id, Head(q).note)
  BY <1>1 DEF Asked
<1>6. \A n, t : Asked(q, n, t) =>
        Asked(r, n, t) \/ (IsReq(Head(q)) /\ n = Head(q).id /\ t = Head(q).note)
  BY <1>1, <1>3 DEF Asked
<1> QED BY <1>4, <1>5, <1>6 DEF r

LEMMA AskedOnAppend ==
  ASSUME NEW q \in Seq(Item), NEW x
  PROVE  \A n, t : Asked(Append(q, x), n, t) <=>
           Asked(q, n, t) \/ (IsReq(x) /\ x.id = n /\ x.note = t)
<1> DEFINE r == Append(q, x)
<1>1. /\ Len(q) \in Nat /\ Len(r) = Len(q) + 1 /\ r[Len(q) + 1] = x
      /\ \A i \in 1..Len(q) : r[i] = q[i]
  OBVIOUS
<1> HIDE DEF r
<1>2. /\ \A i \in 1..Len(r) : (i \in 1..Len(q) /\ r[i] = q[i]) \/ r[i] = x
      /\ \A i \in 1..Len(q) : i \in 1..Len(r) /\ r[i] = q[i]
      /\ Len(r) \in 1..Len(r) /\ r[Len(r)] = x
  BY <1>1
<1>3. \A n, t : Asked(r, n, t) <=> Asked(q, n, t) \/ (IsReq(x) /\ x.id = n /\ x.note = t)
  BY <1>2 DEF Asked
<1> QED BY <1>3 DEF r

LEMMA AskedOnConcat ==
  ASSUME NEW q \in Seq(Item), NEW p \in Seq(Item)
  PROVE  \A n, t : Asked(q \o p, n, t) <=> Asked(q, n, t) \/ Asked(p, n, t)
<1> DEFINE r == q \o p
<1>1. /\ Len(q) \in Nat /\ Len(p) \in Nat /\ Len(r) = Len(q) + Len(p)
      /\ \A i \in 1..Len(q) + Len(p) : r[i] = IF i <= Len(q) THEN q[i] ELSE p[i - Len(q)]
  BY QueueShape, Zenon
<1> HIDE DEF r
<1>2. /\ \A i \in 1..Len(q) : i \in 1..Len(r) /\ r[i] = q[i]
      /\ \A j \in 1..Len(p) : j + Len(q) \in 1..Len(r) /\ r[j + Len(q)] = p[j]
      /\ \A i \in 1..Len(r) : \/ i \in 1..Len(q) /\ r[i] = q[i]
                              \/ i - Len(q) \in 1..Len(p) /\ r[i] = p[i - Len(q)]
  <2>1. \A j \in 1..Len(p) : j + Len(q) \in 1..Len(r) /\ r[j + Len(q)] = p[j]
    <3> TAKE j \in 1..Len(p)
    <3>1. j + Len(q) \in 1..Len(q) + Len(p) /\ ~(j + Len(q) <= Len(q))
          /\ (j + Len(q)) - Len(q) = j
      BY <1>1
    <3> QED BY <1>1, <3>1
  <2> QED BY <1>1, <2>1
<1>3. ASSUME NEW n, NEW t, Asked(r, n, t) PROVE Asked(q, n, t) \/ Asked(p, n, t)
  <2>1. PICK i \in 1..Len(r) : IsReq(r[i]) /\ r[i].id = n /\ r[i].note = t
    BY <1>3 DEF Asked
  <2>2. CASE i \in 1..Len(q) /\ r[i] = q[i]
    BY <2>1, <2>2 DEF Asked
  <2>3. CASE i - Len(q) \in 1..Len(p) /\ r[i] = p[i - Len(q)]
    <3>1. \E j \in 1..Len(p) : IsReq(p[j]) /\ p[j].id = n /\ p[j].note = t
      BY <2>1, <2>3, Zenon
    <3> QED BY <3>1 DEF Asked
  <2> QED BY <1>2, <2>2, <2>3, Zenon
<1>4. ASSUME NEW n, NEW t, Asked(q, n, t) PROVE Asked(r, n, t)
  BY <1>2, <1>4, Zenon DEF Asked
<1>5. ASSUME NEW n, NEW t, Asked(p, n, t) PROVE Asked(r, n, t)
  <2>1. PICK j \in 1..Len(p) : IsReq(p[j]) /\ p[j].id = n /\ p[j].note = t
    BY <1>5 DEF Asked
  <2>2. j + Len(q) \in 1..Len(r) /\ r[j + Len(q)] = p[j]
    BY <1>2, Zenon
  <2> QED BY <2>1, <2>2, Zenon DEF Asked
<1> QED BY <1>3, <1>4, <1>5 DEF r

\* Queues without requests.
LEMMA NoneAsked ==
  /\ \A n, t : ~Asked(<<>>, n, t)
  /\ \A q : NoReq(q) => \A n, t : ~Asked(q, n, t)
  /\ \A x : ~IsReq(x) => \A n, t : ~Asked(<<x>>, n, t)
<1>1. \A q : NoReq(q) => \A n, t : ~Asked(q, n, t)
  BY DEF NoReq, Asked
<1> QED BY <1>1, FewElements

\* The tasks of the requests that were kept ask for the same.
LEMMA AskedByKept ==
  ASSUME TypeOK, OnlyReqsKept, NEW e \in ReqTypes
  PROVE  /\ Kept(Cli, e) \in Seq(Item)
         /\ \A n, t : Asked(Kept(Cli, e), n, t) <=> Asked(cacheOpen[Cli], n, t)
<1> DEFINE c == cacheOpen[Cli]
           k == Kept(Cli, e)
<1>0. Cli \in Sides
  BY SidesAreSides
<1>1. /\ k \in Seq(Item) /\ Len(k) = Len(c)
      /\ \A i \in 1..Len(k) : k[i].type = e
  BY <1>0, KeptAre
<1>2. \A i \in 1..Len(c) : k[i].id = c[i].id /\ k[i].note = c[i].note
  <2>1. \A i \in 1..Len(c) : c[i] \in Item
    BY <1>0 DEF TypeOK, BaseTypeOK, ChanTypeOK
  <2> QED BY <2>1 DEF Kept, Item
<1>3. \A i \in 1..Len(k) : IsReq(k[i])
  BY <1>1 DEF IsReq
<1> HIDE DEF c, k
<1>4. \A i \in 1..Len(c) : IsReq(c[i])
  BY DEF OnlyReqsKept, AllReqs, c
<1>5. \A n, t : Asked(k, n, t) <=> Asked(c, n, t)
  BY <1>1, <1>2, <1>3, <1>4 DEF Asked
<1> QED BY <1>1, <1>5 DEF c, k

-----------------------------------------------------------------------------
(* Steps that announce, move or collect no request.                         *)

\* The steps that do.
ReqStep ==
  \/ Server(LogInReqAwaitAck) \/ Server(LogInReqInitFails) \/ Common(Open(Srv))
  \/ Common(DeliverOpenReq(Cli))
  \/ Client(LogInRspOk) \/ Client(LogInRspAwaitInit)
  \/ Client(InitOpenMore) \/ Client(InitOpenTooLate) \/ Client(InitOpenLast)

\* What is sent to the client otherwise, and what is received.
NetCalm ==
  \/ net'[Cli] = net[Cli] \/ net'[Cli] = <<>>
  \/ \E x \in Item : ~IsReq(x) /\ net'[Cli] = net[Cli] \o <<x>>
  \/ \E t : Arrives(Cli, t) /\ t \notin ReqTypes

LEMMA OneSentCalm ==
  ASSUME TypeOK, NEW s \in Sides, NEW x \in Item, NEW out, Send(s, <<x>>, out),
         s = Cli \/ ~IsReq(x)
  PROVE  NetCalm
<1>0. net \in [Sides -> Seq(Item)] /\ Cli \in Sides /\ Peer(Cli) # Cli /\ s \in {Cli, Srv}
      /\ Peer(Srv) = Cli
  BY PeerOfPeer, SidesAreSides DEF TypeOK, BaseTypeOK, ChanTypeOK
<1>1. net' = net \/ net' = [net EXCEPT ![Peer(s)] = net[Peer(s)] \o <<x>>]
  BY DEF Send
<1>2. CASE s = Cli
  BY <1>0, <1>1, <1>2 DEF NetCalm
<1>3. CASE s = Srv /\ ~IsReq(x)
  BY <1>0, <1>1, <1>3 DEF NetCalm
<1> QED BY <1>0, <1>2, <1>3

LEMMA StepNetCalm ==
  ASSUME TypeOK, Step, ~ReqStep
  PROVE  NetCalm
<1>0. /\ Cli \in Sides /\ Srv \in Sides /\ Cli # Srv /\ DOMAIN net = Sides
      /\ \A s \in Sides : s = Cli \/ s = Srv
  BY CliTypes, PeerOfPeer
<1>1. ASSUME CliSteps PROVE NetCalm
  <2>1. UNCHANGED net \/ net' = [net EXCEPT ![Cli] = <<>>]
    BY <1>1 DEF ReqStep, CliSteps, Client, ConnectRefused, ConnectFails, LogInRspBad,
       OnDoneOk, OnDoneToConnecting, OnDoneToNull, CompleteOk, CompleteBad, CompleteTooLate,
       CliErrStale, CliErrConnecting, CliErrPeer, CliToken, SubclassPosts, CallConnect, CliCallOpen, CallOpen, Common, Call,
       ConnectBreaks, DropChannel, chanVars
  <2> QED BY <1>0, <2>1 DEF NetCalm
<1>2. ASSUME SrvSteps PROVE NetCalm
  <2>1. CASE Server(LogInReqOk)
    <3>1. /\ Plain("LogInRsp") \in Item /\ ~IsReq(Plain("LogInRsp"))
          /\ Send(Srv, <<Plain("LogInRsp")>>, "ok")
      BY <2>1, PlainIsItem
         DEF Server, LogInReqOk, TaskTypes, MsgTypes, Plain, New, IsReq, ReqTypes
    <3> QED BY <1>0, <3>1, OneSentCalm
  <2>2. CASE ~Server(LogInReqOk)
    <3>1. UNCHANGED net \/ net' = [net EXCEPT ![Srv] = <<>>] \/ Arrives(Srv, "OpenRsp")
      BY <1>2, <2>2 DEF ReqStep, SrvSteps, Server, AcceptFails, AcceptStarts, LogInReqRefused,
         LogInRspUnsent, InitAcked, InitBroken, InitHandlersAgain, InitHandlersErr,
         InitHandlersOk, EmitPreInitErr, SrvErrStale, SrvErrLogIn, SrvErrAlmostPeer,
         SrvErrPeer, SrvToken, SrvMdt, SrvCallOpen, CallOpen, SrvOpenEmpty, Asks, SrvCallMdt,
         SrvCallInitHandlers, Common, Call, LogInFails, chanVars
    <3>2. net'[Cli] = net[Cli]
      BY <1>0, <3>1 DEF Arrives
    <3> QED BY <3>2 DEF NetCalm
  <2> QED BY <2>1, <2>2
<1>3. ASSUME NEW s \in Sides, SideSteps(s) PROVE NetCalm
  <2>1. CASE Common(Open(s))
    <3> DEFINE x == New("OpenReq", opens[s] + 1, "user")
    <3>1. s = Cli /\ (UNCHANGED net \/ \E out : Send(s, <<x>>, out))
      BY <1>0, <2>1 DEF Common, Open, ReqStep
    <3>2. x \in Item
      <4>1. opens[s] + 1 \in Nat
        BY DEF TypeOK, BaseTypeOK, PeerTypeOK
      <4> QED BY <4>1, NewIsItem DEF TaskTypes, MsgTypes, Notes
    <3> HIDE DEF x
    <3> QED BY <3>1, <3>2, OneSentCalm DEF NetCalm
  <2>2. CASE Common(OnOpenReq(s))
    <3>1. UNCHANGED net \/ \E v \in Verdicts(s), out \in SendOutcomes :
                             Send(s, <<New("OpenRsp", Task(s).id, v)>>, out)
      BY <2>2 DEF Common, OnOpenReq
    <3>2. Task(s).id \in Nat
      BY <2>2, TaskIsItem DEF Common, OnOpenReq, TypeOK, BaseTypeOK
    <3>3. \A v \in Verdicts(s) : /\ New("OpenRsp", Task(s).id, v) \in Item
                                 /\ ~IsReq(New("OpenRsp", Task(s).id, v))
      <4>1. Verdicts(s) \subseteq Notes
        BY DEF Verdicts, Notes
      <4> QED BY <3>2, <4>1, NewIsItem DEF TaskTypes, MsgTypes, New, IsReq, ReqTypes
    <3> QED BY <3>1, <3>3, OneSentCalm DEF NetCalm
  <2>3. CASE Common(DtorFin(s))
    <3>1. \E out : Send(s, <<Plain("Fin")>>, out)
      BY <2>3 DEF Common, DtorFin
    <3>2. Plain("Fin") \in Item /\ ~IsReq(Plain("Fin"))
      BY PlainIsItem DEF TaskTypes, MsgTypes, Plain, New, IsReq, ReqTypes
    <3> QED BY <3>1, <3>2, OneSentCalm
  <2>4. CASE s = Srv /\ Common(DeliverOpenReq(Srv))
    BY <1>0, <2>4 DEF NetCalm, Common, DeliverOpenReq, Arrives
  <2>5. CASE /\ ~Common(Open(s)) /\ ~Common(OnOpenReq(s)) /\ ~Common(DtorFin(s))
             /\ ~Common(DeliverOpenReq(s))
    <3>1. \/ UNCHANGED net \/ net' = [net EXCEPT ![s] = <<>>]
          \/ \E t : Arrives(s, t) /\ t \notin ReqTypes
      BY <1>3, <2>5 DEF SideSteps, Stops, Starts, Common, Server, OnPassiveOpen, OnFin,
         DtorStart, DtorBegin, DtorGreet, DtorGoOn, DtorFlush, SrvDtorStop, DtorStop,
         DeliverLogIn, DeliverFin, DropLateRsp, DetectError, OpenAnswered, OpenBroken, OpenTimeout, chanVars, ReqTypes
    <3>2. s # Cli => net'[Cli] = net[Cli]
      BY <1>0, <3>1 DEF Arrives
    <3>3. s = Cli => net'[Cli] = net[Cli] \/ net'[Cli] = <<>>
                     \/ \E t : Arrives(Cli, t) /\ t \notin ReqTypes
      BY <1>0, <3>1
    <3> QED BY <3>2, <3>3 DEF NetCalm
  <2> QED BY <1>0, <2>1, <2>2, <2>3, <2>4, <2>5 DEF ReqStep
<1>4. Common(LinkFail) \/ UNCHANGED vars => NetCalm
  BY DEF Common, LinkFail, vars, baseVars, chanVars, NetCalm
<1> QED BY <1>1, <1>2, <1>3, <1>4, StepSteps

\* Such a message changes nothing of what is asked.
LEMMA NetCalmAsks ==
  ASSUME TypeOK, NetCalm
  PROVE  /\ \A n, t : Asked(net'[Cli], n, t) => Asked(net[Cli], n, t)
         /\ \/ net'[Cli] = <<>>
            \/ \A n, t : Asked(net[Cli], n, t) => Asked(net'[Cli], n, t)
<1>0. net[Cli] \in Seq(Item) /\ DOMAIN net = Sides /\ Cli \in Sides
  BY CliTypes
<1>1. CASE net'[Cli] = net[Cli] \/ net'[Cli] = <<>>
  BY <1>1, NoneAsked
<1>2. ASSUME NEW x \in Item, ~IsReq(x), net'[Cli] = net[Cli] \o <<x>>
      PROVE  \A n, t : Asked(net'[Cli], n, t) <=> Asked(net[Cli], n, t)
  <2> DEFINE p == <<x>>
  <2>1. p \in Seq(Item) /\ \A n, t : ~Asked(p, n, t)
    BY <1>2, NoneAsked
  <2>2. net'[Cli] = net[Cli] \o p
    BY <1>2
  <2> HIDE DEF p
  <2>3. \A n, t : Asked(net[Cli] \o p, n, t) <=> Asked(net[Cli], n, t)
    BY <1>0, <2>1, AskedOnConcat
  <2> QED BY <2>2, <2>3
<1>3. ASSUME NEW t, Arrives(Cli, t), t \notin ReqTypes
      PROVE  \A n, u : Asked(net'[Cli], n, u) <=> Asked(net[Cli], n, u)
  <2>1. net[Cli] # <<>> /\ net'[Cli] = Tail(net[Cli]) /\ ~IsReq(Head(net[Cli]))
    BY <1>0, <1>3 DEF Arrives, IsReq
  <2> QED BY <1>0, <2>1, AskedOnTail
<1> QED BY <1>1, <1>2, <1>3 DEF NetCalm

\* No such step posts a task for a request, or takes one of an init-channel.
LEMMA StepWqCalm ==
  ASSUME TypeOK, CliInv, Step, ~ReqStep
  PROVE  /\ \A n, t : Asked(wq'[Cli], n, t) => Asked(wq[Cli], n, t)
         /\ Awaiting =>
              \/ Stops(Cli)
              \/ \A n, t : Asked(wq[Cli], n, t) => Asked(wq'[Cli], n, t)
<1>0. /\ wq[Cli] \in Seq(Item) /\ DOMAIN wq = Sides /\ Cli \in Sides
      /\ ReqsAre(wq[Cli], expects[Cli])
  BY CliTypes DEF CliInv, ReqsExpected
<1>1. \A t : Posts(Cli, t) => t \notin ReqTypes
  BY SidesDiffer DEF Posts, ReqStep, ReqTypes
<1>2. ASSUME NEW t, Ready(Cli, t), t \in ReqTypes, Awaiting
      PROVE  wq'[Cli] = wq[Cli] \/ Stops(Cli) \/ \E x : wq'[Cli] = Append(wq[Cli], x)
  <2>1. wq[Cli] # <<>> /\ Head(wq[Cli]).type = t /\ t = expects[Cli]
    BY <1>0, <1>2, ReadyHas
  <2>2. t = "InitOpen"
    BY <1>2, <2>1 DEF ReqTypes, Awaiting
  <2>3. ~(Client(CliErrStale) \/ Client(CliErrConnecting) \/ Client(CliErrPeer))
    BY <2>1, <2>2 DEF Client, CliErrStale, CliErrConnecting, CliErrPeer, Ready
  <2> QED BY <1>0, <2>1, <2>2, <2>3, HeadWays, SidesDiffer DEF ReqStep
<1>3. CASE \E r \in Sides : Stops(r) /\ wq' = [wq EXCEPT ![r] = <<>>]
  <2>1. wq'[Cli] = wq[Cli] \/ (Stops(Cli) /\ wq'[Cli] = <<>>)
    BY <1>0, <1>3
  <2> QED BY <2>1, NoneAsked
<1>4. ASSUME NEW x \in Item, Post(Cli, x), Posts(Cli, x.type)
      PROVE  \A n, t : Asked(wq'[Cli], n, t) <=> Asked(wq[Cli], n, t)
  <2>1. wq'[Cli] = Append(wq[Cli], x) /\ ~IsReq(x)
    BY <1>0, <1>1, <1>4 DEF Post, IsReq
  <2> QED BY <1>0, <2>1, AskedOnAppend
<1>5. ASSUME NEW ms \in Seq(Item), NEW t, Ready(Cli, t),
             wq'[Cli] = Tail(wq[Cli]) \o ms, \A i \in 1..Len(ms) : Posts(Cli, ms[i].type)
      PROVE  /\ \A n, u : Asked(wq'[Cli], n, u) => Asked(wq[Cli], n, u)
             /\ t \notin ReqTypes =>
                  \A n, u : Asked(wq[Cli], n, u) => Asked(wq'[Cli], n, u)
  <2> DEFINE q == Tail(wq[Cli])
  <2>1. wq[Cli] # <<>> /\ Head(wq[Cli]).type = t /\ q \in Seq(Item)
    BY <1>0, <1>5, ReadyHas, QueueElements
  <2>2. NoReq(ms)
    BY <1>1, <1>5 DEF NoReq, IsReq
  <2>3. \A n, u : ~Asked(ms, n, u)
    BY <2>2, NoneAsked
  <2>4. /\ \A n, u : Asked(q, n, u) => Asked(wq[Cli], n, u)
        /\ t \notin ReqTypes => \A n, u : Asked(wq[Cli], n, u) => Asked(q, n, u)
    BY <1>0, <2>1, AskedOnTail DEF IsReq
  <2> HIDE DEF q
  <2>5. \A n, u : Asked(q \o ms, n, u) <=> Asked(q, n, u)
    BY <2>1, <2>3, AskedOnConcat
  <2> QED BY <1>5, <2>4, <2>5 DEF q
<1>6. ASSUME NEW ms \in Seq(Item), NEW t, Ready(Cli, t),
             wq'[Cli] = Tail(wq[Cli]) \o ms, \A i \in 1..Len(ms) : Posts(Cli, ms[i].type),
             Awaiting, t \in ReqTypes
      PROVE  Stops(Cli) \/ \A n, u : Asked(wq[Cli], n, u) => Asked(wq'[Cli], n, u)
  <2>1. CASE wq'[Cli] = wq[Cli]
    BY <2>1
  <2>2. ASSUME NEW x, wq'[Cli] = Append(wq[Cli], x)
        PROVE  \A n, u : Asked(wq[Cli], n, u) => Asked(wq'[Cli], n, u)
    BY <1>0, <2>2, AskedOnAppend
  <2> QED BY <1>2, <1>6, <2>1, <2>2
<1>7. ASSUME NEW r \in Sides, NEW t, Ready(r, t),
             NEW ms \in Seq(Item), wq' = [wq EXCEPT ![r] = Tail(wq[r]) \o ms],
             \A i \in 1..Len(ms) : Posts(r, ms[i].type)
      PROVE  /\ \A n, u : Asked(wq'[Cli], n, u) => Asked(wq[Cli], n, u)
             /\ Awaiting =>
                  \/ Stops(Cli)
                  \/ \A n, u : Asked(wq[Cli], n, u) => Asked(wq'[Cli], n, u)
  <2>1. CASE r = Cli
    <3>1. wq'[Cli] = Tail(wq[Cli]) \o ms
      BY <1>0, <1>7, <2>1
    <3> QED BY <1>5, <1>6, <1>7, <2>1, <3>1
  <2>2. CASE r # Cli
    BY <1>0, <1>7, <2>2
  <2> QED BY <2>1, <2>2
<1>8. ASSUME NEW r \in Sides, NEW t, Ready(r, t), Done(r)
      PROVE  wq' = [wq EXCEPT ![r] = Tail(wq[r]) \o <<>>]
  <2>1. Tail(wq[r]) \in Seq(Item)
    BY <1>8, ReadyHas, QueueElements
  <2> QED BY <1>8, <2>1 DEF Done
<1>9. <<>> \in Seq(Item) /\ \A i \in 1..Len(<<>>) : FALSE
  BY EmptySeq, Zenon, SMT
<1>10. CASE \E r \in Sides : \E t : Ready(r, t) /\ Done(r)
  BY <1>7, <1>8, <1>9, <1>10
<1>11. CASE \E r \in Sides, ms \in Seq(Item) : \E t :
              Ready(r, t) /\ DoneThen(r, ms) /\ \A i \in 1..Len(ms) : Posts(r, ms[i].type)
  BY <1>7, <1>11 DEF DoneThen
<1>12. CASE \E r \in Sides, x \in Item : Post(r, x) /\ Posts(r, x.type)
  <2>1. \A r \in Sides, x \in Item : Post(r, x) /\ r # Cli => wq'[Cli] = wq[Cli]
    BY <1>0 DEF Post
  <2> QED BY <1>4, <1>12, <2>1
<1>13. CASE \E r \in Sides : Common(OnPassiveOpen(r))
  <2>1. PICK r \in Sides : /\ wq[r] # <<>> /\ Head(wq[r]).type = "OpenReq"
                           /\ wq' = [wq EXCEPT ![r] = Tail(wq[r])]
    BY <1>13 DEF Common, OnPassiveOpen, Giving, Task, Done
  <2>2. CASE r = Cli
    <3>1. \A n, t : Asked(wq'[Cli], n, t) => Asked(wq[Cli], n, t)
      BY <1>0, <2>1, <2>2, AskedOnTail
    <3>2. Has(wq[Cli], "OpenReq")
      BY <1>0, <2>1, <2>2, OnTail
    <3>3. ~Awaiting
      BY <1>0, <3>2 DEF Has, ReqsAre, ReqTypes, Awaiting
    <3> QED BY <3>1, <3>3
  <2>3. CASE r # Cli
    BY <1>0, <2>1, <2>3
  <2> QED BY <2>2, <2>3
<1> QED BY <1>3, <1>10, <1>11, <1>12, <1>13, StepWay DEF WqWay

LEMMA StepCalm ==
  ASSUME TypeOK, Step, ~ReqStep
  PROVE  /\ expects'[Cli] = expects[Cli] /\ initChans' = initChans
         /\ cacheOpen'[Cli] = cacheOpen[Cli]
<1>0. Cli \in Sides /\ Srv \in Sides /\ Cli # Srv /\ DOMAIN cacheOpen = Sides
  BY CliTypes
<1>1. expects'[Cli] = expects[Cli]
  BY <1>0, ExpectsWays DEF ReqStep
<1>2. CliSteps => UNCHANGED <<initChans, cacheOpen>>
  BY DEF ReqStep, CliSteps, Client, ConnectRefused, ConnectFails, LogInRspBad, OnDoneOk,
     OnDoneToConnecting, OnDoneToNull, OnDoneReturns, DropChannel, CompleteOk, CompleteBad,
     CompleteTooLate, CliErrStale, CliErrConnecting, CliErrPeer, CliToken, SubclassPosts, CallConnect, CliCallOpen,
     ConnectBreaks, CallOpen, Call, Common, EmplaceFinisher, chanVars, cliVars
<1>3. SrvSteps => UNCHANGED initChans /\ cacheOpen'[Cli] = cacheOpen[Cli]
  <2>1. SrvSteps => UNCHANGED initChans
    BY DEF SrvSteps, Server, Asks, Common, cliVars
  <2>2. SrvSteps /\ ~Server(InitHandlersOk) => UNCHANGED cacheOpen
    BY DEF ReqStep, SrvSteps, Server, AcceptFails, AcceptStarts, LogInReqRefused,
       LogInRspUnsent, LogInReqOk, InitAcked, InitBroken, InitHandlersAgain, InitHandlersErr,
       EmitPreInitErr, SrvErrStale, SrvErrLogIn, SrvErrAlmostPeer, SrvErrPeer, SrvToken,
       SrvMdt, SrvCallOpen, SrvOpenEmpty, Asks, SrvCallMdt, SrvCallInitHandlers, CallOpen,
       Call, Common, LogInFails, chanVars
  <2>3. Server(InitHandlersOk) => cacheOpen'[Cli] = cacheOpen[Cli]
    BY <1>0 DEF Server, InitHandlersOk
  <2> QED BY <2>1, <2>2, <2>3
<1>4. ASSUME NEW s \in Sides, SideSteps(s)
      PROVE  UNCHANGED initChans /\ cacheOpen'[Cli] = cacheOpen[Cli]
  <2>1. UNCHANGED initChans
    BY <1>4 DEF SideSteps, Starts, Stops, Common, Server, cliVars
  <2>2. CASE ~Common(DeliverOpenReq(s))
    <3>1. UNCHANGED cacheOpen
      BY <1>4, <2>2 DEF SideSteps, Common, Server, Open, OnOpenReq, OnPassiveOpen, OnFin, Starts,
         DtorBegin, DtorGreet, DtorFin, DtorGoOn, DtorFlush, Stops, DeliverLogIn, DeliverFin,
         DropLateRsp, DetectError, OpenAnswered, OpenBroken, OpenTimeout, DtorStart, DtorStop, SrvDtorStop,
         chanVars
    <3> QED BY <2>1, <3>1
  <2>3. CASE Common(DeliverOpenReq(s))
    <3>1. s # Cli
      BY <2>3 DEF ReqStep
    <3>2. cacheOpen'[Cli] = cacheOpen[Cli]
      BY <1>0, <2>3, <3>1 DEF Common, DeliverOpenReq
    <3> QED BY <2>1, <3>2
  <2> QED BY <2>2, <2>3
<1>5. Common(LinkFail) \/ UNCHANGED vars => UNCHANGED <<initChans, cacheOpen>>
  BY DEF Common, LinkFail, vars, baseVars, chanVars, cliVars
<1> QED BY <1>0, <1>1, <1>2, <1>3, <1>4, <1>5, StepSteps

\* What is lost without being collected is lost with everything behind it: the
\* messages with the channel, W's queue with the session.
LEMMA CalmKeepsInit ==
  ASSUME TypeOK, CliInv, LogInInv, InitInv, Step, ~ReqStep
  PROVE  InitInv'
<1>0. /\ TypeOK /\ Cli \in Sides /\ wq[Cli] \in Seq(Item) /\ net[Cli] \in Seq(Item)
      /\ cacheOpen[Cli] \in Seq(Item)
  BY CliTypes
<1>1. expects'[Cli] = expects[Cli] /\ initChans' = initChans /\ cacheOpen'[Cli] = cacheOpen[Cli]
  BY StepCalm
<1>2. /\ \A n, t : Asked(net'[Cli], n, t) => Asked(net[Cli], n, t)
      /\ \/ net'[Cli] = <<>>
         \/ \A n, t : Asked(net[Cli], n, t) => Asked(net'[Cli], n, t)
      /\ \A n, t : Asked(wq'[Cli], n, t) => Asked(wq[Cli], n, t)
      /\ Awaiting =>
           \/ Stops(Cli)
           \/ \A n, t : Asked(wq[Cli], n, t) => Asked(wq'[Cli], n, t)
  BY StepNetCalm, NetCalmAsks, StepWqCalm
<1>3. \A n, t : OnTheWay(n, t)' => OnTheWay(n, t)
  <2> SUFFICES ASSUME NEW n, NEW t, OnTheWay(n, t)' PROVE OnTheWay(n, t)
    OBVIOUS
  <2>1. Asked(net'[Cli], n, t) \/ Asked(wq'[Cli], n, t) \/ Asked(cacheOpen[Cli], n, t)
    BY <1>1 DEF OnTheWay, Asked
  <2> QED BY <1>2, <2>1 DEF OnTheWay
<1>4. Awaiting' <=> Awaiting
  BY <1>1 DEF Awaiting
<1>5. AllOfOneKind'
  BY <1>3, <1>4 DEF InitInv, AllOfOneKind
<1>6. Collected' /\ OnlyReqsKept'
  BY <1>1 DEF InitInv, Collected, OnlyReqsKept, AllReqs
<1>7. NoGaps'
  <2> SUFFICES ASSUME Awaiting, NEW n \in Nat, NEW k \in Nat, OnTheWay(n, "init")',
                      Len(initChans) < k, k < n
               PROVE  OnTheWay(k, "init")'
    BY <1>1, <1>4 DEF NoGaps
  <2>1. OnTheWay(k, "init")
    BY <1>3 DEF InitInv, NoGaps
  <2>2. /\ Ahead(wq[Cli], net[Cli]) /\ Ahead(cacheOpen[Cli], net[Cli])
    BY DEF LogInInv, InitInOrder, Awaiting
  <2>3. Asked(net[Cli], k, "init") =>
          ~Asked(wq[Cli], n, "init") /\ ~Asked(cacheOpen[Cli], n, "init")
    <3>1. \A i \in 1..Len(net[Cli]) : IsReq(net[Cli][i]) /\ net[Cli][i].id = k =>
            /\ \A j \in 1..Len(wq[Cli]) : ~(IsReq(wq[Cli][j]) /\ wq[Cli][j].id = n)
            /\ \A j \in 1..Len(cacheOpen[Cli]) :
                 ~(IsReq(cacheOpen[Cli][j]) /\ cacheOpen[Cli][j].id = n)
      BY <2>2 DEF Ahead
    <3> QED BY <3>1 DEF Asked
  <2>4. \/ Asked(net'[Cli], n, "init") \/ Asked(wq'[Cli], n, "init")
        \/ Asked(cacheOpen[Cli], n, "init")
    BY <1>1 DEF OnTheWay, Asked
  <2>5. Asked(net[Cli], k, "init") => Asked(net'[Cli], k, "init")
    BY <1>2, <2>3, <2>4, NoneAsked
  <2>6. CASE Stops(Cli)
    <3>1. wq'[Cli] = <<>> /\ net'[Cli] = <<>>
      BY <1>0, <2>6, CliTypes DEF Stops, Common, DtorStop
    <3>2. Asked(cacheOpen[Cli], n, "init")
      BY <2>4, <3>1, NoneAsked
    <3>3. expects[Cli] = "none"
      BY <3>2, NoneAsked DEF CliInv, ReqsExpected
    <3>4. NoReq(wq[Cli])
      BY <3>3 DEF CliInv, ReqsExpected, ReqsAre, NoReq, IsReq, ReqTypes
    <3>5. Asked(cacheOpen[Cli], k, "init")
      BY <2>1, <2>3, <3>2, <3>4, NoneAsked DEF OnTheWay
    <3> QED BY <1>1, <3>5 DEF OnTheWay, Asked
  <2>7. CASE ~Stops(Cli)
    <3>1. Asked(wq[Cli], k, "init") => Asked(wq'[Cli], k, "init")
      BY <1>2, <2>7
    <3>2. \/ Asked(net'[Cli], k, "init") \/ Asked(wq'[Cli], k, "init")
          \/ Asked(cacheOpen[Cli], k, "init")
      BY <2>1, <2>5, <3>1 DEF OnTheWay
    <3> QED BY <1>1, <3>2 DEF OnTheWay, Asked
  <2> QED BY <2>6, <2>7
<1> QED BY <1>5, <1>6, <1>7 DEF InitInv

-----------------------------------------------------------------------------
(* Steps that do.                                                           *)

\* Requests on the way stay what they are, wherever they are now.
LEMMA SameOnTheWay ==
  ASSUME InitInv, \A n, t : OnTheWay(n, t)' <=> OnTheWay(n, t),
         Awaiting' <=> Awaiting, initChans' = initChans, OnlyReqsKept',
         NInit > 0 => (expects'[Cli] = "OpenReq" <=> expects[Cli] = "OpenReq")
  PROVE  InitInv'
<1>1. AllOfOneKind'
  BY DEF InitInv, AllOfOneKind
<1>2. NoGaps'
  BY DEF InitInv, NoGaps
<1>3. Collected'
  BY DEF InitInv, Collected
<1> QED BY <1>1, <1>2, <1>3 DEF InitInv

\* An open-channel request is received, and kept or handed to a handler.
LEMMA DeliverKeepsInit ==
  ASSUME TypeOK, InitInv, Common(DeliverOpenReq(Cli))
  PROVE  InitInv'
<1> DEFINE x == Head(net[Cli])
           y == [x EXCEPT !.type = expects[Cli]]
<1>0. /\ Cli \in Sides /\ wq[Cli] \in Seq(Item) /\ cacheOpen[Cli] \in Seq(Item)
      /\ net[Cli] \in Seq(Item) /\ net[Cli] # <<>>
      /\ DOMAIN net = Sides /\ DOMAIN wq = Sides /\ DOMAIN cacheOpen = Sides
      /\ expects[Cli] \in {"none", "InitOpen", "OpenReq"}
  BY CliTypes DEF Common, DeliverOpenReq, Arrives
<1>1. /\ UNCHANGED <<expects, initChans>> /\ net'[Cli] = Tail(net[Cli])
      /\ x \in Item /\ x.type = "OpenReq" /\ IsReq(x)
  BY <1>0 DEF Common, DeliverOpenReq, Arrives, cliVars, IsReq, ReqTypes
<1>2. /\ expects[Cli] = "none" =>
           cacheOpen'[Cli] = Append(cacheOpen[Cli], x) /\ wq'[Cli] = wq[Cli]
      /\ expects[Cli] # "none" =>
           cacheOpen'[Cli] = cacheOpen[Cli] /\ wq'[Cli] = Append(wq[Cli], y)
  BY <1>0 DEF Common, DeliverOpenReq, Post
<1>3. /\ y.id = x.id /\ y.note = x.note /\ y.type = expects[Cli]
      /\ expects[Cli] # "none" => IsReq(y)
  <2>1. y.id = x.id /\ y.note = x.note /\ y.type = expects[Cli]
    BY <1>1 DEF Item
  <2> QED BY <1>0, <2>1 DEF IsReq, ReqTypes
<1>4. /\ \A n, t : Asked(Tail(net[Cli]), n, t) => Asked(net[Cli], n, t)
      /\ Asked(net[Cli], x.id, x.note)
      /\ \A n, t : Asked(net[Cli], n, t) =>
           Asked(Tail(net[Cli]), n, t) \/ (n = x.id /\ t = x.note)
  BY <1>0, <1>1, AskedOnTail
<1> HIDE DEF x, y
<1>5. \A n, t : OnTheWay(n, t)' <=> OnTheWay(n, t)
  <2> SUFFICES ASSUME NEW n, NEW t PROVE OnTheWay(n, t)' <=> OnTheWay(n, t)
    OBVIOUS
  <2>1. OnTheWay(n, t)' <=>
          Asked(net'[Cli], n, t) \/ Asked(wq'[Cli], n, t) \/ Asked(cacheOpen'[Cli], n, t)
    BY DEF OnTheWay, Asked
  <2>2. CASE expects[Cli] = "none"
    <3> DEFINE c == cacheOpen[Cli]
    <3>1. c \in Seq(Item) /\ IsReq(x) /\ cacheOpen'[Cli] = Append(c, x)
      BY <1>0, <1>1, <1>2, <2>2
    <3> HIDE DEF c
    <3>2. Asked(Append(c, x), n, t) <=> Asked(c, n, t) \/ (IsReq(x) /\ x.id = n /\ x.note = t)
      BY <3>1, AskedOnAppend, Zenon
    <3>3. Asked(cacheOpen'[Cli], n, t) <=> Asked(cacheOpen[Cli], n, t) \/ (x.id = n /\ x.note = t)
      BY <3>1, <3>2, Zenon DEF c
    <3> QED BY <1>1, <1>2, <1>4, <2>1, <2>2, <3>3 DEF OnTheWay
  <2>3. CASE expects[Cli] # "none"
    <3> DEFINE q == wq[Cli]
    <3>1. q \in Seq(Item) /\ IsReq(y) /\ wq'[Cli] = Append(q, y)
      BY <1>0, <1>2, <1>3, <2>3
    <3> HIDE DEF q
    <3>2. Asked(Append(q, y), n, t) <=> Asked(q, n, t) \/ (IsReq(y) /\ y.id = n /\ y.note = t)
      BY <3>1, AskedOnAppend, Zenon
    <3>3. Asked(wq'[Cli], n, t) <=> Asked(wq[Cli], n, t) \/ (x.id = n /\ x.note = t)
      BY <1>3, <3>1, <3>2, Zenon DEF q
    <3> QED BY <1>1, <1>2, <1>4, <2>1, <2>3, <3>3 DEF OnTheWay
  <2> QED BY <2>2, <2>3
<1>6. OnlyReqsKept'
  <2>1. \A i \in 1..Len(Append(cacheOpen[Cli], x)) :
          \/ i \in 1..Len(cacheOpen[Cli]) /\ Append(cacheOpen[Cli], x)[i] = cacheOpen[Cli][i]
          \/ Append(cacheOpen[Cli], x)[i] = x
    BY <1>0
  <2> QED BY <1>1, <1>2, <2>1 DEF InitInv, OnlyReqsKept, AllReqs
<1>7. Awaiting' <=> Awaiting
  BY <1>1 DEF Awaiting
<1> QED BY <1>1, <1>5, <1>6, <1>7, SameOnTheWay

\* The response, with no init-channels or with some.
LEMMA LogInRspKeepsInit ==
  ASSUME TypeOK, CliInv, LogInInv, InitInv, Client(LogInRspOk) \/ Client(LogInRspAwaitInit)
  PROVE  InitInv'
<1>0. /\ Cli \in Sides /\ wq[Cli] \in Seq(Item) /\ cacheOpen[Cli] \in Seq(Item)
      /\ Ready(Cli, "LogInRsp") /\ UNCHANGED <<net, initChans>> /\ OnlyReqsKept /\ NInit \in Nat
      /\ DOMAIN wq = Sides /\ DOMAIN expects = Sides /\ DOMAIN cacheOpen = Sides
  BY CliTypes, NInitIsNat DEF Client, LogInRspOk, LogInRspAwaitInit, cliVars, InitInv
<1>1. /\ wq[Cli] # <<>> /\ Head(wq[Cli]).type = "LogInRsp" /\ Tail(wq[Cli]) \in Seq(Item)
      /\ ~IsReq(Head(wq[Cli]))
  BY <1>0, ReadyHas, QueueElements DEF IsReq, ReqTypes
<1>2. \A n, t : Asked(Tail(wq[Cli]), n, t) <=> Asked(wq[Cli], n, t)
  BY <1>0, <1>1, AskedOnTail
<1>3. \/ /\ wq'[Cli] = Tail(wq[Cli])
         /\ expects'[Cli] = expects[Cli] /\ cacheOpen'[Cli] = cacheOpen[Cli]
      \/ \E e \in ReqTypes :
           /\ wq'[Cli] = Tail(wq[Cli]) \o Kept(Cli, e) /\ cacheOpen'[Cli] = <<>>
           /\ expects'[Cli] = e /\ IF NInit = 0 THEN e = "OpenReq" ELSE e = "InitOpen"
  BY <1>0 DEF Client, LogInRspOk, LogInRspAwaitInit, ExpectOpenReqs, Done, DoneThen, ReqTypes
<1>4. \A n, t : OnTheWay(n, t)' <=> OnTheWay(n, t)
  <2> SUFFICES ASSUME NEW n, NEW t PROVE OnTheWay(n, t)' <=> OnTheWay(n, t)
    OBVIOUS
  <2>1. OnTheWay(n, t)' <=>
          Asked(net[Cli], n, t) \/ Asked(wq'[Cli], n, t) \/ Asked(cacheOpen'[Cli], n, t)
    BY <1>0 DEF OnTheWay, Asked
  <2>2. CASE wq'[Cli] = Tail(wq[Cli]) /\ cacheOpen'[Cli] = cacheOpen[Cli]
    BY <1>2, <2>1, <2>2 DEF OnTheWay
  <2>3. ASSUME NEW e \in ReqTypes, wq'[Cli] = Tail(wq[Cli]) \o Kept(Cli, e),
               cacheOpen'[Cli] = <<>>
        PROVE  OnTheWay(n, t)' <=> OnTheWay(n, t)
    <3>1. Kept(Cli, e) \in Seq(Item) /\ (Asked(Kept(Cli, e), n, t) <=> Asked(cacheOpen[Cli], n, t))
      BY <1>0, AskedByKept
    <3> DEFINE q == Tail(wq[Cli])
               k == Kept(Cli, e)
    <3>2. q \in Seq(Item) /\ k \in Seq(Item) /\ wq'[Cli] = q \o k
      BY <1>1, <2>3, <3>1
    <3>3. /\ Asked(q, n, t) <=> Asked(wq[Cli], n, t)
          /\ Asked(k, n, t) <=> Asked(cacheOpen[Cli], n, t)
      BY <1>2, <3>1
    <3> HIDE DEF q, k
    <3>4. Asked(q \o k, n, t) <=> Asked(q, n, t) \/ Asked(k, n, t)
      BY <3>2, AskedOnConcat, Zenon
    <3>5. Asked(wq'[Cli], n, t) <=> Asked(wq[Cli], n, t) \/ Asked(cacheOpen[Cli], n, t)
      BY <3>2, <3>3, <3>4, Zenon
    <3> QED BY <2>1, <2>3, <3>5, NoneAsked DEF OnTheWay
  <2> QED BY <1>3, <2>2, <2>3
<1>5. OnlyReqsKept'
  BY <1>0, <1>3, FewElements DEF OnlyReqsKept, AllReqs
<1>6. NInit > 0 => (expects'[Cli] = "OpenReq" <=> expects[Cli] = "OpenReq")
  <2>1. expects[Cli] = "none"
    BY <1>0, RspGone
  <2> QED BY <1>0, <1>3, <2>1
<1>7. Awaiting' <=> Awaiting
  BY <1>6 DEF Awaiting
<1> QED BY <1>0, <1>4, <1>5, <1>6, <1>7, SameOnTheWay

\* The init-channel that the client takes is the next one.
LEMMA NextIsTaken ==
  ASSUME TypeOK, CliInv, LogInInv, InitInv, Ready(Cli, "InitOpen")
  PROVE  /\ Awaiting /\ expects[Cli] = "InitOpen" /\ cacheOpen[Cli] = <<>>
         /\ wq[Cli] # <<>> /\ IsReq(Head(wq[Cli]))
         /\ Task(Cli).id = Len(initChans) + 1
         /\ Rising(wq[Cli]) /\ Within(wq[Cli], Len(initChans))
         /\ Within(net[Cli], Len(initChans)) /\ Ahead(wq[Cli], net[Cli])
<1> DEFINE q == wq[Cli]
           h == Head(wq[Cli])
           m == Len(initChans)
<1>1. /\ q \in Seq(Item) /\ q # <<>> /\ h.type = "InitOpen"
      /\ expects[Cli] = "InitOpen" /\ cacheOpen[Cli] = <<>> /\ NInit > 0
  <2>1. q \in Seq(Item) /\ q # <<>> /\ h.type = "InitOpen" /\ \A e : ReqsAre(q, e) => e = "InitOpen"
    BY CliTypes, ReadyHas DEF ReqTypes
  <2> QED BY <2>1 DEF CliInv, ReqsExpected
<1>2. /\ Rising(q) /\ Within(q, m) /\ Within(net[Cli], m) /\ Ahead(q, net[Cli]) /\ Awaiting
  BY <1>1 DEF LogInInv, InitInOrder, Awaiting
<1>3. /\ Len(q) \in Nat /\ 1 \in 1..Len(q) /\ h = q[1] /\ IsReq(h) /\ m \in Nat
      /\ \A i \in 1..Len(q) : q[i].id \in Nat
      /\ h.id > m /\ h.id \in Nat
  <2>1. Len(q) \in Nat /\ 1 \in 1..Len(q) /\ h = q[1] /\ IsReq(h)
    BY <1>1, QueueShape DEF IsReq, ReqTypes
  <2>2. m \in Nat
    BY DEF TypeOK, CliTypeOK
  <2> QED BY <1>1, <1>2, <2>1, <2>2, IdsAreNats DEF Within
<1>4. h.id = m + 1
  <2> SUFFICES ASSUME m + 1 < h.id PROVE FALSE
    BY <1>3
  <2>1. OnTheWay(h.id, "init")
    <3>1. Asked(q, h.id, h.note)
      BY <1>3 DEF Asked
    <3> QED BY <1>2, <3>1 DEF OnTheWay, InitInv, AllOfOneKind
  <2>2. OnTheWay(m + 1, "init")
    <3>1. m + 1 \in Nat /\ m < m + 1
      BY <1>3
    <3> QED BY <1>2, <1>3, <2>1, <3>1 DEF InitInv, NoGaps
  <2>3. ~Asked(cacheOpen[Cli], m + 1, "init")
    BY <1>1, NoneAsked
  <2>4. ~Asked(net[Cli], m + 1, "init")
    <3>1. \A j \in 1..Len(net[Cli]) : IsReq(net[Cli][j]) => h.id < net[Cli][j].id
      BY <1>2, <1>3 DEF Ahead
    <3> QED BY <1>3, <3>1 DEF Asked
  <2>5. ~Asked(q, m + 1, "init")
    <3>1. \A i \in 1..Len(q) : IsReq(q[i]) => i = 1 \/ h.id < q[i].id
      BY <1>2, <1>3 DEF Rising
    <3> QED BY <1>3, <3>1 DEF Asked
  <2> QED BY <2>2, <2>3, <2>4, <2>5 DEF OnTheWay
<1> QED BY <1>1, <1>2, <1>3, <1>4 DEF Task

\* It is collected, and is not the last; or it is, too late.
LEMMA CollectKeepsInit ==
  ASSUME TypeOK, CliInv, LogInInv, InitInv, Client(InitOpenMore) \/ Client(InitOpenTooLate)
  PROVE  InitInv'
<1> DEFINE m == Len(initChans)
<1>0. /\ Cli \in Sides /\ Ready(Cli, "InitOpen") /\ Done(Cli)
      /\ UNCHANGED <<net, expects, cacheOpen>>
      /\ initChans \in Seq(Nat) /\ initChans' = Append(initChans, Task(Cli).id)
      /\ wq[Cli] \in Seq(Item) /\ m \in Nat
  BY CliTypes DEF Client, InitOpenMore, InitOpenTooLate, chanVars, cliVars, TypeOK, CliTypeOK
<1>1. /\ Awaiting /\ expects[Cli] = "InitOpen" /\ cacheOpen[Cli] = <<>>
      /\ wq[Cli] # <<>> /\ IsReq(Head(wq[Cli])) /\ Head(wq[Cli]).id = m + 1
      /\ wq'[Cli] = Tail(wq[Cli])
  BY <1>0, NextIsTaken, CliTypes DEF Task, Done
<1>2. /\ \A n, t : Asked(wq'[Cli], n, t) => Asked(wq[Cli], n, t)
      /\ \A n, t : Asked(wq[Cli], n, t) => Asked(wq'[Cli], n, t) \/ n = m + 1
  BY <1>0, <1>1, AskedOnTail
<1>3. \A n, t : /\ OnTheWay(n, t)' => OnTheWay(n, t)
                /\ OnTheWay(n, t) => OnTheWay(n, t)' \/ n = m + 1
  <2> SUFFICES ASSUME NEW n, NEW t
               PROVE  /\ OnTheWay(n, t)' => OnTheWay(n, t)
                      /\ OnTheWay(n, t) => OnTheWay(n, t)' \/ n = m + 1
    OBVIOUS
  <2>1. OnTheWay(n, t)' <=>
          Asked(net[Cli], n, t) \/ Asked(wq'[Cli], n, t) \/ Asked(cacheOpen[Cli], n, t)
    BY <1>0 DEF OnTheWay, Asked
  <2> QED BY <1>2, <2>1 DEF OnTheWay
<1>4. Awaiting' /\ Len(initChans)' = m + 1 /\ expects'[Cli] # "OpenReq"
  BY <1>0, <1>1 DEF Awaiting
<1>5. AllOfOneKind'
  BY <1>1, <1>3, <1>4 DEF InitInv, AllOfOneKind
<1>6. NoGaps'
  <2> SUFFICES ASSUME NEW n \in Nat, NEW k \in Nat, OnTheWay(n, "init")', m + 1 < k, k < n
               PROVE  OnTheWay(k, "init")'
    BY <1>4 DEF NoGaps
  <2>1. OnTheWay(n, "init") /\ m < k /\ k # m + 1
    BY <1>0, <1>3
  <2>2. OnTheWay(k, "init")
    BY <1>1, <2>1 DEF InitInv, NoGaps
  <2> QED BY <1>3, <2>1, <2>2
<1>7. Collected'
  <2>1. \A i \in 1..m : initChans[i] = i
    BY <1>1 DEF InitInv, Collected, Awaiting
  <2>2. \A i \in 1..m + 1 : initChans'[i] = i
    BY <1>0, <1>1, <2>1 DEF Task
  <2> QED BY <1>4, <2>2 DEF Collected
<1>8. OnlyReqsKept'
  BY <1>0 DEF InitInv, OnlyReqsKept, AllReqs
<1> QED BY <1>5, <1>6, <1>7, <1>8 DEF InitInv

\* The last one: nothing else was asked.
LEMMA LastKeepsInit ==
  ASSUME TypeOK, CliInv, LogInInv, InitInv, Client(InitOpenLast)
  PROVE  InitInv'
<1> DEFINE m == Len(initChans)
           k == Kept(Cli, "OpenReq")
           q == Tail(wq[Cli])
<1>0. /\ Cli \in Sides /\ Ready(Cli, "InitOpen") /\ DoneThen(Cli, k)
      /\ m + 1 = NInit /\ expects'[Cli] = "OpenReq" /\ cacheOpen'[Cli] = <<>>
      /\ \E out : Send(Cli, <<New("OpenRsp", Task(Cli).id, "init")>>, out)
      /\ initChans \in Seq(Nat) /\ initChans' = Append(initChans, Task(Cli).id)
      /\ wq[Cli] \in Seq(Item) /\ m \in Nat /\ net[Cli] \in Seq(Item) /\ "OpenReq" \in ReqTypes
  BY CliTypes DEF Client, InitOpenLast, ExpectOpenReqs, TypeOK, CliTypeOK, ReqTypes
<1>1. /\ Awaiting /\ cacheOpen[Cli] = <<>> /\ wq[Cli] # <<>> /\ IsReq(Head(wq[Cli]))
      /\ Head(wq[Cli]).id = m + 1 /\ Rising(wq[Cli]) /\ Within(wq[Cli], m)
      /\ Within(net[Cli], m) /\ Ahead(wq[Cli], net[Cli])
  BY <1>0, NextIsTaken DEF Task
<1>2. NoReq(q) /\ q \in Seq(Item)
  BY <1>0, <1>1, HeadReq, QueueElements
<1>3. NoReq(net[Cli])
  <2>1. 1 \in 1..Len(wq[Cli]) /\ Head(wq[Cli]) = wq[Cli][1]
    BY <1>0, <1>1, QueueShape
  <2>2. \A j \in 1..Len(net[Cli]) : net[Cli][j].id \in Nat
    BY <1>0, IdsAreNats
  <2>3. \A j \in 1..Len(net[Cli]) : IsReq(net[Cli][j]) => m + 1 < net[Cli][j].id
    BY <1>1, <2>1 DEF Ahead
  <2>4. \A j \in 1..Len(net[Cli]) : IsReq(net[Cli][j]) => net[Cli][j].id <= m + 1
    BY <1>0, <1>1 DEF Within
  <2>5. m \in Nat
    BY <1>0
  <2> HIDE DEF m
  <2> QED BY <2>2, <2>3, <2>4, <2>5 DEF NoReq
<1>4. k \in Seq(Item) /\ \A n, t : ~Asked(k, n, t)
  BY <1>0, <1>1, AskedByKept, NoneAsked DEF InitInv
<1>5. wq'[Cli] = q \o k /\ net'[Cli] = net[Cli]
  <2>1. wq'[Cli] = q \o k
    BY <1>0, CliTypes DEF DoneThen
  <2>2. net'[Cli] = net[Cli]
    <3> DEFINE ms == <<New("OpenRsp", Task(Cli).id, "init")>>
    <3>1. PICK out : Send(Cli, ms, out)
      BY <1>0
    <3>2. Peer(Cli) # Cli /\ DOMAIN net = Sides
      BY <1>0, PeerOfPeer, CliTypes
    <3> HIDE DEF ms
    <3>3. \/ UNCHANGED net
          \/ net' = [net EXCEPT ![Peer(Cli)] = net[Peer(Cli)] \o ms]
      <4>1. Send(Cli, ms, out) => UNCHANGED net \/ net' = [net EXCEPT ![Peer(Cli)] = @ \o ms]
        BY DEF Send
      <4> QED BY <3>1, <4>1
    <3> QED BY <1>0, <3>2, <3>3
  <2> QED BY <2>1, <2>2
<1>6. \A n, t : ~OnTheWay(n, t)'
  <2> SUFFICES ASSUME NEW n, NEW t PROVE ~OnTheWay(n, t)'
    OBVIOUS
  <2>1. OnTheWay(n, t)' <=>
          Asked(net'[Cli], n, t) \/ Asked(wq'[Cli], n, t) \/ Asked(cacheOpen'[Cli], n, t)
    BY DEF OnTheWay, Asked
  <2> HIDE DEF q, k
  <2>2. Asked(q \o k, n, t) <=> Asked(q, n, t) \/ Asked(k, n, t)
    BY <1>2, <1>4, AskedOnConcat, Zenon
  <2>3. ~Asked(wq'[Cli], n, t)
    BY <1>2, <1>4, <1>5, <2>2, NoneAsked, Zenon
  <2> QED BY <1>0, <1>3, <1>5, <2>1, <2>3, NoneAsked
<1>7. AllOfOneKind' /\ NoGaps'
  BY <1>6 DEF AllOfOneKind, NoGaps
<1>8. Collected'
  <2>1. \A i \in 1..m : initChans[i] = i
    BY <1>1 DEF InitInv, Collected, Awaiting
  <2>2. Len(initChans') = m + 1 /\ \A i \in 1..m + 1 : initChans'[i] = i
    BY <1>0, <1>1, <2>1 DEF Task
  <2> QED BY <1>0, <2>2 DEF Collected
<1>9. OnlyReqsKept'
  BY <1>0, FewElements DEF OnlyReqsKept, AllReqs
<1> QED BY <1>7, <1>8, <1>9 DEF InitInv

\* The requests for the init-channels.
LEMMA InitReqsAsk ==
  ASSUME NEW k \in Nat
  PROVE  /\ InitReqs(k) \in Seq(Item)
         /\ \A n, t : Asked(InitReqs(k), n, t) <=> n \in 1..k /\ t = "init"
<1>1. /\ Len(InitReqs(k)) = k
      /\ \A i \in 1..k : /\ IsReq(InitReqs(k)[i])
                         /\ InitReqs(k)[i].id = i /\ InitReqs(k)[i].note = "init"
  BY DEF InitReqs, InitReq, New, IsReq, ReqTypes
<1>2. \A n, t : Asked(InitReqs(k), n, t) <=> n \in 1..k /\ t = "init"
  BY <1>1 DEF Asked
<1> QED BY <1>2, InitReqsAreTyped

\* The server sends its response and, after it, the first k of them, or none.
LEMMA AnnounceSends ==
  ASSUME TypeOK, Server(LogInReqAwaitAck) \/ Server(LogInReqInitFails)
  PROVE  /\ NInit > 0
         /\ \E k \in 0..NInit :
              \/ net'[Cli] = net[Cli]
              \/ net'[Cli] = net[Cli] \o (<<Plain("LogInRsp")>> \o InitReqs(k))
<1> DEFINE a == net[Cli]
           b == <<Plain("LogInRsp")>>
<1>0. /\ NInit \in Nat /\ Cli \in Sides /\ Srv \in Sides /\ Cli # Srv /\ DOMAIN net = Sides
      /\ Peer(Srv) = Cli /\ a \in Seq(Item)
  BY CliTypes, NInitIsNat, PeerOfPeer
<1>1. b \in Seq(Item)
  BY PlainIsItem DEF TaskTypes, MsgTypes
<1>2. CASE Server(LogInReqAwaitAck)
  <2> DEFINE ms == b \o InitReqs(NInit)
  <2>1. NInit > 0 /\ Send(Srv, ms, "ok")
    BY <1>2 DEF Server, LogInReqAwaitAck
  <2> HIDE DEF ms
  <2>2. net' = net \/ net' = [net EXCEPT ![Cli] = net[Cli] \o ms]
    BY <1>0, <2>1 DEF Send
  <2>3. net'[Cli] = net[Cli] \/ net'[Cli] = net[Cli] \o ms
    BY <1>0, <2>2
  <2>4. NInit \in 0..NInit
    BY <1>0
  <2> HIDE DEF b
  <2>5. net'[Cli] = net[Cli] \/ net'[Cli] = net[Cli] \o (b \o InitReqs(NInit))
    BY <2>3, Zenon DEF ms
  <2> QED BY <2>1, <2>4, <2>5, Zenon DEF b
<1>3. CASE Server(LogInReqInitFails)
  <2>1. PICK k \in 0..NInit :
          /\ k < NInit
          /\ net' = [net EXCEPT ![Srv] = <<>>, ![Cli] =
                       IF Gone(Srv) THEN @ ELSE @ \o <<Plain("LogInRsp")>> \o InitReqs(k)]
    BY <1>3 DEF Server, LogInReqInitFails
  <2> DEFINE c == InitReqs(k)
  <2>2. NInit > 0 /\ c \in Seq(Item)
    BY <1>0, <2>1, InitReqsAsk
  <2>3. net'[Cli] = a \/ net'[Cli] = (a \o b) \o c
    BY <1>0, <2>1
  <2> HIDE DEF a, b, c
  <2>4. (a \o b) \o c = a \o (b \o c)
    BY <1>0, <1>1, <2>2, ConcatAssociative
  <2>5. net'[Cli] = a \/ net'[Cli] = a \o (b \o c)
    BY <2>3, <2>4, Zenon
  <2> QED BY <2>2, <2>5 DEF a, b, c
<1> QED BY <1>2, <1>3

\* Nothing was asked before.
LEMMA AnnounceKeepsInit ==
  ASSUME TypeOK, CliInv, LogInInv, InitInv,
         Server(LogInReqAwaitAck) \/ Server(LogInReqInitFails)
  PROVE  InitInv'
<1>0. /\ Cli \in Sides /\ Srv \in Sides /\ Cli # Srv /\ DOMAIN wq = Sides
      /\ Ready(Srv, "LogInReq") /\ Done(Srv) /\ net[Cli] \in Seq(Item)
      /\ UNCHANGED <<expects, cacheOpen, initChans>>
  BY CliTypes DEF Server, LogInReqAwaitAck, LogInReqInitFails, cliVars
<1>1. PICK k \in 0..NInit :
        /\ NInit > 0
        /\ \/ net'[Cli] = net[Cli]
           \/ net'[Cli] = net[Cli] \o (<<Plain("LogInRsp")>> \o InitReqs(k))
  BY AnnounceSends
<1>2. Requested /\ expects[Cli] = "none" /\ k \in Nat
  <2>1. Requested
    BY <1>0, ReadyHas DEF Requested
  <2>2. k \in Nat
    BY <1>1, NInitIsNat
  <2> QED BY <2>1, <2>2 DEF LogInInv, OneLogIn
<1>3. /\ NoReq(net[Cli]) /\ NoReq(cacheOpen[Cli]) /\ initChans = <<>> /\ Awaiting
  BY <1>1, <1>2 DEF LogInInv, InitInOrder, CliInv, ReqsExpected, Awaiting
<1>4. NoReq(wq[Cli])
  BY <1>2 DEF CliInv, ReqsExpected, ReqsAre, NoReq, IsReq, ReqTypes
<1>5. wq'[Cli] = wq[Cli]
  BY <1>0 DEF Done
<1>6. \/ \A n, t : ~Asked(net'[Cli], n, t)
      \/ \A n, t : Asked(net'[Cli], n, t) <=> n \in 1..k /\ t = "init"
  <2>1. CASE net'[Cli] = net[Cli]
    BY <1>3, <2>1, NoneAsked
  <2>2. CASE net'[Cli] = net[Cli] \o (<<Plain("LogInRsp")>> \o InitReqs(k))
    <3> DEFINE a == net[Cli]
               b == <<Plain("LogInRsp")>>
               c == InitReqs(k)
    <3>1. /\ a \in Seq(Item) /\ b \in Seq(Item) /\ c \in Seq(Item) /\ b \o c \in Seq(Item)
          /\ \A n, t : ~Asked(a, n, t)
          /\ \A n, t : Asked(c, n, t) <=> n \in 1..k /\ t = "init"
      <4>1. b \in Seq(Item)
        BY PlainIsItem DEF TaskTypes, MsgTypes
      <4> QED BY <1>0, <1>2, <1>3, <4>1, InitReqsAsk, NoneAsked, QueueElements
    <3>2. \A n, t : ~Asked(b, n, t)
      BY NoneAsked DEF Plain, New, IsReq, ReqTypes
    <3> HIDE DEF a, b, c
    <3>3. \A n, t : Asked(b \o c, n, t) <=> Asked(b, n, t) \/ Asked(c, n, t)
      BY <3>1, AskedOnConcat, Zenon
    <3>4. \A n, t : Asked(a \o (b \o c), n, t) <=> Asked(a, n, t) \/ Asked(b \o c, n, t)
      BY <3>1, AskedOnConcat, Zenon
    <3>5. net'[Cli] = a \o (b \o c)
      BY <2>2 DEF a, b, c
    <3> QED BY <3>1, <3>2, <3>3, <3>4, <3>5, Zenon
  <2> QED BY <1>1, <2>1, <2>2
<1>7. \A n, t : OnTheWay(n, t)' <=> Asked(net'[Cli], n, t)
  <2> SUFFICES ASSUME NEW n, NEW t PROVE OnTheWay(n, t)' <=> Asked(net'[Cli], n, t)
    OBVIOUS
  <2>1. OnTheWay(n, t)' <=>
          Asked(net'[Cli], n, t) \/ Asked(wq[Cli], n, t) \/ Asked(cacheOpen[Cli], n, t)
    BY <1>0, <1>5 DEF OnTheWay, Asked
  <2> QED BY <1>3, <1>4, <2>1, NoneAsked
<1>8. Awaiting' /\ Len(initChans') = 0
  BY <1>0, <1>3 DEF Awaiting
<1>9. AllOfOneKind'
  BY <1>6, <1>7, <1>8 DEF AllOfOneKind
<1>10. NoGaps'
  BY <1>2, <1>6, <1>7, <1>8 DEF NoGaps
<1>11. Collected' /\ OnlyReqsKept'
  BY <1>0 DEF InitInv, Collected, OnlyReqsKept, AllReqs
<1> QED BY <1>9, <1>10, <1>11 DEF InitInv

\* The server's user asks for a channel.
LEMMA OpenKeepsInit ==
  ASSUME TypeOK, LogInInv, InitInv, Common(Open(Srv))
  PROVE  InitInv'
<1> DEFINE x == New("OpenReq", opens[Srv] + 1, "user")
           ms == <<x>>
<1>0. /\ Cli \in Sides /\ Srv \in Sides /\ Cli # Srv /\ DOMAIN wq = Sides /\ DOMAIN net = Sides
      /\ Ready(Srv, "Open") /\ Done(Srv) /\ net[Cli] \in Seq(Item) /\ Peer(Srv) = Cli
      /\ UNCHANGED <<expects, cacheOpen, initChans>>
      /\ UNCHANGED net \/ \E out \in SendOutcomes : Send(Srv, ms, out)
  BY CliTypes, PeerOfPeer DEF Common, Open, cliVars
<1>1. ~Awaiting
  <2>1. SrvPastLogIn
    BY <1>0, ReadyHas DEF SrvPastLogIn
  <2> QED BY <2>1, NInitIsNat DEF LogInInv, AfterAck, Awaiting
<1>2. x \in Item /\ x.note = "user"
  <2>1. opens[Srv] + 1 \in Nat
    BY <1>0 DEF TypeOK, BaseTypeOK, PeerTypeOK
  <2>2. x \in Item
    BY <2>1, NewIsItem DEF TaskTypes, MsgTypes, Notes
  <2> QED BY <2>2 DEF New
<1> HIDE DEF x
<1>3. ms \in Seq(Item) /\ \A n, t : Asked(ms, n, t) => t = "user"
  <2>1. ms \in Seq(Item) /\ Len(ms) = 1 /\ ms[1] = x
    BY <1>2
  <2>2. \A i \in 1..Len(ms) : ms[i].note = "user"
    BY <1>2, <2>1
  <2> HIDE DEF ms
  <2> QED BY <2>1, <2>2 DEF Asked
<1> HIDE DEF ms
<1>4. net'[Cli] = net[Cli] \/ net'[Cli] = net[Cli] \o ms
  <2>1. net' = net \/ net' = [net EXCEPT ![Cli] = net[Cli] \o ms]
    BY <1>0 DEF Send
  <2> QED BY <1>0, <2>1
<1>5. \A n, t : Asked(net'[Cli], n, t) => Asked(net[Cli], n, t) \/ t = "user"
  <2>1. \A n, t : Asked(net[Cli] \o ms, n, t) <=> Asked(net[Cli], n, t) \/ Asked(ms, n, t)
    BY <1>0, <1>3, AskedOnConcat, Zenon
  <2> QED BY <1>3, <1>4, <2>1, Zenon
<1>6. \A n, t : OnTheWay(n, t)' => OnTheWay(n, t) \/ t = "user"
  <2> SUFFICES ASSUME NEW n, NEW t, OnTheWay(n, t)' PROVE OnTheWay(n, t) \/ t = "user"
    OBVIOUS
  <2>1. wq'[Cli] = wq[Cli]
    BY <1>0 DEF Done
  <2>2. Asked(net'[Cli], n, t) \/ Asked(wq[Cli], n, t) \/ Asked(cacheOpen[Cli], n, t)
    BY <1>0, <2>1 DEF OnTheWay, Asked
  <2> QED BY <1>5, <2>2 DEF OnTheWay
<1>7. ~Awaiting'
  BY <1>0, <1>1 DEF Awaiting
<1>8. AllOfOneKind' /\ NoGaps'
  BY <1>1, <1>6, <1>7 DEF InitInv, AllOfOneKind, NoGaps
<1>9. Collected' /\ OnlyReqsKept'
  BY <1>0 DEF InitInv, Collected, OnlyReqsKept, AllReqs
<1> QED BY <1>8, <1>9 DEF InitInv

\* Where nothing is asked and nothing collected.
LEMMA NothingAsked ==
  ASSUME NoReq(net[Cli]), NoReq(wq[Cli]), cacheOpen[Cli] = <<>>, initChans = <<>>,
         expects[Cli] = "none"
  PROVE  InitInv
<1>1. \A n, t : ~OnTheWay(n, t)
  BY NoneAsked DEF OnTheWay
<1>2. AllOfOneKind /\ NoGaps
  BY <1>1 DEF AllOfOneKind, NoGaps
<1>3. Collected /\ OnlyReqsKept
  BY FewElements DEF Collected, OnlyReqsKept, AllReqs
<1> QED BY <1>2, <1>3 DEF InitInv

-----------------------------------------------------------------------------
(* The theorems.                                                            *)

LEMMA InitInitInv == Init => InitInv
BY SidesAreSides, FewElements, NothingAsked DEF Init, BaseInit, CliInit

LEMMA ReconnectInitInv ==
  ASSUME AllInv, Reconnect
  PROVE  InitInv'
<1>1. /\ expects'[Cli] = "none" /\ cacheOpen'[Cli] = <<>> /\ initChans' = <<>>
  BY SidesAreSides, SidesDiffer
     DEF Reconnect, ConnectReaches, NewServerSession, AllInv, Known, TypeOK, BaseTypeOK,
     ChanTypeOK
<1>2. NoReq(net'[Cli]) /\ NoReq(wq'[Cli])
  <2>1. ~IsReq(Plain("Err"))
    BY DEF IsReq, ReqTypes, Plain, New
  <2> QED BY <2>1, AllIsFresh, FewElements
<1>3. NoReq(net[Cli])' /\ NoReq(wq[Cli])'
  BY <1>2 DEF NoReq
<1>4. \A n, t : ~OnTheWay(n, t)'
  <2> SUFFICES ASSUME NEW n, NEW t PROVE ~OnTheWay(n, t)'
    OBVIOUS
  <2>1. OnTheWay(n, t)' <=>
          Asked(net'[Cli], n, t) \/ Asked(wq'[Cli], n, t) \/ Asked(cacheOpen'[Cli], n, t)
    BY DEF OnTheWay, Asked
  <2> QED BY <1>1, <1>2, <2>1, NoneAsked
<1>5. AllOfOneKind' /\ NoGaps'
  BY <1>4 DEF AllOfOneKind, NoGaps
<1>6. Collected' /\ OnlyReqsKept'
  BY <1>1, FewElements DEF Collected, OnlyReqsKept, AllReqs
<1> QED BY <1>5, <1>6 DEF InitInv

LEMMA NextInitInv == AllInv /\ InitInv /\ [Next]_vars => InitInv'
<1> SUFFICES ASSUME AllInv, InitInv, [Next]_vars PROVE InitInv'
  OBVIOUS
<1>1. TypeOK /\ CliInv /\ LogInInv
  BY DEF AllInv, Known
<1>2. CASE Reconnect
  BY <1>2, ReconnectInitInv
<1>3. CASE Step /\ ~ReqStep
  BY <1>1, <1>3, CalmKeepsInit
<1>4. CASE ReqStep
  BY <1>1, <1>4, AnnounceKeepsInit, OpenKeepsInit, DeliverKeepsInit, LogInRspKeepsInit,
     CollectKeepsInit, LastKeepsInit DEF ReqStep
<1> QED BY <1>2, <1>3, <1>4 DEF Step

\* The inductive invariant: what is on its way to the client is of one kind, with no
\* gap before it, and what the client has collected is a beginning of what the
\* server announces.
THEOREM InitInvHolds == Spec => [](AllInv /\ InitInv)
<1>1. Init => AllInv /\ InitInv
  BY InitAllInv, InitInitInv
<1>2. (AllInv /\ InitInv) /\ [Next]_vars => (AllInv /\ InitInv)'
  BY NextAllInv, NextInitInv
<1> QED BY <1>1, <1>2, PTL DEF Spec

\* The client's handler of open-channel requests is replaced once, after its last
\* init-channel, by one that tells them apart by nothing: whichever of the two
\* a request is handed to, now or out of the requests that were kept, it is one of
\* those the server sent for that handler.
THEOREM InitNotMixedHolds == Spec => []InitNotMixed
<1>1. AllInv /\ InitInv => InitNotMixed
  <2> SUFFICES ASSUME AllInv, InitInv, NEW i \in DOMAIN wq[Cli], IsReq(wq[Cli][i])
               PROVE  wq[Cli][i].note =
                        IF wq[Cli][i].type = "InitOpen" THEN "init" ELSE "user"
    BY DEF InitNotMixed, IsReq, ReqTypes
  <2>1. /\ TypeOK /\ CliInv /\ wq[Cli] \in Seq(Item) /\ i \in 1..Len(wq[Cli])
    BY CliTypes DEF AllInv, Known
  <2>2. /\ wq[Cli][i].type = expects[Cli] /\ wq[Cli][i].type \in {"InitOpen", "OpenReq"}
        /\ wq[Cli][i].type = "InitOpen" => NInit > 0
    BY <2>1 DEF CliInv, ReqsExpected, ReqsAre, IsReq, ReqTypes
  <2>3. OnTheWay(wq[Cli][i].id, wq[Cli][i].note)
    BY <2>1 DEF OnTheWay, Asked
  <2> QED BY <2>2, <2>3 DEF InitInv, AllOfOneKind, Awaiting
<1> QED BY <1>1, InitInvHolds, PTL

\* The acknowledgement of the last init-channel is what the server's log-in waits
\* for: when it is over, and when the client is PEER, the client's list of
\* init-channels is the server's.
THEOREM InitChannelsAgreeHolds == Spec => []InitChannelsAgree
<1>1. AllInv /\ InitInv => InitChannelsAgree
  <2> SUFFICES ASSUME AllInv, InitInv, NInit > 0, login = "ok" \/ cstate = "PEER"
               PROVE  initChans = [i \in 1..NInit |-> i]
    BY DEF InitChannelsAgree
  <2>1. expects[Cli] = "OpenReq"
    BY DEF AllInv, Known, CliInv, PastLogIn, LogInInv, AfterAck, SrvPastLogIn
  <2>2. Len(initChans) = NInit /\ \A i \in 1..Len(initChans) : initChans[i] = i
    BY <2>1 DEF InitInv, Collected
  <2>3. initChans \in Seq(Nat)
    BY DEF AllInv, Known, TypeOK, CliTypeOK
  <2>4. initChans = [i \in 1..Len(initChans) |-> initChans[i]]
    BY <2>3
  <2> QED BY <2>2, <2>4
<1> QED BY <1>1, InitInvHolds, PTL
=============================================================================
