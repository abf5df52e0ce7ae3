-------------------------- MODULE SessionPairProofs --------------------------
(***************************************************************************)
(* Types and errors of SessionPair, for any bounds and switches: every       *)
(* variable keeps to its type; errors reach the users exactly once; and a     *)
(* session whose error has been reported opens no channel.                   *)
(*                                                                         *)
(* For the types the lemmas about queues come first, then one step per        *)
(* action, and under it one per group of variables the action can disturb.    *)
(*                                                                         *)
(* ErrOnce is not inductive: OpenBroken hoses without looking at hosed(), so  *)
(* one must know that W's wait in open_channel() started, and has lasted, with *)
(* the session intact.  WaitingIsNotHosed says that; it holds because no task *)
(* of W runs during the wait.                                                 *)
(***************************************************************************)
EXTENDS SessionPair, TLAPS

-----------------------------------------------------------------------------
(* Sides, items and queues of items.                                         *)

\* Both ends are sides, and so is the peer of a side.
LEMMA SidesAreSides ==
  Srv \in Sides /\ Cli \in Sides /\ \A s \in Sides : Peer(s) \in Sides
BY DEF Sides, Peer

\* New() and Plain() make items.
LEMMA NewIsItem ==
  ASSUME NEW t \in TaskTypes, NEW i \in Nat, NEW n \in Notes
  PROVE  New(t, i, n) \in Item
BY DEF New, Item

\* A task without contents, Plain(t), is an item of the queues.
LEMMA PlainIsItem == ASSUME NEW t \in TaskTypes PROVE Plain(t) \in Item
BY NewIsItem DEF Plain, Notes

\* Renaming the type of an item gives an item (a message becomes a task).
LEMMA RetypeIsItem ==
  ASSUME NEW m \in Item, NEW t \in TaskTypes
  PROVE  [m EXCEPT !.type = t] \in Item
BY DEF Item

\* One queue of a family of queues is replaced.
LEMMA UpdateKeepsType ==
  ASSUME NEW q \in [Sides -> Seq(Item)], NEW s \in Sides, NEW v \in Seq(Item)
  PROVE  [q EXCEPT ![s] = v] \in [Sides -> Seq(Item)]
OBVIOUS

\* Post(), Done() and DoneThen() keep W's queue a queue of tasks.
LEMMA PostKeepsType ==
  ASSUME ThreadTypeOK, NEW s \in Sides, NEW t \in Item, Post(s, t)
  PROVE  wq' \in [Sides -> Seq(Item)]
BY DEF ThreadTypeOK, Post

\* A W task that ends by posting further tasks leaves the queues well typed.
LEMMA DoneThenKeepsType ==
  ASSUME ThreadTypeOK, NEW s \in Sides, NEW t, Ready(s, t),
         NEW ts \in Seq(Item), DoneThen(s, ts)
  PROVE  wq' \in [Sides -> Seq(Item)]
BY DEF ThreadTypeOK, Ready, DoneThen

\* A W task that ends without posting leaves the queues well typed.
LEMMA DoneKeepsType ==
  ASSUME ThreadTypeOK, NEW s \in Sides, NEW t, Ready(s, t), Done(s)
  PROVE  wq' \in [Sides -> Seq(Item)]
BY DEF ThreadTypeOK, Ready, Done

\* The next task is an item.
LEMMA TaskIsItem ==
  ASSUME ThreadTypeOK, NEW s \in Sides, NEW t, Ready(s, t)
  PROVE  Task(s) \in Item /\ Task(s).id \in Nat
<1>1. Task(s) \in Item
  BY DEF ThreadTypeOK, Ready, Task
<1> QED BY <1>1 DEF Item

\* What has been kept for a handler is posted as tasks.
LEMMA KeptIsTyped ==
  ASSUME ChanTypeOK, NEW s \in Sides, NEW t \in TaskTypes
  PROVE  Kept(s, t) \in Seq(Item)
<1>1. cacheOpen[s] \in Seq(Item) /\ Len(cacheOpen[s]) \in Nat
  BY DEF ChanTypeOK
<1>2. \A i \in 1..Len(cacheOpen[s]) : cacheOpen[s][i] \in Item
  BY <1>1
<1>3. \A i \in 1..Len(cacheOpen[s]) : [cacheOpen[s][i] EXCEPT !.type = t] \in Item
  BY <1>2, RetypeIsItem
<1> QED BY <1>1, <1>3 DEF Kept

-----------------------------------------------------------------------------
(* The master channel, and parts several actions share.                      *)

\* send() queues items at the peer.
LEMMA SendKeepsType ==
  ASSUME ChanTypeOK, NEW s \in Sides, NEW ms \in Seq(Item), NEW out, Send(s, ms, out)
  PROVE  net' \in [Sides -> Seq(Item)] /\ chErr' \in [Sides -> BOOLEAN]
<1>1. net \in [Sides -> Seq(Item)] /\ Peer(s) \in Sides
  BY SidesAreSides DEF ChanTypeOK
<1>2. net[Peer(s)] \o ms \in Seq(Item)
  BY <1>1
<1>3. net' = net \/ net' = [net EXCEPT ![Peer(s)] = net[Peer(s)] \o ms]
  BY DEF Send
<1>4. net' \in [Sides -> Seq(Item)]
  BY <1>1, <1>2, <1>3, UpdateKeepsType
<1>5. chErr' \in [Sides -> BOOLEAN]
  BY DEF Send, ChanTypeOK
<1> QED BY <1>4, <1>5

\* A message that arrives is an item.
LEMMA ArrivesKeepsType ==
  ASSUME ChanTypeOK, NEW s \in Sides, NEW t, Arrives(s, t)
  PROVE  /\ net' \in [Sides -> Seq(Item)]
         /\ Head(net[s]) \in Item
         /\ Head(net[s]).note \in Results
<1>1. net' \in [Sides -> Seq(Item)] /\ Head(net[s]) \in Item
  BY DEF ChanTypeOK, Arrives
<1>2. Head(net[s]).note \in Notes
  BY <1>1 DEF Item
<1> QED BY <1>1, <1>2 DEF Results

\* The user's call returns.
LEMMA AnswerKeepsType ==
  ASSUME ThreadTypeOK, NEW s \in Sides, NEW r \in Results,
         UNCHANGED <<user, ret>> \/ Answer(s, r)
  PROVE  user' \in [Sides -> {"idle", "call"}] /\ ret' \in [Sides -> Results]
BY DEF ThreadTypeOK, Answer

\* hose(), and hose() unless hosed().
LEMMA HoseKeepsType ==
  ASSUME PeerTypeOK, NEW s \in Sides,
         UNCHANGED <<hosed, onErr>> \/ Hose(s) \/ HoseUnlessHosed(s)
  PROVE  hosed' \in [Sides -> BOOLEAN] /\ onErr' \in [Sides -> Nat]
<1>1. CASE UNCHANGED <<hosed, onErr>>
  BY <1>1 DEF PeerTypeOK
<1>2. CASE Hose(s)
  BY <1>2 DEF PeerTypeOK, Hose
<1> QED BY <1>1, <1>2 DEF HoseUnlessHosed

\* What an action leaves alone keeps its type.
LEMMA SameKeepsType ==
  /\ ChanTypeOK /\ UNCHANGED chanVars => ChanTypeOK'
  /\ ThreadTypeOK /\ UNCHANGED threadVars => ThreadTypeOK'
  /\ PeerTypeOK /\ UNCHANGED peerVars => PeerTypeOK'
  /\ EndTypeOK /\ UNCHANGED endVars => EndTypeOK'
  /\ CliTypeOK /\ UNCHANGED cliVars => CliTypeOK'
  /\ SrvTypeOK /\ UNCHANGED srvVars => SrvTypeOK'
<1>1. ChanTypeOK /\ UNCHANGED chanVars => ChanTypeOK'
  BY DEF ChanTypeOK, chanVars
<1>2. ThreadTypeOK /\ UNCHANGED threadVars => ThreadTypeOK'
  BY DEF ThreadTypeOK, threadVars
<1>3. PeerTypeOK /\ UNCHANGED peerVars => PeerTypeOK'
  BY DEF PeerTypeOK, peerVars
<1>4. EndTypeOK /\ UNCHANGED endVars => EndTypeOK'
  BY DEF EndTypeOK, endVars
<1>5. CliTypeOK /\ UNCHANGED cliVars => CliTypeOK'
  BY DEF CliTypeOK, cliVars
<1>6. SrvTypeOK /\ UNCHANGED srvVars => SrvTypeOK'
  BY DEF SrvTypeOK, srvVars
<1> QED BY <1>1, <1>2, <1>3, <1>4, <1>5, <1>6
-----------------------------------------------------------------------------
\* Tasks of W that both sides have.
LEMMA SharedTaskKeepsType ==
  ASSUME ChanTypeOK, ThreadTypeOK, PeerTypeOK, EndTypeOK, CliTypeOK, SrvTypeOK,
         NEW s \in Sides, SharedTask(s)
  PROVE  TypeOK'
<1>1. CASE Common(Open(s))
  <2>1. ChanTypeOK'
    <3>0. opens[s] + 1 \in Nat
      BY DEF PeerTypeOK
    <3>1. <<New("OpenReq", opens[s] + 1, "user")>> \in Seq(Item)
      BY <3>0, NewIsItem DEF TaskTypes, MsgTypes, Notes
    <3>2. \/ UNCHANGED <<net, chErr>>
          \/ \E out : Send(s, <<New("OpenReq", opens[s] + 1, "user")>>, out)
      BY <1>1 DEF Common, Open
    <3>3. net' \in [Sides -> Seq(Item)] /\ chErr' \in [Sides -> BOOLEAN]
      BY <3>1, <3>2, SendKeepsType DEF ChanTypeOK
    <3> QED BY <1>1, <3>3 DEF Common, Open, ChanTypeOK
  <2>2. ThreadTypeOK'
    <3>1. wq' \in [Sides -> Seq(Item)]
      BY <1>1, DoneKeepsType DEF Common, Open
    <3>2. user' \in [Sides -> {"idle", "call"}] /\ ret' \in [Sides -> Results]
      <4>1. UNCHANGED <<user, ret>> \/ Answer(s, "false")
        BY <1>1 DEF Common, Open
      <4> QED BY <4>1, AnswerKeepsType DEF Results
    <3>3. inside' = inside \/ inside' = [inside EXCEPT ![s] = "open"]
      BY <1>1 DEF Common, Open
    <3> QED BY <3>1, <3>2, <3>3 DEF ThreadTypeOK
  <2>3. PeerTypeOK'
    <3>1. UNCHANGED <<hosed, onErr>> \/ Hose(s)
      BY <1>1 DEF Common, Open
    <3>2. hosed' \in [Sides -> BOOLEAN] /\ onErr' \in [Sides -> Nat]
      BY <3>1, HoseKeepsType
    <3>3. opens' = opens \/ opens' = [opens EXCEPT ![s] = opens[s] + 1]
      BY <1>1 DEF Common, Open
    <3> QED BY <1>1, <3>2, <3>3 DEF Common, Open, PeerTypeOK
  <2>4. EndTypeOK' /\ CliTypeOK' /\ SrvTypeOK'
    BY <1>1, SameKeepsType DEF Common, Open
  <2> QED BY <2>1, <2>2, <2>3, <2>4 DEF TypeOK, BaseTypeOK
<1>2. CASE Common(OnOpenReq(s))
  <2>1. ChanTypeOK'
    <3>1. \A v \in Verdicts(s) : <<New("OpenRsp", Task(s).id, v)>> \in Seq(Item)
      <4>1. Task(s).id \in Nat /\ Verdicts(s) \subseteq Notes
        BY <1>2, TaskIsItem DEF Common, OnOpenReq, Verdicts, Notes
      <4> QED BY <4>1, NewIsItem DEF TaskTypes, MsgTypes
    <3>2. \/ UNCHANGED <<net, chErr>>
          \/ \E v \in Verdicts(s), out \in SendOutcomes :
               Send(s, <<New("OpenRsp", Task(s).id, v)>>, out)
      BY <1>2 DEF Common, OnOpenReq
    <3>3. net' \in [Sides -> Seq(Item)] /\ chErr' \in [Sides -> BOOLEAN]
      BY <3>1, <3>2, SendKeepsType DEF ChanTypeOK
    <3> QED BY <1>2, <3>3 DEF Common, OnOpenReq, ChanTypeOK
  <2>2. ThreadTypeOK'
    <3>1. wq' = wq \/ Done(s)
      BY <1>2 DEF Common, OnOpenReq
    <3>2. wq' \in [Sides -> Seq(Item)]
      BY <1>2, <3>1, DoneKeepsType DEF Common, OnOpenReq, ThreadTypeOK
    <3>3. inside' = inside \/ inside' = [inside EXCEPT ![s] = "passive"]
      BY <1>2 DEF Common, OnOpenReq
    <3> QED BY <1>2, <3>2, <3>3 DEF Common, OnOpenReq, ThreadTypeOK
  <2>3. PeerTypeOK'
    <3>1. UNCHANGED <<hosed, onErr>> \/ Hose(s)
      BY <1>2 DEF Common, OnOpenReq
    <3>2. hosed' \in [Sides -> BOOLEAN] /\ onErr' \in [Sides -> Nat]
      BY <3>1, HoseKeepsType
    <3> QED BY <1>2, <3>2 DEF Common, OnOpenReq, PeerTypeOK
  <2>4. EndTypeOK' /\ CliTypeOK' /\ SrvTypeOK'
    BY <1>2, SameKeepsType DEF Common, OnOpenReq
  <2> QED BY <2>1, <2>2, <2>3, <2>4 DEF TypeOK, BaseTypeOK
<1>3. CASE Common(OnFin(s))
  <2>1. ThreadTypeOK'
    BY <1>3, DoneKeepsType DEF Common, OnFin, ThreadTypeOK
  <2>2. PeerTypeOK'
    <3>1. hosed' \in [Sides -> BOOLEAN] /\ onErr' \in [Sides -> Nat]
      BY <1>3, HoseKeepsType DEF Common, OnFin
    <3> QED BY <1>3, <3>1 DEF Common, OnFin, PeerTypeOK
  <2>3. EndTypeOK'
    BY <1>3 DEF Common, OnFin, EndTypeOK
  <2>4. ChanTypeOK' /\ CliTypeOK' /\ SrvTypeOK'
    BY <1>3, SameKeepsType DEF Common, OnFin
  <2> QED BY <2>1, <2>2, <2>3, <2>4 DEF TypeOK, BaseTypeOK
<1>4. CASE Common(DtorBegin(s))
  <2>1. ThreadTypeOK'
    BY <1>4, DoneKeepsType DEF Common, DtorBegin, ThreadTypeOK
  <2>2. EndTypeOK'
    BY <1>4 DEF Common, DtorBegin, EndTypeOK
  <2>3. ChanTypeOK' /\ PeerTypeOK' /\ CliTypeOK' /\ SrvTypeOK'
    BY <1>4, SameKeepsType DEF Common, DtorBegin
  <2> QED BY <2>1, <2>2, <2>3 DEF TypeOK, BaseTypeOK
<1>5. CASE Common(DtorFin(s))
  <2>1. ChanTypeOK'
    <3>1. <<Plain("Fin")>> \in Seq(Item)
      BY PlainIsItem DEF TaskTypes, MsgTypes
    <3>2. UNCHANGED <<net, chErr>> \/ \E out : Send(s, <<Plain("Fin")>>, out)
      BY <1>5 DEF Common, DtorFin
    <3>3. net' \in [Sides -> Seq(Item)] /\ chErr' \in [Sides -> BOOLEAN]
      BY <3>1, <3>2, SendKeepsType DEF ChanTypeOK
    <3> QED BY <1>5, <3>3 DEF Common, DtorFin, ChanTypeOK
  <2>2. ThreadTypeOK'
    BY <1>5, DoneKeepsType DEF Common, DtorFin, ThreadTypeOK
  <2>3. EndTypeOK'
    BY <1>5 DEF Common, DtorFin, EndTypeOK
  <2>4. PeerTypeOK' /\ CliTypeOK' /\ SrvTypeOK'
    BY <1>5, SameKeepsType DEF Common, DtorFin
  <2> QED BY <2>1, <2>2, <2>3, <2>4 DEF TypeOK, BaseTypeOK
<1>6. CASE Common(DtorFlush(s))
  <2>1. ThreadTypeOK'
    BY <1>6, DoneKeepsType DEF Common, DtorFlush, ThreadTypeOK
  <2>2. EndTypeOK'
    BY <1>6 DEF Common, DtorFlush, EndTypeOK
  <2>3. ChanTypeOK' /\ PeerTypeOK' /\ CliTypeOK' /\ SrvTypeOK'
    BY <1>6, SameKeepsType DEF Common, DtorFlush
  <2> QED BY <2>1, <2>2, <2>3 DEF TypeOK, BaseTypeOK
<1>7. CASE Common(OnPassiveOpen(s))
  <2>1. wq[s] \in Seq(Item) /\ wq[s] # <<>>
    BY <1>7 DEF Common, OnPassiveOpen, Giving, ThreadTypeOK
  <2>2. Task(s).id \in Nat /\ Tail(wq[s]) \in Seq(Item)
    <3>1. Head(wq[s]) \in Item /\ Tail(wq[s]) \in Seq(Item)
      BY <2>1
    <3> QED BY <3>1 DEF Task, Item
  <2>3. ThreadTypeOK'
    BY <1>7, <2>2 DEF Common, OnPassiveOpen, Done, ThreadTypeOK
  <2>4. PeerTypeOK'
    BY <1>7, <2>2 DEF Common, OnPassiveOpen, PeerTypeOK
  <2>5. ChanTypeOK' /\ EndTypeOK' /\ CliTypeOK' /\ SrvTypeOK'
    BY <1>7, SameKeepsType DEF Common, OnPassiveOpen
  <2> QED BY <2>3, <2>4, <2>5 DEF TypeOK, BaseTypeOK
<1> QED BY <1>1, <1>2, <1>3, <1>4, <1>5, <1>6, <1>7 DEF SharedTask

-----------------------------------------------------------------------------
\* U inside the destructor.
LEMMA DtorStepKeepsType ==
  ASSUME ChanTypeOK, ThreadTypeOK, PeerTypeOK, EndTypeOK, CliTypeOK, SrvTypeOK,
         NEW s \in Sides, DtorStep(s)
  PROVE  TypeOK'
<1>1. CASE Common(DtorGreet(s))
  <2>1. ThreadTypeOK'
    <3>1. Plain("DtorFin") \in Item
      BY PlainIsItem DEF TaskTypes, MsgTypes
    <3> QED BY <1>1, <3>1, PostKeepsType DEF Common, DtorGreet, ThreadTypeOK
  <2>2. EndTypeOK'
    BY <1>1 DEF Common, DtorGreet, EndTypeOK
  <2>3. ChanTypeOK' /\ PeerTypeOK' /\ CliTypeOK' /\ SrvTypeOK'
    BY <1>1, SameKeepsType DEF Common, DtorGreet
  <2> QED BY <2>1, <2>2, <2>3 DEF TypeOK, BaseTypeOK
<1>2. CASE Common(DtorGoOn(s))
  <2>1. ThreadTypeOK'
    <3>1. Plain("DtorFlush") \in Item
      BY PlainIsItem DEF TaskTypes, MsgTypes
    <3> QED BY <1>2, <3>1, PostKeepsType DEF Common, DtorGoOn, ThreadTypeOK
  <2>2. EndTypeOK'
    BY <1>2 DEF Common, DtorGoOn, EndTypeOK
  <2>3. ChanTypeOK' /\ PeerTypeOK' /\ CliTypeOK' /\ SrvTypeOK'
    BY <1>2, SameKeepsType DEF Common, DtorGoOn
  <2> QED BY <2>1, <2>2, <2>3 DEF TypeOK, BaseTypeOK
<1>3. CASE s = Cli /\ Common(DtorStop(Cli))
  <2>1. ChanTypeOK'
    BY <1>3, UpdateKeepsType DEF Common, DtorStop, ChanTypeOK
  <2>2. ThreadTypeOK'
    BY <1>3 DEF Common, DtorStop, ThreadTypeOK, Results, Notes
  <2>3. EndTypeOK'
    BY <1>3 DEF Common, DtorStop, EndTypeOK
  <2>4. PeerTypeOK' /\ CliTypeOK' /\ SrvTypeOK'
    BY <1>3, SameKeepsType DEF Common, DtorStop
  <2> QED BY <2>1, <2>2, <2>3, <2>4 DEF TypeOK, BaseTypeOK
<1>4. CASE s = Srv /\ Server(SrvDtorStop)
  <2>1. ChanTypeOK'
    BY <1>4, UpdateKeepsType DEF Server, SrvDtorStop, DtorStop, ChanTypeOK
  <2>2. ThreadTypeOK'
    BY <1>4 DEF Server, SrvDtorStop, DtorStop, ThreadTypeOK, Results, Notes
  <2>3. EndTypeOK'
    BY <1>4 DEF Server, SrvDtorStop, DtorStop, EndTypeOK
  <2>4. SrvTypeOK'
    BY <1>4 DEF Server, SrvDtorStop, DtorStop, SrvTypeOK
  <2>5. PeerTypeOK' /\ CliTypeOK'
    BY <1>4, SameKeepsType DEF Server, SrvDtorStop, DtorStop
  <2> QED BY <2>1, <2>2, <2>3, <2>4, <2>5 DEF TypeOK, BaseTypeOK
<1> QED BY <1>1, <1>2, <1>3, <1>4 DEF DtorStep

-----------------------------------------------------------------------------
\* Thread Wc, and W woken from a sync_request().
LEMMA WcStepKeepsType ==
  ASSUME ChanTypeOK, ThreadTypeOK, PeerTypeOK, EndTypeOK, CliTypeOK, SrvTypeOK,
         NEW s \in Sides, WcStep(s)
  PROVE  TypeOK'
<1>1. CASE Common(DeliverLogIn(s))
  <2>1. ChanTypeOK'
    <3>1. net' \in [Sides -> Seq(Item)]
      BY <1>1, ArrivesKeepsType DEF Common, DeliverLogIn
    <3> QED BY <1>1, <3>1 DEF Common, DeliverLogIn, ChanTypeOK
  <2>2. ThreadTypeOK'
    <3>1. Head(net[s]) \in Item
      BY <1>1, ArrivesKeepsType DEF Common, DeliverLogIn
    <3>2. wq' \in [Sides -> Seq(Item)]
      BY <1>1, <3>1, PostKeepsType DEF Common, DeliverLogIn
    <3> QED BY <1>1, <3>2 DEF Common, DeliverLogIn, ThreadTypeOK
  <2>3. PeerTypeOK' /\ EndTypeOK' /\ CliTypeOK' /\ SrvTypeOK'
    BY <1>1, SameKeepsType DEF Common, DeliverLogIn
  <2> QED BY <2>1, <2>2, <2>3 DEF TypeOK, BaseTypeOK
<1>2. CASE Common(DeliverOpenReq(s))
  <2>1. ChanTypeOK'
    <3>1. net' \in [Sides -> Seq(Item)] /\ Head(net[s]) \in Item
      BY <1>2, ArrivesKeepsType DEF Common, DeliverOpenReq
    <3>2. Append(cacheOpen[s], Head(net[s])) \in Seq(Item)
      BY <3>1 DEF ChanTypeOK
    <3>3. \/ cacheOpen' = cacheOpen
          \/ cacheOpen' = [cacheOpen EXCEPT ![s] = Append(cacheOpen[s], Head(net[s]))]
      BY <1>2 DEF Common, DeliverOpenReq
    <3>4. cacheOpen' \in [Sides -> Seq(Item)]
      BY <3>2, <3>3, UpdateKeepsType DEF ChanTypeOK
    <3> QED BY <1>2, <3>1, <3>4 DEF Common, DeliverOpenReq, ChanTypeOK
  <2>2. ThreadTypeOK'
    <3>1. Head(net[s]) \in Item
      BY <1>2, ArrivesKeepsType DEF Common, DeliverOpenReq
    <3>2. CASE expects[s] = "none"
      BY <1>2, <3>2 DEF Common, DeliverOpenReq, ThreadTypeOK
    <3>3. CASE expects[s] # "none"
      <4>1. expects[s] \in TaskTypes
        BY <3>3 DEF ChanTypeOK, TaskTypes, MsgTypes
      <4>2. wq' \in [Sides -> Seq(Item)]
        BY <1>2, <3>1, <3>3, <4>1, RetypeIsItem, PostKeepsType DEF Common, DeliverOpenReq
      <4> QED BY <1>2, <4>2 DEF Common, DeliverOpenReq, ThreadTypeOK
    <3> QED BY <3>2, <3>3
  <2>3. PeerTypeOK' /\ EndTypeOK' /\ CliTypeOK' /\ SrvTypeOK'
    BY <1>2, SameKeepsType DEF Common, DeliverOpenReq
  <2> QED BY <2>1, <2>2, <2>3 DEF TypeOK, BaseTypeOK
<1>3. CASE Common(DeliverFin(s))
  <2>1. ChanTypeOK'
    <3>1. net' \in [Sides -> Seq(Item)]
      BY <1>3, ArrivesKeepsType DEF Common, DeliverFin
    <3> QED BY <1>3, <3>1 DEF Common, DeliverFin, ChanTypeOK
  <2>2. ThreadTypeOK'
    <3>1. Plain("Fin") \in Item
      BY PlainIsItem DEF TaskTypes, MsgTypes
    <3>2. wq' = wq \/ Post(s, Plain("Fin"))
      BY <1>3 DEF Common, DeliverFin
    <3>3. wq' \in [Sides -> Seq(Item)]
      BY <3>1, <3>2, PostKeepsType DEF ThreadTypeOK
    <3> QED BY <1>3, <3>3 DEF Common, DeliverFin, ThreadTypeOK
  <2>3. PeerTypeOK' /\ EndTypeOK' /\ CliTypeOK' /\ SrvTypeOK'
    BY <1>3, SameKeepsType DEF Common, DeliverFin
  <2> QED BY <2>1, <2>2, <2>3 DEF TypeOK, BaseTypeOK
<1>4. CASE Common(DropLateRsp(s))
  <2>1. ChanTypeOK'
    <3>1. net' \in [Sides -> Seq(Item)]
      BY <1>4, ArrivesKeepsType DEF Common, DropLateRsp
    <3> QED BY <1>4, <3>1 DEF Common, DropLateRsp, ChanTypeOK
  <2>2. ThreadTypeOK' /\ PeerTypeOK' /\ EndTypeOK' /\ CliTypeOK' /\ SrvTypeOK'
    BY <1>4, SameKeepsType DEF Common, DropLateRsp
  <2> QED BY <2>1, <2>2 DEF TypeOK, BaseTypeOK
<1>5. CASE Common(DetectError(s))
  <2>1. ChanTypeOK'
    BY <1>5 DEF Common, DetectError, ChanTypeOK
  <2>2. ThreadTypeOK'
    <3>1. Plain("Err") \in Item
      BY PlainIsItem DEF TaskTypes, MsgTypes
    <3> QED BY <1>5, <3>1, PostKeepsType DEF Common, DetectError, ThreadTypeOK
  <2>3. PeerTypeOK' /\ EndTypeOK' /\ CliTypeOK' /\ SrvTypeOK'
    BY <1>5, SameKeepsType DEF Common, DetectError
  <2> QED BY <2>1, <2>2, <2>3 DEF TypeOK, BaseTypeOK
<1>6. CASE Common(OpenAnswered(s))
  <2>1. ChanTypeOK'
    <3>1. net' \in [Sides -> Seq(Item)]
      BY <1>6, ArrivesKeepsType DEF Common, OpenAnswered
    <3> QED BY <1>6, <3>1 DEF Common, OpenAnswered, ChanTypeOK
  <2>2. ThreadTypeOK'
    <3>1. Head(net[s]).note \in Results
      BY <1>6, ArrivesKeepsType DEF Common, OpenAnswered
    <3>2. user' \in [Sides -> {"idle", "call"}] /\ ret' \in [Sides -> Results]
      BY <1>6, <3>1, AnswerKeepsType DEF Common, OpenAnswered
    <3> QED BY <1>6, <3>2 DEF Common, OpenAnswered, ThreadTypeOK
  <2>3. PeerTypeOK'
    <3>1. \/ activeOpened' = activeOpened
          \/ activeOpened' = [activeOpened EXCEPT ![s] = activeOpened[s] \cup {opens[s]}]
      BY <1>6 DEF Common, OpenAnswered, PeerTypeOK
    <3> QED BY <1>6, <3>1 DEF Common, OpenAnswered, PeerTypeOK
  <2>4. EndTypeOK' /\ CliTypeOK' /\ SrvTypeOK'
    BY <1>6, SameKeepsType DEF Common, OpenAnswered
  <2> QED BY <2>1, <2>2, <2>3, <2>4 DEF TypeOK, BaseTypeOK
<1>7. CASE Common(OpenBroken(s))
  <2>1. ChanTypeOK'
    BY <1>7 DEF Common, OpenBroken, ChanTypeOK
  <2>2. ThreadTypeOK'
    <3>1. Plain("Err") \in Item
      BY PlainIsItem DEF TaskTypes, MsgTypes
    <3>2. wq' = wq \/ Post(s, Plain("Err"))
      BY <1>7 DEF Common, OpenBroken
    <3>3. wq' \in [Sides -> Seq(Item)]
      BY <3>1, <3>2, PostKeepsType DEF ThreadTypeOK
    <3>4. user' \in [Sides -> {"idle", "call"}] /\ ret' \in [Sides -> Results]
      BY <1>7, AnswerKeepsType DEF Common, OpenBroken, Results
    <3> QED BY <1>7, <3>3, <3>4 DEF Common, OpenBroken, ThreadTypeOK
  <2>3. PeerTypeOK'
    <3>1. hosed' \in [Sides -> BOOLEAN] /\ onErr' \in [Sides -> Nat]
      BY <1>7, HoseKeepsType DEF Common, OpenBroken
    <3> QED BY <1>7, <3>1 DEF Common, OpenBroken, PeerTypeOK
  <2>4. EndTypeOK' /\ CliTypeOK' /\ SrvTypeOK'
    BY <1>7, SameKeepsType DEF Common, OpenBroken
  <2> QED BY <2>1, <2>2, <2>3, <2>4 DEF TypeOK, BaseTypeOK
<1>8. CASE s = Srv /\ Server(InitAcked)
  <2>1. ChanTypeOK'
    <3>1. net' \in [Sides -> Seq(Item)]
      BY <1>8, ArrivesKeepsType, SidesAreSides DEF Server, InitAcked
    <3> QED BY <1>8, <3>1 DEF Server, InitAcked, ChanTypeOK
  <2>2. ThreadTypeOK'
    BY <1>8 DEF Server, InitAcked, ThreadTypeOK
  <2>3. SrvTypeOK'
    BY <1>8 DEF Server, InitAcked, SrvTypeOK
  <2>4. PeerTypeOK' /\ EndTypeOK' /\ CliTypeOK'
    BY <1>8, SameKeepsType DEF Server, InitAcked
  <2> QED BY <2>1, <2>2, <2>3, <2>4 DEF TypeOK, BaseTypeOK
<1>9. CASE s = Srv /\ Server(InitBroken)
  <2>1. ChanTypeOK'
    <3>1. net' = net \/ net' = [net EXCEPT ![Srv] = <<>>]
      BY <1>9 DEF Server, InitBroken, LogInFails
    <3>2. net \in [Sides -> Seq(Item)] /\ <<>> \in Seq(Item)
      BY DEF ChanTypeOK
    <3>3. net' \in [Sides -> Seq(Item)]
      BY <3>1, <3>2, UpdateKeepsType, SidesAreSides
    <3> QED BY <1>9, <3>3 DEF Server, InitBroken, LogInFails, ChanTypeOK
  <2>2. ThreadTypeOK'
    <3>1. Plain("Err") \in Item
      BY PlainIsItem DEF TaskTypes, MsgTypes
    <3>2. wq' = wq \/ Post(Srv, Plain("Err"))
      BY <1>9 DEF Server, InitBroken
    <3>3. wq' \in [Sides -> Seq(Item)]
      BY <3>1, <3>2, PostKeepsType, SidesAreSides DEF ThreadTypeOK
    <3> QED BY <1>9, <3>3 DEF Server, InitBroken, ThreadTypeOK
  <2>3. SrvTypeOK'
    BY <1>9 DEF Server, InitBroken, LogInFails, SrvTypeOK
  <2>4. PeerTypeOK' /\ EndTypeOK' /\ CliTypeOK'
    BY <1>9, SameKeepsType DEF Server, InitBroken
  <2> QED BY <2>1, <2>2, <2>3, <2>4 DEF TypeOK, BaseTypeOK
<1> QED BY <1>1, <1>2, <1>3, <1>4, <1>5, <1>6, <1>7, <1>8, <1>9 DEF WcStep

-----------------------------------------------------------------------------
\* What the users do.
LEMMA UserStepKeepsType ==
  ASSUME ChanTypeOK, ThreadTypeOK, PeerTypeOK, EndTypeOK, CliTypeOK, SrvTypeOK,
         UserStep
  PROVE  TypeOK'
<1>1. CASE Client(CallConnect)
  <2>1. ThreadTypeOK'
    <3>1. Plain("Connect") \in Item
      BY PlainIsItem DEF TaskTypes, MsgTypes
    <3>2. wq' \in [Sides -> Seq(Item)]
      BY <1>1, <3>1, PostKeepsType, SidesAreSides DEF Client, CallConnect, Call
    <3> QED BY <1>1, <3>2 DEF Client, CallConnect, Call, ThreadTypeOK, Results, Notes
  <2>2. CliTypeOK'
    BY <1>1 DEF Client, CallConnect, Call, CliTypeOK
  <2>3. ChanTypeOK' /\ PeerTypeOK' /\ EndTypeOK' /\ SrvTypeOK'
    BY <1>1, SameKeepsType DEF Client, CallConnect, Call
  <2> QED BY <2>1, <2>2, <2>3 DEF TypeOK, BaseTypeOK
<1>2. CASE Client(CliCallOpen)
  <2>1. ThreadTypeOK'
    <3>1. Plain("Open") \in Item
      BY PlainIsItem DEF TaskTypes, MsgTypes
    <3>2. wq' \in [Sides -> Seq(Item)]
      BY <1>2, <3>1, PostKeepsType, SidesAreSides DEF Client, CliCallOpen, CallOpen, Call
    <3> QED BY <1>2, <3>2
      DEF Client, CliCallOpen, CallOpen, Call, ThreadTypeOK, Results, Notes
  <2>2. ChanTypeOK' /\ PeerTypeOK' /\ EndTypeOK' /\ CliTypeOK' /\ SrvTypeOK'
    BY <1>2, SameKeepsType DEF Client, CliCallOpen, CallOpen, Call
  <2> QED BY <2>1, <2>2 DEF TypeOK, BaseTypeOK
<1>3. CASE Common(Call(Cli, "Token"))
  <2>1. ThreadTypeOK'
    <3>1. Plain("Token") \in Item
      BY PlainIsItem DEF TaskTypes, MsgTypes
    <3>2. wq' \in [Sides -> Seq(Item)]
      BY <1>3, <3>1, PostKeepsType, SidesAreSides DEF Common, Call
    <3> QED BY <1>3, <3>2 DEF Common, Call, ThreadTypeOK, Results, Notes
  <2>2. ChanTypeOK' /\ PeerTypeOK' /\ EndTypeOK' /\ CliTypeOK' /\ SrvTypeOK'
    BY <1>3, SameKeepsType DEF Common, Call
  <2> QED BY <2>1, <2>2 DEF TypeOK, BaseTypeOK
<1>4. CASE Common(DtorStart(Cli))
  <2>1. ThreadTypeOK'
    <3>1. Plain("DtorBegin") \in Item /\ Plain("DtorFlush") \in Item
      BY PlainIsItem DEF TaskTypes, MsgTypes
    <3>2. wq' \in [Sides -> Seq(Item)]
      BY <1>4, <3>1, PostKeepsType, SidesAreSides DEF Common, DtorStart
    <3> QED BY <1>4, <3>2 DEF Common, DtorStart, ThreadTypeOK
  <2>2. EndTypeOK'
    BY <1>4 DEF Common, DtorStart, EndTypeOK
  <2>3. ChanTypeOK' /\ PeerTypeOK' /\ CliTypeOK' /\ SrvTypeOK'
    BY <1>4, SameKeepsType DEF Common, DtorStart
  <2> QED BY <2>1, <2>2, <2>3 DEF TypeOK, BaseTypeOK
<1>5. CASE Server(SrvCallInitHandlers)
  <2>1. ThreadTypeOK'
    <3>1. Plain("InitHandlers") \in Item
      BY PlainIsItem DEF TaskTypes, MsgTypes
    <3>2. wq' \in [Sides -> Seq(Item)]
      BY <1>5, <3>1, PostKeepsType, SidesAreSides DEF Server, SrvCallInitHandlers, Call
    <3> QED BY <1>5, <3>2
      DEF Server, SrvCallInitHandlers, Call, ThreadTypeOK, Results, Notes
  <2>2. ChanTypeOK' /\ PeerTypeOK' /\ EndTypeOK' /\ CliTypeOK' /\ SrvTypeOK'
    BY <1>5, SameKeepsType DEF Server, SrvCallInitHandlers, Call
  <2> QED BY <2>1, <2>2 DEF TypeOK, BaseTypeOK
<1>6. CASE Server(SrvCallMdt)
  <2>1. ThreadTypeOK'
    <3>1. Plain("Mdt") \in Item
      BY PlainIsItem DEF TaskTypes, MsgTypes
    <3>2. wq' \in [Sides -> Seq(Item)]
      BY <1>6, <3>1, PostKeepsType, SidesAreSides DEF Server, SrvCallMdt, Call
    <3> QED BY <1>6, <3>2 DEF Server, SrvCallMdt, Call, ThreadTypeOK, Results, Notes
  <2>2. ChanTypeOK' /\ PeerTypeOK' /\ EndTypeOK' /\ CliTypeOK' /\ SrvTypeOK'
    BY <1>6, SameKeepsType DEF Server, SrvCallMdt, Call
  <2> QED BY <2>1, <2>2 DEF TypeOK, BaseTypeOK
<1>7. CASE Server(SrvCallOpen)
  <2>1. ThreadTypeOK'
    <3>1. Plain("Open") \in Item
      BY PlainIsItem DEF TaskTypes, MsgTypes
    <3>2. wq' \in [Sides -> Seq(Item)]
      BY <1>7, <3>1, PostKeepsType, SidesAreSides DEF Server, SrvCallOpen, CallOpen, Call
    <3> QED BY <1>7, <3>2
      DEF Server, SrvCallOpen, CallOpen, Call, ThreadTypeOK, Results, Notes
  <2>2. SrvTypeOK'
    BY <1>7 DEF Server, SrvCallOpen, CallOpen, Call, SrvTypeOK
  <2>3. ChanTypeOK' /\ PeerTypeOK' /\ EndTypeOK' /\ CliTypeOK'
    BY <1>7, SameKeepsType DEF Server, SrvCallOpen, CallOpen, Call
  <2> QED BY <2>1, <2>2, <2>3 DEF TypeOK, BaseTypeOK
<1>8. CASE Server(SrvOpenEmpty)
  <2>1. ThreadTypeOK'
    BY <1>8 DEF Server, SrvOpenEmpty, ThreadTypeOK, Results, Notes
  <2>2. SrvTypeOK'
    BY <1>8 DEF Server, SrvOpenEmpty, SrvTypeOK
  <2>3. ChanTypeOK' /\ PeerTypeOK' /\ EndTypeOK' /\ CliTypeOK'
    BY <1>8, SameKeepsType DEF Server, SrvOpenEmpty
  <2> QED BY <2>1, <2>2, <2>3 DEF TypeOK, BaseTypeOK
<1>9. CASE login = "ok" /\ Common(Call(Srv, "Token"))
  <2>1. ThreadTypeOK'
    <3>1. Plain("Token") \in Item
      BY PlainIsItem DEF TaskTypes, MsgTypes
    <3>2. wq' \in [Sides -> Seq(Item)]
      BY <1>9, <3>1, PostKeepsType, SidesAreSides DEF Common, Call
    <3> QED BY <1>9, <3>2 DEF Common, Call, ThreadTypeOK, Results, Notes
  <2>2. ChanTypeOK' /\ PeerTypeOK' /\ EndTypeOK' /\ CliTypeOK' /\ SrvTypeOK'
    BY <1>9, SameKeepsType DEF Common, Call
  <2> QED BY <2>1, <2>2 DEF TypeOK, BaseTypeOK
<1>10. CASE login \in {"ok", "outstanding"} /\ Common(DtorStart(Srv))
  <2>1. ThreadTypeOK'
    <3>1. Plain("DtorBegin") \in Item /\ Plain("DtorFlush") \in Item
      BY PlainIsItem DEF TaskTypes, MsgTypes
    <3>2. wq' \in [Sides -> Seq(Item)]
      BY <1>10, <3>1, PostKeepsType, SidesAreSides DEF Common, DtorStart
    <3> QED BY <1>10, <3>2 DEF Common, DtorStart, ThreadTypeOK
  <2>2. EndTypeOK'
    BY <1>10 DEF Common, DtorStart, EndTypeOK
  <2>3. ChanTypeOK' /\ PeerTypeOK' /\ CliTypeOK' /\ SrvTypeOK'
    BY <1>10, SameKeepsType DEF Common, DtorStart
  <2> QED BY <2>1, <2>2, <2>3 DEF TypeOK, BaseTypeOK
<1> QED BY <1>1, <1>2, <1>3, <1>4, <1>5, <1>6, <1>7, <1>8, <1>9, <1>10 DEF UserStep

-----------------------------------------------------------------------------
\* Timeouts, Session_server's discarding, the subclass, the transport.
LEMMA OtherStepKeepsType ==
  ASSUME ChanTypeOK, ThreadTypeOK, PeerTypeOK, EndTypeOK, CliTypeOK, SrvTypeOK,
         (\E s \in Sides : Timeout(s)) \/ Discard \/ SubclassStep \/ Break
  PROVE  TypeOK'
<1>1. CASE \E s \in Sides : Timeout(s)
  <2>1. ThreadTypeOK'
    <3>1. PICK s \in Sides : Timeout(s)
      BY <1>1
    <3>2. user' \in [Sides -> {"idle", "call"}] /\ ret' \in [Sides -> Results]
      BY <3>1, AnswerKeepsType DEF Timeout, Common, OpenTimeout, Results
    <3> QED BY <3>1, <3>2 DEF Timeout, Common, OpenTimeout, ThreadTypeOK
  <2>2. ChanTypeOK' /\ PeerTypeOK' /\ EndTypeOK' /\ CliTypeOK' /\ SrvTypeOK'
    BY <1>1, SameKeepsType DEF Timeout, Common, OpenTimeout
  <2> QED BY <2>1, <2>2 DEF TypeOK, BaseTypeOK
<1>2. CASE Discard
  <2>1. ThreadTypeOK'
    <3>1. Plain("DtorBegin") \in Item /\ Plain("DtorFlush") \in Item
      BY PlainIsItem DEF TaskTypes, MsgTypes
    <3>2. wq' \in [Sides -> Seq(Item)]
      BY <1>2, <3>1, PostKeepsType, SidesAreSides DEF Discard, Common, DtorStart
    <3> QED BY <1>2, <3>2 DEF Discard, Common, DtorStart, ThreadTypeOK
  <2>2. EndTypeOK'
    BY <1>2 DEF Discard, Common, DtorStart, EndTypeOK
  <2>3. ChanTypeOK' /\ PeerTypeOK' /\ CliTypeOK' /\ SrvTypeOK'
    BY <1>2, SameKeepsType DEF Discard, Common, DtorStart
  <2> QED BY <2>1, <2>2, <2>3 DEF TypeOK, BaseTypeOK
<1>3. CASE SubclassStep
  <2>1. ThreadTypeOK'
    <3>1. PICK n \in {"ok", "rejected"} : Post(Cli, New("Complete", 0, n))
      BY <1>3 DEF SubclassStep, Client, SubclassPosts
    <3>2. New("Complete", 0, n) \in Item
      BY NewIsItem DEF TaskTypes, Notes
    <3>3. wq' \in [Sides -> Seq(Item)]
      BY <3>1, <3>2, PostKeepsType, SidesAreSides
    <3> QED BY <1>3, <3>3 DEF SubclassStep, Client, SubclassPosts, ThreadTypeOK
  <2>2. CliTypeOK'
    BY <1>3 DEF SubclassStep, Client, SubclassPosts, CliTypeOK
  <2>3. ChanTypeOK' /\ PeerTypeOK' /\ EndTypeOK' /\ SrvTypeOK'
    BY <1>3, SameKeepsType DEF SubclassStep, Client, SubclassPosts
  <2> QED BY <2>1, <2>2, <2>3 DEF TypeOK, BaseTypeOK
<1>4. CASE Break
  <2>1. ChanTypeOK'
    BY <1>4 DEF Break, Common, LinkFail, ChanTypeOK
  <2>2. ThreadTypeOK' /\ PeerTypeOK' /\ EndTypeOK' /\ CliTypeOK' /\ SrvTypeOK'
    BY <1>4, SameKeepsType DEF Break, Common, LinkFail
  <2> QED BY <2>1, <2>2 DEF TypeOK, BaseTypeOK
<1> QED BY <1>1, <1>2, <1>3, <1>4

-----------------------------------------------------------------------------
\* Tasks of W that only the client has.
LEMMA CliTaskKeepsType ==
  ASSUME ChanTypeOK, ThreadTypeOK, PeerTypeOK, EndTypeOK, CliTypeOK, SrvTypeOK,
         CliTask
  PROVE  TypeOK'
<1>1. CASE Client(ConnectRefused)
  <2>1. ThreadTypeOK'
    <3>1. wq' \in [Sides -> Seq(Item)]
      BY <1>1, DoneKeepsType, SidesAreSides DEF Client, ConnectRefused
    <3>2. user' \in [Sides -> {"idle", "call"}] /\ ret' \in [Sides -> Results]
      BY <1>1, AnswerKeepsType, SidesAreSides DEF Client, ConnectRefused, Results, Notes
    <3> QED BY <1>1, <3>1, <3>2 DEF Client, ConnectRefused, ThreadTypeOK
  <2>2. ChanTypeOK' /\ PeerTypeOK' /\ EndTypeOK' /\ CliTypeOK' /\ SrvTypeOK'
    BY <1>1, SameKeepsType DEF Client, ConnectRefused
  <2> QED BY <2>1, <2>2 DEF TypeOK, BaseTypeOK
<1>2. CASE Client(ConnectFails)
  <2>1. ThreadTypeOK'
    <3>1. wq' \in [Sides -> Seq(Item)]
      BY <1>2, DoneKeepsType, SidesAreSides DEF Client, ConnectFails, ConnectDone
    <3>2. user' \in [Sides -> {"idle", "call"}] /\ ret' \in [Sides -> Results]
      BY <1>2, AnswerKeepsType, SidesAreSides
        DEF Client, ConnectFails, Results, ConnectDone, Notes
    <3> QED BY <1>2, <3>1, <3>2 DEF Client, ConnectFails, ThreadTypeOK, ConnectDone
  <2>2. CliTypeOK'
    BY <1>2 DEF Client, ConnectFails, ConnectDone, CliTypeOK
  <2>3. ChanTypeOK' /\ PeerTypeOK' /\ EndTypeOK' /\ SrvTypeOK'
    BY <1>2, SameKeepsType DEF Client, ConnectFails
  <2> QED BY <2>1, <2>2, <2>3 DEF TypeOK, BaseTypeOK
<1>3. CASE ConnectReaches /\ NewServerSession
  <2>1. ChanTypeOK'
    <3>1. Plain("LogInReq") \in Item
      BY PlainIsItem DEF TaskTypes, MsgTypes
    <3>2. <<>> \in Seq(Item) /\ <<Plain("LogInReq")>> \in Seq(Item)
      BY <3>1
    <3>3. PICK out \in SendOutcomes :
             /\ linkDown' = (out # "ok")
             /\ chan' = [chan EXCEPT ![Cli] = IF out = "err" THEN "reset" ELSE "up",
                                     ![Srv] = "none"]
             /\ chErr' = [chErr EXCEPT ![Cli] = (out # "ok"), ![Srv] = FALSE]
             /\ net' = [net EXCEPT ![Cli] = <<>>, ![Srv] =
                          IF out = "ok" THEN <<Plain("LogInReq")>> ELSE <<>>]
      BY <1>3 DEF ConnectReaches, NewServerSession, FreshServer, SendOutcomes
    <3>4. /\ linkDown' \in BOOLEAN
          /\ chan' \in [Sides -> {"none", "up", "reset"}]
          /\ chErr' \in [Sides -> BOOLEAN]
      BY <3>3 DEF ChanTypeOK
    <3>5. net' \in [Sides -> Seq(Item)]
      BY <3>2, <3>3 DEF ChanTypeOK
    <3>6. cacheOpen' \in [Sides -> Seq(Item)]
      BY <1>3 DEF ConnectReaches, NewServerSession, FreshServer
    <3>7. /\ conn' \in Nat
          /\ expects' \in [Sides -> {"none", "InitOpen", "OpenReq"}]
          /\ cacheFin' \in [Sides -> BOOLEAN]
      BY <1>3 DEF ConnectReaches, NewServerSession, FreshServer, ChanTypeOK
    <3> QED BY <3>4, <3>5, <3>6, <3>7 DEF ChanTypeOK
  <2>2. ThreadTypeOK'
    <3>1. Plain("Err") \in Item /\ Plain("AcceptLogIn") \in Item
      BY PlainIsItem DEF TaskTypes
    <3>2. Tail(wq[Cli]) \in Seq(Item)
      BY <1>3, SidesAreSides
        DEF ConnectReaches, NewServerSession, FreshServer, Ready, ThreadTypeOK
    <3>3. /\ Append(Tail(wq[Cli]), Plain("Err")) \in Seq(Item)
          /\ <<Plain("AcceptLogIn")>> \in Seq(Item)
      BY <3>1, <3>2
    <3>4. \E q \in {Tail(wq[Cli]), Append(Tail(wq[Cli]), Plain("Err"))} :
            wq' = [wq EXCEPT ![Cli] = q, ![Srv] = <<Plain("AcceptLogIn")>>]
      BY <1>3, SidesDiffer
        DEF ConnectReaches, NewServerSession, FreshServer, ThreadTypeOK, Sides
    <3>5. wq' \in [Sides -> Seq(Item)]
      BY <3>2, <3>3, <3>4 DEF ThreadTypeOK
    <3>6. UNCHANGED <<user, ret>> \/ Answer(Cli, "error")
      BY <1>3
        DEF ConnectReaches, NewServerSession, FreshServer, ConnectDone, ConnectPending
    <3>7. user' \in [Sides -> {"idle", "call"}] /\ ret' \in [Sides -> Results]
      BY <3>6, AnswerKeepsType, SidesAreSides DEF Results
    <3> QED BY <1>3, <3>5, <3>7
      DEF ConnectReaches, NewServerSession, FreshServer, ThreadTypeOK
  <2>3. PeerTypeOK'
    BY <1>3 DEF ConnectReaches, NewServerSession, FreshServer, PeerTypeOK
  <2>4. EndTypeOK'
    BY <1>3 DEF ConnectReaches, NewServerSession, FreshServer, EndTypeOK
  <2>5. CliTypeOK'
    <3>1. cstate' \in {"NULL", "CONNECTING", "PEER"}
      BY <1>3 DEF ConnectReaches, NewServerSession, FreshServer
    <3>2. dones' \in Nat
      BY <1>3
        DEF ConnectReaches, NewServerSession, FreshServer, ConnectDone, ConnectPending, CliTypeOK
    <3> QED BY <1>3, <3>1, <3>2
      DEF ConnectReaches, NewServerSession, FreshServer, CliTypeOK
  <2>6. SrvTypeOK'
    BY <1>3 DEF ConnectReaches, NewServerSession, FreshServer, SrvTypeOK
  <2> QED BY <2>1, <2>2, <2>3, <2>4, <2>5, <2>6 DEF TypeOK, BaseTypeOK
<1>4. CASE Client(LogInRspBad)
  <2>1. ChanTypeOK'
    <3>1. net \in [Sides -> Seq(Item)] /\ <<>> \in Seq(Item)
      BY DEF ChanTypeOK
    <3>2. net' \in [Sides -> Seq(Item)]
      BY <1>4, <3>1, UpdateKeepsType, SidesAreSides
        DEF Client, LogInRspBad, ConnectBreaks, DropChannel
    <3> QED BY <1>4, <3>2 DEF Client, LogInRspBad, ConnectBreaks, DropChannel, ChanTypeOK
  <2>2. ThreadTypeOK'
    <3>1. wq' \in [Sides -> Seq(Item)]
      BY <1>4, DoneKeepsType, SidesAreSides
        DEF Client, LogInRspBad, ConnectBreaks, ConnectDone
    <3>2. user' \in [Sides -> {"idle", "call"}] /\ ret' \in [Sides -> Results]
      BY <1>4, AnswerKeepsType, SidesAreSides
        DEF Client, LogInRspBad, ConnectBreaks, Results, ConnectDone, Notes
    <3> QED BY <1>4, <3>1, <3>2
      DEF Client, LogInRspBad, ConnectBreaks, ThreadTypeOK, ConnectDone
  <2>3. CliTypeOK'
    BY <1>4 DEF Client, LogInRspBad, ConnectBreaks, ConnectDone, CliTypeOK
  <2>4. PeerTypeOK' /\ EndTypeOK' /\ SrvTypeOK'
    BY <1>4, SameKeepsType DEF Client, LogInRspBad, ConnectBreaks
  <2> QED BY <2>1, <2>2, <2>3, <2>4 DEF TypeOK, BaseTypeOK
<1>5. CASE Client(LogInRspOk)
  <2>1. ChanTypeOK'
    <3>1. cacheOpen \in [Sides -> Seq(Item)] /\ <<>> \in Seq(Item)
      BY DEF ChanTypeOK
    <3>2. cacheOpen' = cacheOpen \/ cacheOpen' = [cacheOpen EXCEPT ![Cli] = <<>>]
      BY <1>5 DEF Client, LogInRspOk, ExpectOpenReqs
    <3>3. cacheOpen' \in [Sides -> Seq(Item)]
      BY <3>1, <3>2, UpdateKeepsType, SidesAreSides
    <3>4. expects' = expects \/ expects' = [expects EXCEPT ![Cli] = "OpenReq"]
      BY <1>5 DEF Client, LogInRspOk, ExpectOpenReqs
    <3> QED BY <1>5, <3>3, <3>4 DEF Client, LogInRspOk, ChanTypeOK
  <2>2. ThreadTypeOK'
    <3>1. Kept(Cli, "OpenReq") \in Seq(Item)
      BY KeptIsTyped, SidesAreSides DEF TaskTypes, MsgTypes
    <3>2. Done(Cli) \/ DoneThen(Cli, Kept(Cli, "OpenReq"))
      BY <1>5 DEF Client, LogInRspOk, ExpectOpenReqs
    <3>3. wq' \in [Sides -> Seq(Item)]
      BY <1>5, <3>1, <3>2, DoneKeepsType, DoneThenKeepsType, SidesAreSides
        DEF Client, LogInRspOk
    <3>4. UNCHANGED <<user, ret>>
      BY <1>5 DEF Client, LogInRspOk, Connected, ConnectPending
    <3>5. inside' = inside \/ inside' = [inside EXCEPT ![Cli] = "onDone"]
      BY <1>5 DEF Client, LogInRspOk, Connected
    <3> QED BY <1>5, <3>3, <3>4, <3>5 DEF Client, LogInRspOk, ThreadTypeOK
  <2>3. CliTypeOK'
    BY <1>5 DEF Client, LogInRspOk, Connected, ConnectPending, CliTypeOK
  <2>4. PeerTypeOK' /\ EndTypeOK' /\ SrvTypeOK'
    BY <1>5, SameKeepsType DEF Client, LogInRspOk
  <2> QED BY <2>1, <2>2, <2>3, <2>4 DEF TypeOK, BaseTypeOK
<1>6. CASE Client(LogInRspAwaitInit)
  <2>1. ChanTypeOK'
    <3>1. cacheOpen \in [Sides -> Seq(Item)] /\ <<>> \in Seq(Item)
      BY DEF ChanTypeOK
    <3>2. cacheOpen' = cacheOpen \/ cacheOpen' = [cacheOpen EXCEPT ![Cli] = <<>>]
      BY <1>6 DEF Client, LogInRspAwaitInit, ExpectOpenReqs
    <3>3. cacheOpen' \in [Sides -> Seq(Item)]
      BY <3>1, <3>2, UpdateKeepsType, SidesAreSides
    <3>4. expects' = expects \/ expects' = [expects EXCEPT ![Cli] = "InitOpen"]
      BY <1>6 DEF Client, LogInRspAwaitInit, ExpectOpenReqs
    <3> QED BY <1>6, <3>3, <3>4 DEF Client, LogInRspAwaitInit, ChanTypeOK
  <2>2. ThreadTypeOK'
    <3>1. Kept(Cli, "InitOpen") \in Seq(Item)
      BY KeptIsTyped, SidesAreSides DEF TaskTypes, MsgTypes
    <3>2. Done(Cli) \/ DoneThen(Cli, Kept(Cli, "InitOpen"))
      BY <1>6 DEF Client, LogInRspAwaitInit, ExpectOpenReqs
    <3>3. wq' \in [Sides -> Seq(Item)]
      BY <1>6, <3>1, <3>2, DoneKeepsType, DoneThenKeepsType, SidesAreSides
        DEF Client, LogInRspAwaitInit
    <3> QED BY <1>6, <3>3 DEF Client, LogInRspAwaitInit, ThreadTypeOK
  <2>3. PeerTypeOK' /\ EndTypeOK' /\ CliTypeOK' /\ SrvTypeOK'
    BY <1>6, SameKeepsType DEF Client, LogInRspAwaitInit
  <2> QED BY <2>1, <2>2, <2>3 DEF TypeOK, BaseTypeOK
<1>7. CASE Client(InitOpenMore)
  <2>1. ThreadTypeOK'
    BY <1>7, DoneKeepsType, SidesAreSides DEF Client, InitOpenMore, ThreadTypeOK
  <2>2. CliTypeOK'
    <3>1. Task(Cli).id \in Nat
      BY <1>7, TaskIsItem, SidesAreSides DEF Client, InitOpenMore
    <3>2. initChans' \in Seq(Nat)
      BY <1>7, <3>1 DEF Client, InitOpenMore, CliTypeOK
    <3> QED BY <1>7, <3>2 DEF Client, InitOpenMore, CliTypeOK
  <2>3. ChanTypeOK' /\ PeerTypeOK' /\ EndTypeOK' /\ SrvTypeOK'
    BY <1>7, SameKeepsType DEF Client, InitOpenMore
  <2> QED BY <2>1, <2>2, <2>3 DEF TypeOK, BaseTypeOK
<1>8. CASE Client(InitOpenTooLate)
  <2>1. ThreadTypeOK'
    BY <1>8, DoneKeepsType, SidesAreSides DEF Client, InitOpenTooLate, ThreadTypeOK
  <2>2. CliTypeOK'
    <3>1. Task(Cli).id \in Nat
      BY <1>8, TaskIsItem, SidesAreSides DEF Client, InitOpenTooLate
    <3>2. initChans' \in Seq(Nat)
      BY <1>8, <3>1 DEF Client, InitOpenTooLate, CliTypeOK
    <3> QED BY <1>8, <3>2 DEF Client, InitOpenTooLate, CliTypeOK
  <2>3. ChanTypeOK' /\ PeerTypeOK' /\ EndTypeOK' /\ SrvTypeOK'
    BY <1>8, SameKeepsType DEF Client, InitOpenTooLate
  <2> QED BY <2>1, <2>2, <2>3 DEF TypeOK, BaseTypeOK
<1>9. CASE Client(InitOpenLast)
  <2>1. ChanTypeOK'
    <3>1. cacheOpen \in [Sides -> Seq(Item)] /\ <<>> \in Seq(Item)
      BY DEF ChanTypeOK
    <3>2. cacheOpen' = cacheOpen \/ cacheOpen' = [cacheOpen EXCEPT ![Cli] = <<>>]
      BY <1>9 DEF Client, InitOpenLast, ExpectOpenReqs
    <3>3. cacheOpen' \in [Sides -> Seq(Item)]
      BY <3>1, <3>2, UpdateKeepsType, SidesAreSides
    <3>4. expects' = expects \/ expects' = [expects EXCEPT ![Cli] = "OpenReq"]
      BY <1>9 DEF Client, InitOpenLast, ExpectOpenReqs
    <3>5. Task(Cli).id \in Nat
      BY <1>9, TaskIsItem, SidesAreSides DEF Client, InitOpenLast
    <3>6. <<New("OpenRsp", Task(Cli).id, "init")>> \in Seq(Item)
      BY <3>5, NewIsItem DEF TaskTypes, MsgTypes, Notes
    <3>7. \E out : Send(Cli, <<New("OpenRsp", Task(Cli).id, "init")>>, out)
      BY <1>9 DEF Client, InitOpenLast
    <3>8. net' \in [Sides -> Seq(Item)] /\ chErr' \in [Sides -> BOOLEAN]
      BY <3>6, <3>7, SendKeepsType, SidesAreSides
    <3> QED BY <1>9, <3>3, <3>4, <3>8 DEF Client, InitOpenLast, ChanTypeOK
  <2>2. ThreadTypeOK'
    <3>1. Kept(Cli, "OpenReq") \in Seq(Item)
      BY KeptIsTyped, SidesAreSides DEF TaskTypes, MsgTypes
    <3>2. Done(Cli) \/ DoneThen(Cli, Kept(Cli, "OpenReq"))
      BY <1>9 DEF Client, InitOpenLast, ExpectOpenReqs
    <3>3. wq' \in [Sides -> Seq(Item)]
      BY <1>9, <3>1, <3>2, DoneKeepsType, DoneThenKeepsType, SidesAreSides
        DEF Client, InitOpenLast
    <3>4. UNCHANGED <<user, ret>> \/ \E r \in {"ok", "error"} : Answer(Cli, r)
      BY <1>9 DEF Client, InitOpenLast, Connected, ConnectPending, ConnectDone
    <3>5. user' \in [Sides -> {"idle", "call"}] /\ ret' \in [Sides -> Results]
      BY <3>4, AnswerKeepsType, SidesAreSides DEF Results, Notes, ThreadTypeOK
    <3>6. inside' = inside \/ inside' = [inside EXCEPT ![Cli] = "onDone"]
      BY <1>9 DEF Client, InitOpenLast, Connected
    <3> QED BY <1>9, <3>3, <3>5, <3>6 DEF Client, InitOpenLast, ThreadTypeOK
  <2>3. CliTypeOK'
    <3>1. Task(Cli).id \in Nat
      BY <1>9, TaskIsItem, SidesAreSides DEF Client, InitOpenLast
    <3>2. initChans' \in Seq(Nat)
      BY <1>9, <3>1 DEF Client, InitOpenLast, CliTypeOK
    <3>3. /\ cstate' \in {"NULL", "CONNECTING", "PEER"}
          /\ dones' \in Nat
          /\ subclass' \in {"idle", "busy", "posted"}
      BY <1>9 DEF Client, InitOpenLast, Connected, ConnectPending, ConnectDone, CliTypeOK
    <3> QED BY <1>9, <3>2, <3>3 DEF Client, InitOpenLast, CliTypeOK
  <2>4. PeerTypeOK' /\ EndTypeOK' /\ SrvTypeOK'
    BY <1>9, SameKeepsType DEF Client, InitOpenLast
  <2> QED BY <2>1, <2>2, <2>3, <2>4 DEF TypeOK, BaseTypeOK
<1>10. CASE Client(CompleteOk)
  <2>1. ChanTypeOK'
    BY <1>10 DEF Client, CompleteOk, EmplaceFinisher, ChanTypeOK
  <2>2. ThreadTypeOK'
    <3>1. Plain("Fin") \in Item
      BY PlainIsItem DEF TaskTypes, MsgTypes
    <3>2. PICK ts \in {<<>>, <<Plain("Fin")>>} : DoneThen(Cli, <<>> \o ts)
      BY <1>10 DEF Client, CompleteOk, EmplaceFinisher
    <3>3. wq' \in [Sides -> Seq(Item)]
      <4>1. <<>> \in Seq(Item) /\ <<Plain("Fin")>> \in Seq(Item)
        BY <3>1
      <4>2. \A q, r \in Seq(Item) : q \o r \in Seq(Item)
        OBVIOUS
      <4>3. <<>> \o ts \in Seq(Item)
        BY <3>2, <4>1, <4>2
      <4> QED BY <1>10, <3>2, <4>3, DoneThenKeepsType, SidesAreSides
        DEF Client, CompleteOk
    <3>4. user' \in [Sides -> {"idle", "call"}] /\ ret' \in [Sides -> Results]
      BY <1>10, AnswerKeepsType, SidesAreSides
        DEF Client, CompleteOk, ConnectDone, Results, Notes
    <3> QED BY <1>10, <3>3, <3>4 DEF Client, CompleteOk, ThreadTypeOK
  <2>3. EndTypeOK'
    BY <1>10 DEF Client, CompleteOk, EmplaceFinisher, EndTypeOK
  <2>4. CliTypeOK'
    BY <1>10 DEF Client, CompleteOk, ConnectDone, CliTypeOK
  <2>5. PeerTypeOK' /\ SrvTypeOK'
    BY <1>10, SameKeepsType DEF Client, CompleteOk
  <2> QED BY <2>1, <2>2, <2>3, <2>4, <2>5 DEF TypeOK, BaseTypeOK
<1>11. CASE Client(CompleteBad)
  <2>1. ChanTypeOK'
    <3>1. net \in [Sides -> Seq(Item)] /\ <<>> \in Seq(Item)
      BY DEF ChanTypeOK
    <3>2. net' \in [Sides -> Seq(Item)]
      BY <1>11, <3>1, UpdateKeepsType, SidesAreSides DEF Client, CompleteBad, DropChannel
    <3> QED BY <1>11, <3>2 DEF Client, CompleteBad, DropChannel, ChanTypeOK
  <2>2. ThreadTypeOK'
    <3>1. wq' \in [Sides -> Seq(Item)]
      BY <1>11, DoneKeepsType, SidesAreSides DEF Client, CompleteBad, ConnectDone
    <3>2. user' \in [Sides -> {"idle", "call"}] /\ ret' \in [Sides -> Results]
      BY <1>11, AnswerKeepsType, SidesAreSides
        DEF Client, CompleteBad, Results, ConnectDone, Notes
    <3> QED BY <1>11, <3>1, <3>2 DEF Client, CompleteBad, ThreadTypeOK, ConnectDone
  <2>3. CliTypeOK'
    BY <1>11 DEF Client, CompleteBad, ConnectDone, CliTypeOK
  <2>4. PeerTypeOK' /\ EndTypeOK' /\ SrvTypeOK'
    BY <1>11, SameKeepsType DEF Client, CompleteBad
  <2> QED BY <2>1, <2>2, <2>3, <2>4 DEF TypeOK, BaseTypeOK
<1>12. CASE Client(CompleteTooLate)
  <2>1. ThreadTypeOK'
    BY <1>12, DoneKeepsType, SidesAreSides DEF Client, CompleteTooLate, ThreadTypeOK
  <2>2. CliTypeOK'
    BY <1>12 DEF Client, CompleteTooLate, CliTypeOK
  <2>3. ChanTypeOK' /\ PeerTypeOK' /\ EndTypeOK' /\ SrvTypeOK'
    BY <1>12, SameKeepsType DEF Client, CompleteTooLate
  <2> QED BY <2>1, <2>2, <2>3 DEF TypeOK, BaseTypeOK
<1>13. CASE Client(CliErrStale)
  <2>1. ThreadTypeOK'
    BY <1>13, DoneKeepsType, SidesAreSides DEF Client, CliErrStale, ThreadTypeOK
  <2>2. ChanTypeOK' /\ PeerTypeOK' /\ EndTypeOK' /\ CliTypeOK' /\ SrvTypeOK'
    BY <1>13, SameKeepsType DEF Client, CliErrStale
  <2> QED BY <2>1, <2>2 DEF TypeOK, BaseTypeOK
<1>14. CASE Client(CliErrConnecting)
  <2>1. ChanTypeOK'
    <3>1. net \in [Sides -> Seq(Item)] /\ <<>> \in Seq(Item)
      BY DEF ChanTypeOK
    <3>2. net' \in [Sides -> Seq(Item)]
      BY <1>14, <3>1, UpdateKeepsType, SidesAreSides
        DEF Client, CliErrConnecting, ConnectBreaks, DropChannel
    <3> QED BY <1>14, <3>2
      DEF Client, CliErrConnecting, ConnectBreaks, DropChannel, ChanTypeOK
  <2>2. ThreadTypeOK'
    <3>1. wq' \in [Sides -> Seq(Item)]
      BY <1>14, DoneKeepsType, SidesAreSides
        DEF Client, CliErrConnecting, ConnectBreaks, ConnectDone
    <3>2. user' \in [Sides -> {"idle", "call"}] /\ ret' \in [Sides -> Results]
      BY <1>14, AnswerKeepsType, SidesAreSides
        DEF Client, CliErrConnecting, ConnectBreaks, Results, ConnectDone, Notes
    <3> QED BY <1>14, <3>1, <3>2
      DEF Client, CliErrConnecting, ConnectBreaks, ThreadTypeOK, ConnectDone
  <2>3. CliTypeOK'
    BY <1>14 DEF Client, CliErrConnecting, ConnectBreaks, ConnectDone, CliTypeOK
  <2>4. PeerTypeOK' /\ EndTypeOK' /\ SrvTypeOK'
    BY <1>14, SameKeepsType DEF Client, CliErrConnecting, ConnectBreaks
  <2> QED BY <2>1, <2>2, <2>3, <2>4 DEF TypeOK, BaseTypeOK
<1>15. CASE Client(CliErrPeer)
  <2>1. ThreadTypeOK'
    BY <1>15, DoneKeepsType, SidesAreSides DEF Client, CliErrPeer, ThreadTypeOK
  <2>2. PeerTypeOK'
    <3>1. hosed' \in [Sides -> BOOLEAN] /\ onErr' \in [Sides -> Nat]
      BY <1>15, HoseKeepsType, SidesAreSides DEF Client, CliErrPeer
    <3> QED BY <1>15, <3>1 DEF Client, CliErrPeer, PeerTypeOK
  <2>3. EndTypeOK'
    BY <1>15 DEF Client, CliErrPeer, EndTypeOK
  <2>4. ChanTypeOK' /\ CliTypeOK' /\ SrvTypeOK'
    BY <1>15, SameKeepsType DEF Client, CliErrPeer
  <2> QED BY <2>1, <2>2, <2>3, <2>4 DEF TypeOK, BaseTypeOK
<1>16. CASE Client(CliToken)
  <2>1. ThreadTypeOK'
    <3>1. wq' \in [Sides -> Seq(Item)]
      BY <1>16, DoneKeepsType, SidesAreSides DEF Client, CliToken
    <3>2. user' \in [Sides -> {"idle", "call"}] /\ ret' \in [Sides -> Results]
      BY <1>16, AnswerKeepsType, SidesAreSides DEF Client, CliToken, Results, Notes
    <3> QED BY <1>16, <3>1, <3>2 DEF Client, CliToken, ThreadTypeOK
  <2>2. ChanTypeOK' /\ PeerTypeOK' /\ EndTypeOK' /\ CliTypeOK' /\ SrvTypeOK'
    BY <1>16, SameKeepsType DEF Client, CliToken
  <2> QED BY <2>1, <2>2 DEF TypeOK, BaseTypeOK
<1>17. CASE Client(OnDoneOk) \/ Client(OnDoneToConnecting) \/ Client(OnDoneToNull)
  <2>1. ChanTypeOK'
    <3>1. net \in [Sides -> Seq(Item)] /\ <<>> \in Seq(Item)
      BY DEF ChanTypeOK
    <3>2. net' \in [Sides -> Seq(Item)]
      BY <1>17, <3>1, UpdateKeepsType, SidesAreSides
        DEF Client, OnDoneOk, OnDoneToConnecting, OnDoneToNull, DropChannel, chanVars
    <3> QED BY <1>17, <3>2
      DEF Client, OnDoneOk, OnDoneToConnecting, OnDoneToNull, DropChannel, chanVars, ChanTypeOK
  <2>2. ThreadTypeOK'
    <3>1. UNCHANGED <<user, ret>> \/ \E r \in {"ok", "error"} : Answer(Cli, r)
      BY <1>17 DEF Client, OnDoneOk, OnDoneToConnecting, OnDoneToNull, ConnectDone
    <3>2. user' \in [Sides -> {"idle", "call"}] /\ ret' \in [Sides -> Results]
      BY <3>1, AnswerKeepsType, SidesAreSides DEF Results, Notes, ThreadTypeOK
    <3> QED BY <1>17, <3>2
      DEF Client, OnDoneOk, OnDoneToConnecting, OnDoneToNull, OnDoneReturns, ThreadTypeOK
  <2>3. CliTypeOK'
    BY <1>17 DEF Client, OnDoneOk, OnDoneToConnecting, OnDoneToNull, ConnectDone, CliTypeOK
  <2>4. PeerTypeOK' /\ EndTypeOK' /\ SrvTypeOK'
    BY <1>17, SameKeepsType DEF Client, OnDoneOk, OnDoneToConnecting, OnDoneToNull
  <2> QED BY <2>1, <2>2, <2>3, <2>4 DEF TypeOK, BaseTypeOK
<1> QED BY <1>1, <1>2, <1>3, <1>4, <1>5, <1>6, <1>7, <1>8,
          <1>9, <1>10, <1>11, <1>12, <1>13, <1>14, <1>15, <1>16, <1>17
  DEF CliTask, Connect

-----------------------------------------------------------------------------
\* The announcements of init-channels are messages.
LEMMA NInitIsNat == NInit \in Nat
BY BoundsAreNaturals DEF NInit

\* The server's init-channel requests are items that may travel on the channel.
LEMMA InitReqsAreTyped == ASSUME NEW k \in Nat PROVE InitReqs(k) \in Seq(Item)
<1>1. \A i \in 1..k : InitReq(i) \in Item
  BY NewIsItem DEF InitReq, TaskTypes, MsgTypes, Notes
<1> QED BY <1>1 DEF InitReqs

-----------------------------------------------------------------------------
\* Tasks of W that only the server has.
LEMMA SrvTaskKeepsType ==
  ASSUME ChanTypeOK, ThreadTypeOK, PeerTypeOK, EndTypeOK, CliTypeOK, SrvTypeOK,
         SrvTask
  PROVE  TypeOK'
<1>1. CASE Server(AcceptFails)
  <2>1. ChanTypeOK'
    <3>1. net \in [Sides -> Seq(Item)] /\ <<>> \in Seq(Item)
      BY DEF ChanTypeOK
    <3>2. net' \in [Sides -> Seq(Item)]
      BY <1>1, <3>1, UpdateKeepsType, SidesAreSides DEF Server, AcceptFails, LogInFails
    <3> QED BY <1>1, <3>2 DEF Server, AcceptFails, LogInFails, ChanTypeOK
  <2>2. ThreadTypeOK'
    BY <1>1, DoneKeepsType, SidesAreSides DEF Server, AcceptFails, ThreadTypeOK
  <2>3. SrvTypeOK'
    BY <1>1 DEF Server, AcceptFails, LogInFails, SrvTypeOK
  <2>4. PeerTypeOK' /\ EndTypeOK' /\ CliTypeOK'
    BY <1>1, SameKeepsType DEF Server, AcceptFails
  <2> QED BY <2>1, <2>2, <2>3, <2>4 DEF TypeOK, BaseTypeOK
<1>2. CASE Server(AcceptStarts)
  <2>1. ChanTypeOK'
    BY <1>2 DEF Server, AcceptStarts, ChanTypeOK
  <2>2. ThreadTypeOK'
    BY <1>2, DoneKeepsType, SidesAreSides DEF Server, AcceptStarts, ThreadTypeOK
  <2>3. PeerTypeOK' /\ EndTypeOK' /\ CliTypeOK' /\ SrvTypeOK'
    BY <1>2, SameKeepsType DEF Server, AcceptStarts
  <2> QED BY <2>1, <2>2, <2>3 DEF TypeOK, BaseTypeOK
<1>3. CASE Server(LogInReqRefused)
  <2>1. ChanTypeOK'
    <3>1. net \in [Sides -> Seq(Item)] /\ <<>> \in Seq(Item)
      BY DEF ChanTypeOK
    <3>2. net' \in [Sides -> Seq(Item)]
      BY <1>3, <3>1, UpdateKeepsType, SidesAreSides
        DEF Server, LogInReqRefused, LogInFails
    <3> QED BY <1>3, <3>2 DEF Server, LogInReqRefused, LogInFails, ChanTypeOK
  <2>2. ThreadTypeOK'
    BY <1>3, DoneKeepsType, SidesAreSides DEF Server, LogInReqRefused, ThreadTypeOK
  <2>3. SrvTypeOK'
    BY <1>3 DEF Server, LogInReqRefused, LogInFails, SrvTypeOK
  <2>4. PeerTypeOK' /\ EndTypeOK' /\ CliTypeOK'
    BY <1>3, SameKeepsType DEF Server, LogInReqRefused
  <2> QED BY <2>1, <2>2, <2>3, <2>4 DEF TypeOK, BaseTypeOK
<1>4. CASE Server(LogInRspUnsent)
  <2>1. ChanTypeOK'
    <3>1. net \in [Sides -> Seq(Item)] /\ <<>> \in Seq(Item)
      BY DEF ChanTypeOK
    <3>2. net' = net \/ net' = [net EXCEPT ![Srv] = <<>>]
      BY <1>4 DEF Server, LogInRspUnsent, LogInFails
    <3>3. net' \in [Sides -> Seq(Item)]
      BY <3>1, <3>2, UpdateKeepsType, SidesAreSides
    <3> QED BY <1>4, <3>3 DEF Server, LogInRspUnsent, LogInFails, ChanTypeOK
  <2>2. ThreadTypeOK'
    BY <1>4, DoneKeepsType, SidesAreSides DEF Server, LogInRspUnsent, ThreadTypeOK
  <2>3. SrvTypeOK'
    BY <1>4 DEF Server, LogInRspUnsent, LogInFails, SrvTypeOK
  <2>4. PeerTypeOK' /\ EndTypeOK' /\ CliTypeOK'
    BY <1>4, SameKeepsType DEF Server, LogInRspUnsent
  <2> QED BY <2>1, <2>2, <2>3, <2>4 DEF TypeOK, BaseTypeOK
<1>5. CASE Server(LogInReqOk)
  <2>1. ChanTypeOK'
    <3>1. Plain("LogInRsp") \in Item
      BY PlainIsItem DEF TaskTypes, MsgTypes
    <3>2. <<Plain("LogInRsp")>> \in Seq(Item) /\ Send(Srv, <<Plain("LogInRsp")>>, "ok")
      BY <1>5, <3>1 DEF Server, LogInReqOk
    <3>3. net' \in [Sides -> Seq(Item)] /\ chErr' \in [Sides -> BOOLEAN]
      BY <3>2, SendKeepsType, SidesAreSides
    <3> QED BY <1>5, <3>3 DEF Server, LogInReqOk, ChanTypeOK
  <2>2. ThreadTypeOK'
    BY <1>5, DoneKeepsType, SidesAreSides DEF Server, LogInReqOk, ThreadTypeOK
  <2>3. SrvTypeOK'
    BY <1>5 DEF Server, LogInReqOk, SrvTypeOK
  <2>4. PeerTypeOK' /\ EndTypeOK' /\ CliTypeOK'
    BY <1>5, SameKeepsType DEF Server, LogInReqOk
  <2> QED BY <2>1, <2>2, <2>3, <2>4 DEF TypeOK, BaseTypeOK
<1>6. CASE Server(LogInReqAwaitAck)
  <2>1. ChanTypeOK'
    <3>1. Plain("LogInRsp") \in Item
      BY PlainIsItem DEF TaskTypes, MsgTypes
    <3>2. <<Plain("LogInRsp")>> \o InitReqs(NInit) \in Seq(Item)
      BY <3>1, InitReqsAreTyped, NInitIsNat
    <3>3. net' \in [Sides -> Seq(Item)] /\ chErr' \in [Sides -> BOOLEAN]
      BY <1>6, <3>2, SendKeepsType, SidesAreSides DEF Server, LogInReqAwaitAck
    <3> QED BY <1>6, <3>3 DEF Server, LogInReqAwaitAck, ChanTypeOK
  <2>2. ThreadTypeOK'
    <3>1. wq' \in [Sides -> Seq(Item)]
      BY <1>6, DoneKeepsType, SidesAreSides DEF Server, LogInReqAwaitAck
    <3> QED BY <1>6, <3>1 DEF Server, LogInReqAwaitAck, ThreadTypeOK
  <2>3. PeerTypeOK' /\ EndTypeOK' /\ CliTypeOK' /\ SrvTypeOK'
    BY <1>6, SameKeepsType DEF Server, LogInReqAwaitAck
  <2> QED BY <2>1, <2>2, <2>3 DEF TypeOK, BaseTypeOK
<1>7. CASE Server(LogInReqInitFails)
  <2>1. ChanTypeOK'
    <3>1. Plain("LogInRsp") \in Item
      BY PlainIsItem DEF TaskTypes, MsgTypes
    <3>2. PICK k \in 0..NInit :
            net' = [net EXCEPT ![Srv] = <<>>, ![Cli] =
                      IF Gone(Srv) THEN @ ELSE @ \o <<Plain("LogInRsp")>> \o InitReqs(k)]
      BY <1>7 DEF Server, LogInReqInitFails
    <3>3. net[Cli] \o <<Plain("LogInRsp")>> \o InitReqs(k) \in Seq(Item)
      BY <3>1, InitReqsAreTyped, NInitIsNat, SidesAreSides DEF ChanTypeOK
    <3>4. net' \in [Sides -> Seq(Item)]
      <4>1. net \in [Sides -> Seq(Item)] /\ <<>> \in Seq(Item)
        BY DEF ChanTypeOK
      <4>2. [net EXCEPT ![Srv] = <<>>] \in [Sides -> Seq(Item)]
        BY <4>1, UpdateKeepsType, SidesAreSides
      <4>3. \E q \in Seq(Item) : net' = [[net EXCEPT ![Srv] = <<>>] EXCEPT ![Cli] = q]
        BY <3>2, <3>3, <4>1, <4>2, SidesDiffer DEF Sides
      <4> QED BY <4>2, <4>3, UpdateKeepsType, SidesAreSides
    <3> QED BY <1>7, <3>4 DEF Server, LogInReqInitFails, ChanTypeOK
  <2>2. ThreadTypeOK'
    BY <1>7, DoneKeepsType, SidesAreSides DEF Server, LogInReqInitFails, ThreadTypeOK
  <2>3. SrvTypeOK'
    BY <1>7 DEF Server, LogInReqInitFails, SrvTypeOK
  <2>4. PeerTypeOK' /\ EndTypeOK' /\ CliTypeOK'
    BY <1>7, SameKeepsType DEF Server, LogInReqInitFails
  <2> QED BY <2>1, <2>2, <2>3, <2>4 DEF TypeOK, BaseTypeOK
<1>8. CASE Server(InitHandlersAgain)
  <2>1. ThreadTypeOK'
    <3>1. wq' \in [Sides -> Seq(Item)]
      BY <1>8, DoneKeepsType, SidesAreSides DEF Server, InitHandlersAgain
    <3>2. user' \in [Sides -> {"idle", "call"}] /\ ret' \in [Sides -> Results]
      BY <1>8, AnswerKeepsType, SidesAreSides
        DEF Server, InitHandlersAgain, Results, Notes
    <3> QED BY <1>8, <3>1, <3>2 DEF Server, InitHandlersAgain, ThreadTypeOK
  <2>2. ChanTypeOK' /\ PeerTypeOK' /\ EndTypeOK' /\ CliTypeOK' /\ SrvTypeOK'
    BY <1>8, SameKeepsType DEF Server, InitHandlersAgain
  <2> QED BY <2>1, <2>2 DEF TypeOK, BaseTypeOK
<1>9. CASE Server(InitHandlersErr)
  <2>1. ThreadTypeOK'
    <3>1. Plain("PreInitErr") \in Item
      BY PlainIsItem DEF TaskTypes
    <3>2. <<Plain("PreInitErr")>> \in Seq(Item) /\ DoneThen(Srv, <<Plain("PreInitErr")>>)
      BY <1>9, <3>1 DEF Server, InitHandlersErr
    <3>4. wq' \in [Sides -> Seq(Item)]
      BY <1>9, <3>2, DoneThenKeepsType, SidesAreSides DEF Server, InitHandlersErr
    <3>3. user' \in [Sides -> {"idle", "call"}] /\ ret' \in [Sides -> Results]
      BY <1>9, AnswerKeepsType, SidesAreSides DEF Server, InitHandlersErr, Results
    <3> QED BY <1>9, <3>4, <3>3 DEF Server, InitHandlersErr, ThreadTypeOK
  <2>2. SrvTypeOK'
    BY <1>9 DEF Server, InitHandlersErr, SrvTypeOK
  <2>3. ChanTypeOK' /\ PeerTypeOK' /\ EndTypeOK' /\ CliTypeOK'
    BY <1>9, SameKeepsType DEF Server, InitHandlersErr
  <2> QED BY <2>1, <2>2, <2>3 DEF TypeOK, BaseTypeOK
<1>10. CASE Server(InitHandlersOk)
  <2>1. ChanTypeOK'
    <3>1. cacheOpen \in [Sides -> Seq(Item)] /\ <<>> \in Seq(Item)
      BY DEF ChanTypeOK
    <3>2. cacheOpen' = cacheOpen \/ cacheOpen' = [cacheOpen EXCEPT ![Srv] = <<>>]
      BY <1>10 DEF Server, InitHandlersOk
    <3>3. cacheOpen' \in [Sides -> Seq(Item)]
      BY <3>1, <3>2, UpdateKeepsType, SidesAreSides
    <3>4. expects' = expects \/ expects' = [expects EXCEPT ![Srv] = "OpenReq"]
      BY <1>10 DEF Server, InitHandlersOk
    <3>5. cacheFin' = cacheFin \/ cacheFin' = [cacheFin EXCEPT ![Srv] = FALSE]
      BY <1>10 DEF Server, InitHandlersOk, EmplaceFinisher, ChanTypeOK
    <3> QED BY <1>10, <3>3, <3>4, <3>5 DEF Server, InitHandlersOk, ChanTypeOK
  <2>2. ThreadTypeOK'
    <3>1. Plain("Fin") \in Item
      BY PlainIsItem DEF TaskTypes, MsgTypes
    <3>2. Kept(Srv, "OpenReq") \in Seq(Item)
      BY KeptIsTyped, SidesAreSides DEF TaskTypes, MsgTypes
    <3>3. \E kept \in {<<>>, Kept(Srv, "OpenReq")}, ts \in {<<>>, <<Plain("Fin")>>} :
            DoneThen(Srv, kept) \/ DoneThen(Srv, kept \o ts)
      BY <1>10 DEF Server, InitHandlersOk, EmplaceFinisher
    <3>4. \A kept \in {<<>>, Kept(Srv, "OpenReq")}, ts \in {<<>>, <<Plain("Fin")>>} :
            kept \in Seq(Item) /\ kept \o ts \in Seq(Item)
      <4>1. <<>> \in Seq(Item) /\ <<Plain("Fin")>> \in Seq(Item)
        BY <3>1
      <4>2. \A kept, ts \in Seq(Item) : kept \o ts \in Seq(Item)
        OBVIOUS
      <4> QED BY <3>2, <4>1, <4>2
    <3>5. wq' \in [Sides -> Seq(Item)]
      BY <1>10, <3>3, <3>4, DoneThenKeepsType, SidesAreSides DEF Server, InitHandlersOk
    <3>6. user' \in [Sides -> {"idle", "call"}] /\ ret' \in [Sides -> Results]
      BY <1>10, AnswerKeepsType, SidesAreSides DEF Server, InitHandlersOk, Results
    <3> QED BY <1>10, <3>5, <3>6 DEF Server, InitHandlersOk, ThreadTypeOK
  <2>3. EndTypeOK'
    BY <1>10 DEF Server, InitHandlersOk, EmplaceFinisher, EndTypeOK
  <2>4. SrvTypeOK'
    BY <1>10 DEF Server, InitHandlersOk, SrvTypeOK
  <2>5. PeerTypeOK' /\ CliTypeOK'
    BY <1>10, SameKeepsType DEF Server, InitHandlersOk
  <2> QED BY <2>1, <2>2, <2>3, <2>4, <2>5 DEF TypeOK, BaseTypeOK
<1>11. CASE Server(EmitPreInitErr)
  <2>1. ThreadTypeOK'
    BY <1>11, DoneKeepsType, SidesAreSides DEF Server, EmitPreInitErr, ThreadTypeOK
  <2>2. PeerTypeOK'
    <3>1. hosed' \in [Sides -> BOOLEAN] /\ onErr' \in [Sides -> Nat]
      BY <1>11, HoseKeepsType, SidesAreSides DEF Server, EmitPreInitErr
    <3> QED BY <1>11, <3>1 DEF Server, EmitPreInitErr, PeerTypeOK
  <2>3. ChanTypeOK' /\ EndTypeOK' /\ CliTypeOK' /\ SrvTypeOK'
    BY <1>11, SameKeepsType DEF Server, EmitPreInitErr
  <2> QED BY <2>1, <2>2, <2>3 DEF TypeOK, BaseTypeOK
<1>12. CASE Server(SrvErrStale)
  <2>1. ThreadTypeOK'
    BY <1>12, DoneKeepsType, SidesAreSides DEF Server, SrvErrStale, ThreadTypeOK
  <2>2. ChanTypeOK' /\ PeerTypeOK' /\ EndTypeOK' /\ CliTypeOK' /\ SrvTypeOK'
    BY <1>12, SameKeepsType DEF Server, SrvErrStale
  <2> QED BY <2>1, <2>2 DEF TypeOK, BaseTypeOK
<1>13. CASE Server(SrvErrLogIn)
  <2>1. ChanTypeOK'
    <3>1. net \in [Sides -> Seq(Item)] /\ <<>> \in Seq(Item)
      BY DEF ChanTypeOK
    <3>2. net' \in [Sides -> Seq(Item)]
      BY <1>13, <3>1, UpdateKeepsType, SidesAreSides DEF Server, SrvErrLogIn, LogInFails
    <3> QED BY <1>13, <3>2 DEF Server, SrvErrLogIn, LogInFails, ChanTypeOK
  <2>2. ThreadTypeOK'
    BY <1>13, DoneKeepsType, SidesAreSides DEF Server, SrvErrLogIn, ThreadTypeOK
  <2>3. SrvTypeOK'
    BY <1>13 DEF Server, SrvErrLogIn, LogInFails, SrvTypeOK
  <2>4. PeerTypeOK' /\ EndTypeOK' /\ CliTypeOK'
    BY <1>13, SameKeepsType DEF Server, SrvErrLogIn
  <2> QED BY <2>1, <2>2, <2>3, <2>4 DEF TypeOK, BaseTypeOK
<1>14. CASE Server(SrvErrAlmostPeer)
  <2>1. ThreadTypeOK'
    BY <1>14, DoneKeepsType, SidesAreSides DEF Server, SrvErrAlmostPeer, ThreadTypeOK
  <2>2. SrvTypeOK'
    BY <1>14 DEF Server, SrvErrAlmostPeer, SrvTypeOK
  <2>3. ChanTypeOK' /\ PeerTypeOK' /\ EndTypeOK' /\ CliTypeOK'
    BY <1>14, SameKeepsType DEF Server, SrvErrAlmostPeer
  <2> QED BY <2>1, <2>2, <2>3 DEF TypeOK, BaseTypeOK
<1>15. CASE Server(SrvErrPeer)
  <2>1. ThreadTypeOK'
    BY <1>15, DoneKeepsType, SidesAreSides DEF Server, SrvErrPeer, ThreadTypeOK
  <2>2. PeerTypeOK'
    <3>1. hosed' \in [Sides -> BOOLEAN] /\ onErr' \in [Sides -> Nat]
      BY <1>15, HoseKeepsType, SidesAreSides DEF Server, SrvErrPeer
    <3> QED BY <1>15, <3>1 DEF Server, SrvErrPeer, PeerTypeOK
  <2>3. EndTypeOK'
    BY <1>15 DEF Server, SrvErrPeer, EndTypeOK
  <2>4. ChanTypeOK' /\ CliTypeOK' /\ SrvTypeOK'
    BY <1>15, SameKeepsType DEF Server, SrvErrPeer
  <2> QED BY <2>1, <2>2, <2>3, <2>4 DEF TypeOK, BaseTypeOK
<1>16. CASE Server(SrvToken)
  <2>1. ThreadTypeOK'
    <3>1. wq' \in [Sides -> Seq(Item)]
      BY <1>16, DoneKeepsType, SidesAreSides DEF Server, SrvToken
    <3>2. user' \in [Sides -> {"idle", "call"}] /\ ret' \in [Sides -> Results]
      BY <1>16, AnswerKeepsType, SidesAreSides DEF Server, SrvToken, Results, Notes
    <3> QED BY <1>16, <3>1, <3>2 DEF Server, SrvToken, ThreadTypeOK
  <2>2. ChanTypeOK' /\ PeerTypeOK' /\ EndTypeOK' /\ CliTypeOK' /\ SrvTypeOK'
    BY <1>16, SameKeepsType DEF Server, SrvToken
  <2> QED BY <2>1, <2>2 DEF TypeOK, BaseTypeOK
<1>17. CASE Server(SrvMdt)
  <2>1. ThreadTypeOK'
    <3>1. wq' \in [Sides -> Seq(Item)]
      BY <1>17, DoneKeepsType, SidesAreSides DEF Server, SrvMdt
    <3>2. Answer(Srv, "null") \/ Answer(Srv, "ok")
      BY <1>17 DEF Server, SrvMdt
    <3>3. user' \in [Sides -> {"idle", "call"}] /\ ret' \in [Sides -> Results]
      BY <3>2, AnswerKeepsType, SidesAreSides DEF Results, Notes
    <3> QED BY <1>17, <3>1, <3>3 DEF Server, SrvMdt, ThreadTypeOK
  <2>2. SrvTypeOK'
    BY <1>17 DEF Server, SrvMdt, SrvTypeOK
  <2>3. ChanTypeOK' /\ PeerTypeOK' /\ EndTypeOK' /\ CliTypeOK'
    BY <1>17, SameKeepsType DEF Server, SrvMdt
  <2> QED BY <2>1, <2>2, <2>3 DEF TypeOK, BaseTypeOK
<1> QED BY <1>1, <1>2, <1>3, <1>4, <1>5, <1>6, <1>7, <1>8,
          <1>9, <1>10, <1>11, <1>12, <1>13, <1>14, <1>15, <1>16, <1>17
  DEF SrvTask

-----------------------------------------------------------------------------
\* The initial state is typed.
LEMMA InitIsTyped == Init => TypeOK
<1> SUFFICES ASSUME Init PROVE TypeOK
  OBVIOUS
<1>0. <<>> \in Seq(Item) /\ <<>> \in Seq(Nat)
  OBVIOUS
<1>1. ChanTypeOK
  <2>1. net \in [Sides -> Seq(Item)] /\ cacheOpen \in [Sides -> Seq(Item)]
    BY <1>0 DEF Init, BaseInit
  <2>2. chErr \in [Sides -> BOOLEAN] /\ cacheFin \in [Sides -> BOOLEAN]
    BY DEF Init, BaseInit
  <2>3. conn \in Nat /\ linkDown \in BOOLEAN
    BY DEF Init, BaseInit
  <2> QED BY <2>1, <2>2, <2>3 DEF Init, BaseInit, ChanTypeOK
<1>2. ThreadTypeOK
  BY DEF Init, BaseInit, ThreadTypeOK, Results, Notes
<1>3. PeerTypeOK
  BY DEF Init, BaseInit, PeerTypeOK
<1>4. EndTypeOK
  BY DEF Init, BaseInit, EndTypeOK
<1>5. CliTypeOK /\ SrvTypeOK
  BY <1>0 DEF Init, CliInit, SrvInit, CliTypeOK, SrvTypeOK
<1> QED BY <1>1, <1>2, <1>3, <1>4, <1>5 DEF TypeOK, BaseTypeOK

\* Every step keeps the types.
LEMMA NextKeepsType == TypeOK /\ [Next]_vars => TypeOK'
<1> SUFFICES ASSUME TypeOK, [Next]_vars PROVE TypeOK'
  OBVIOUS
<1>1. /\ ChanTypeOK /\ ThreadTypeOK /\ PeerTypeOK /\ EndTypeOK
      /\ CliTypeOK /\ SrvTypeOK
  BY DEF TypeOK, BaseTypeOK
<1>2. CASE CliTask
  BY <1>1, <1>2, CliTaskKeepsType
<1>3. CASE SrvTask
  BY <1>1, <1>3, SrvTaskKeepsType
<1>4. CASE \E s \in Sides : SharedTask(s)
  BY <1>1, <1>4, SharedTaskKeepsType
<1>5. CASE \E s \in Sides : WcStep(s)
  BY <1>1, <1>5, WcStepKeepsType
<1>6. CASE \E s \in Sides : DtorStep(s)
  BY <1>1, <1>6, DtorStepKeepsType
<1>7. CASE UserStep
  BY <1>1, <1>7, UserStepKeepsType
<1>8. CASE (\E s \in Sides : Timeout(s)) \/ Discard \/ SubclassStep \/ Break
  BY <1>1, <1>8, OtherStepKeepsType
<1>9. CASE UNCHANGED vars
  BY <1>1, <1>9, SameKeepsType DEF vars, baseVars, TypeOK, BaseTypeOK
<1> QED BY <1>2, <1>3, <1>4, <1>5, <1>6, <1>7, <1>8, <1>9 DEF Next

\* Every variable of the two sessions keeps to its type, for any bounds and
\* switches: queues hold only tasks and messages of the kinds the handlers
\* know, and a session's state is one of those the code names.
THEOREM TypeCorrect == Spec => []TypeOK
BY InitIsTyped, NextKeepsType, PTL DEF Spec

-----------------------------------------------------------------------------
(* Errors.                                                                  *)

ErrInv == TypeOK /\ ErrOnce /\ WaitingIsNotHosed

-----------------------------------------------------------------------------
(* Effects on the error state.                                               *)

\* The part of the types that the error state needs.
ErrTypes ==
  /\ hosed \in [Sides -> BOOLEAN] /\ onErr \in [Sides -> Nat]
  /\ inside \in [Sides -> {"none", "open", "initAck", "onDone", "passive"}]

\* TypeOK says of the error state (hosed, onErr, inside, wq) what the proofs below need.
LEMMA ErrInvTypes == TypeOK => ErrTypes
BY DEF TypeOK, BaseTypeOK, ThreadTypeOK, PeerTypeOK, ErrTypes

\* A step that touches neither the error nor the wait.
LEMMA SameErr ==
  ASSUME ErrOnce, WaitingIsNotHosed, UNCHANGED <<hosed, onErr, inside>>
  PROVE  ErrOnce' /\ WaitingIsNotHosed'
BY DEF ErrOnce, WaitingIsNotHosed

\* W returns, or begins something during which the session may be hosed.
LEMMA WaitEnds ==
  ASSUME ErrTypes, ErrOnce, WaitingIsNotHosed, NEW s \in Sides,
         UNCHANGED <<hosed, onErr>>,
         NEW v \in {"none", "initAck", "onDone"}, inside' = [inside EXCEPT ![s] = v]
  PROVE  ErrOnce' /\ WaitingIsNotHosed'
BY DEF ErrTypes, ErrOnce, WaitingIsNotHosed

\* A task of W that may hose the session, if it is not hosed yet.
LEMMA TaskHoses ==
  ASSUME ErrTypes, ErrOnce, WaitingIsNotHosed, NEW s \in Sides, NEW t, Ready(s, t),
         UNCHANGED inside,
         UNCHANGED <<hosed, onErr>> \/ (~hosed[s] /\ Hose(s)) \/ HoseUnlessHosed(s)
  PROVE  ErrOnce' /\ WaitingIsNotHosed'
<1>1. CASE UNCHANGED <<hosed, onErr>>
  BY <1>1, SameErr
<1>2. CASE ~hosed[s] /\ Hose(s)
  BY <1>2 DEF Ready, Hose, ErrTypes, ErrOnce, WaitingIsNotHosed
<1> QED BY <1>1, <1>2 DEF HoseUnlessHosed

-----------------------------------------------------------------------------
(* The steps.                                                                *)

\* Every step of the client (its log-in, its on-error handler) keeps ErrInv.
LEMMA CliTaskErr ==
  ASSUME ErrTypes, ErrOnce, WaitingIsNotHosed, CliTask
  PROVE  ErrOnce' /\ WaitingIsNotHosed'
<1>1. CASE Client(ConnectRefused) \/ Client(ConnectFails)
  BY <1>1, SameErr DEF Client, ConnectRefused, ConnectFails, peerVars
<1>2. CASE ConnectReaches /\ NewServerSession
  <2>1. /\ hosed' = [hosed EXCEPT ![Srv] = FALSE]
        /\ onErr' = [onErr EXCEPT ![Srv] = 0]
        /\ UNCHANGED inside
    BY <1>2 DEF ConnectReaches, FreshServer
  <2> QED BY <2>1 DEF ErrTypes, ErrOnce, WaitingIsNotHosed
<1>3. CASE Client(LogInRspBad) \/ Client(LogInRspAwaitInit)
  BY <1>3, SameErr DEF Client, LogInRspBad, ConnectBreaks, LogInRspAwaitInit, peerVars
<1>4. CASE Client(InitOpenMore) \/ Client(InitOpenTooLate)
  BY <1>4, SameErr DEF Client, InitOpenMore, InitOpenTooLate, peerVars
<1>8. CASE Client(LogInRspOk) \/ Client(InitOpenLast)
  <2>1. /\ UNCHANGED <<hosed, onErr>>
        /\ UNCHANGED inside \/ inside' = [inside EXCEPT ![Cli] = "onDone"]
    BY <1>8 DEF Client, LogInRspOk, InitOpenLast, Connected, peerVars
  <2> QED BY <2>1, SameErr, WaitEnds, SidesAreSides
<1>9. CASE Client(OnDoneOk) \/ Client(OnDoneToConnecting) \/ Client(OnDoneToNull)
  <2>1. UNCHANGED <<hosed, onErr>> /\ inside' = [inside EXCEPT ![Cli] = "none"]
    BY <1>9 DEF Client, OnDoneOk, OnDoneToConnecting, OnDoneToNull, OnDoneReturns, peerVars
  <2> QED BY <2>1, WaitEnds, SidesAreSides
<1>5. CASE Client(CompleteOk) \/ Client(CompleteBad) \/ Client(CompleteTooLate)
  BY <1>5, SameErr DEF Client, CompleteOk, CompleteBad, CompleteTooLate, peerVars
<1>6. CASE Client(CliErrStale) \/ Client(CliErrConnecting) \/ Client(CliToken)
  BY <1>6, SameErr
  DEF Client, CliErrStale, CliErrConnecting, ConnectBreaks, CliToken, peerVars
<1>7. CASE Client(CliErrPeer)
  BY <1>7, TaskHoses, SidesAreSides DEF Client, CliErrPeer
<1> QED BY <1>1, <1>2, <1>3, <1>4, <1>5, <1>6, <1>7, <1>8, <1>9 DEF CliTask, Connect

\* Every step of the server (its log-in, init_handlers(), its handlers) keeps ErrInv.
LEMMA SrvTaskErr ==
  ASSUME ErrTypes, ErrOnce, WaitingIsNotHosed, SrvTask
  PROVE  ErrOnce' /\ WaitingIsNotHosed'
<1>1. CASE Server(AcceptFails) \/ Server(AcceptStarts) \/ Server(LogInReqRefused)
  BY <1>1, SameErr DEF Server, AcceptFails, AcceptStarts, LogInReqRefused, peerVars
<1>2. CASE Server(LogInRspUnsent) \/ Server(LogInReqOk) \/ Server(LogInReqInitFails)
  BY <1>2, SameErr DEF Server, LogInRspUnsent, LogInReqOk, LogInReqInitFails, peerVars
<1>3. CASE Server(LogInReqAwaitAck)
  BY <1>3, WaitEnds, SidesAreSides DEF Server, LogInReqAwaitAck, peerVars
<1>4. CASE \/ Server(InitHandlersAgain) \/ Server(InitHandlersErr)
           \/ Server(InitHandlersOk)
  BY <1>4, SameErr
  DEF Server, InitHandlersAgain, InitHandlersErr, InitHandlersOk, peerVars
<1>5. CASE Server(EmitPreInitErr)
  BY <1>5, TaskHoses, SidesAreSides DEF Server, EmitPreInitErr
<1>6. CASE \/ Server(SrvErrStale) \/ Server(SrvErrLogIn) \/ Server(SrvErrAlmostPeer)
           \/ Server(SrvToken) \/ Server(SrvMdt)
  BY <1>6, SameErr
  DEF Server, SrvErrStale, SrvErrLogIn, SrvErrAlmostPeer, SrvToken, SrvMdt, peerVars
<1>7. CASE Server(SrvErrPeer)
  BY <1>7, TaskHoses, SidesAreSides DEF Server, SrvErrPeer
<1> QED BY <1>1, <1>2, <1>3, <1>4, <1>5, <1>6, <1>7 DEF SrvTask

\* Every W task that both sides have (open_channel(), GracefulSessionEnd, the
\* destructor) keeps ErrInv.
LEMMA SharedTaskErr ==
  ASSUME ErrTypes, ErrOnce, WaitingIsNotHosed, NEW s \in Sides, SharedTask(s)
  PROVE  ErrOnce' /\ WaitingIsNotHosed'
<1>1. CASE Common(Open(s))
  <2>1. CASE Preempted(s)
    BY <1>1, <2>1, SameErr DEF Common, Open, Hose, Preempted
  <2>2. CASE ~Preempted(s)
    <3>1. inside[s] = "none" /\ ~hosed[s]
      BY <1>1, <2>2 DEF Common, Open, Ready, Preempted
    <3>2. \/ UNCHANGED <<hosed, onErr>> /\ inside' = [inside EXCEPT ![s] = "open"]
          \/ UNCHANGED <<hosed, onErr, inside>>
          \/ Hose(s) /\ UNCHANGED inside
      BY <1>1, <2>2 DEF Common, Open
    <3> QED BY <3>1, <3>2 DEF Hose, ErrTypes, ErrOnce, WaitingIsNotHosed
  <2> QED BY <2>1, <2>2
<1>2. CASE Common(OnOpenReq(s))
  <2>1. Ready(s, "OpenReq")
    BY <1>2 DEF Common, OnOpenReq
  <2>2. \/ /\ UNCHANGED inside
           /\ UNCHANGED <<hosed, onErr>> \/ (~hosed[s] /\ Hose(s))
        \/ /\ ~hosed[s] /\ UNCHANGED <<hosed, onErr>>
           /\ inside' = [inside EXCEPT ![s] = "passive"]
    BY <1>2 DEF Common, OnOpenReq, Preempted
  <2>3. CASE UNCHANGED inside
    BY <2>1, <2>2, <2>3, TaskHoses DEF ErrTypes, Ready
  <2>4. CASE ~hosed[s] /\ UNCHANGED <<hosed, onErr>> /\ inside' = [inside EXCEPT ![s] = "passive"]
    BY <2>4 DEF ErrTypes, ErrOnce, WaitingIsNotHosed
  <2> QED BY <2>2, <2>3, <2>4
<1>3. CASE Common(OnFin(s))
  BY <1>3, TaskHoses DEF Common, OnFin
<1>4. CASE Common(DtorBegin(s)) \/ Common(DtorFin(s)) \/ Common(DtorFlush(s))
  BY <1>4, SameErr DEF Common, DtorBegin, DtorFin, DtorFlush, peerVars
<1>5. CASE Common(OnPassiveOpen(s))
  BY <1>5, WaitEnds DEF Common, OnPassiveOpen
<1> QED BY <1>1, <1>2, <1>3, <1>4, <1>5 DEF SharedTask

\* Every step of the callback thread Wc and of the timeouts keeps ErrInv.
LEMMA WcStepErr ==
  ASSUME ErrTypes, ErrOnce, WaitingIsNotHosed, NEW s \in Sides, WcStep(s)
  PROVE  ErrOnce' /\ WaitingIsNotHosed'
<1>1. CASE \/ Common(DeliverLogIn(s)) \/ Common(DeliverOpenReq(s))
           \/ Common(DeliverFin(s)) \/ Common(DropLateRsp(s)) \/ Common(DetectError(s))
  BY <1>1, SameErr DEF Common, DeliverLogIn, DeliverOpenReq, DeliverFin,
     DropLateRsp, DetectError, peerVars, threadVars
<1>2. CASE Common(OpenAnswered(s))
  BY <1>2, WaitEnds DEF Common, OpenAnswered
<1>3. CASE Common(OpenBroken(s))
  <2>1. inside[s] = "open" /\ inside' = [inside EXCEPT ![s] = "none"]
    BY <1>3 DEF Common, OpenBroken
  <2>2. ~hosed[s]
    BY <2>1 DEF WaitingIsNotHosed
  <2>3. Hose(s) \/ UNCHANGED <<hosed, onErr>>
    BY <1>3 DEF Common, OpenBroken
  <2> QED BY <2>1, <2>2, <2>3 DEF Hose, ErrTypes, ErrOnce, WaitingIsNotHosed
<1>4. CASE s = Srv /\ Server(InitAcked)
  BY <1>4, WaitEnds DEF Server, InitAcked, peerVars
<1>5. CASE s = Srv /\ Server(InitBroken)
  BY <1>5, WaitEnds DEF Server, InitBroken, peerVars
<1> QED BY <1>1, <1>2, <1>3, <1>4, <1>5 DEF WcStep

\* Every call of a user and every step of the destructor on U keeps ErrInv.
LEMMA UserStepErr ==
  ASSUME ErrOnce, WaitingIsNotHosed, UserStep
  PROVE  ErrOnce' /\ WaitingIsNotHosed'
<1>1. UNCHANGED <<hosed, onErr, inside>>
  BY DEF UserStep, Client, Server, Common, CallConnect, CliCallOpen, CallOpen,
     SrvCallInitHandlers, SrvCallMdt, SrvCallOpen, SrvOpenEmpty, Call, DtorStart,
     peerVars
<1> QED BY <1>1, SameErr

\* Destructors, timeouts and all the rest.
LEMMA OtherStepErr ==
  ASSUME ErrTypes, ErrOnce, WaitingIsNotHosed, NEW s \in Sides,
         DtorStep(s) \/ Timeout(s) \/ Discard \/ SubclassStep \/ Break
  PROVE  ErrOnce' /\ WaitingIsNotHosed'
<1>1. CASE DtorStep(s)
  BY <1>1, SameErr DEF DtorStep, Common, Server, DtorGreet, DtorGoOn, DtorStop,
     SrvDtorStop, peerVars
<1>2. CASE Timeout(s)
  BY <1>2, WaitEnds DEF Timeout, Common, OpenTimeout, peerVars
<1>3. CASE Discard \/ SubclassStep \/ Break
  BY <1>3, SameErr DEF Discard, SubclassStep, Break, Common, Client, DtorStart,
     SubclassPosts, LinkFail, peerVars, threadVars
<1> QED BY <1>1, <1>2, <1>3

-----------------------------------------------------------------------------
(* The theorems.                                                             *)

\* A session starts unhosed, with no on-error call and nobody waiting.
LEMMA ErrInvStarts == Init => ErrInv
<1> SUFFICES ASSUME Init PROVE ErrInv
  OBVIOUS
<1>1. TypeOK
  BY InitIsTyped
<1>2. ErrOnce /\ WaitingIsNotHosed
  BY DEF Init, BaseInit, ErrOnce, WaitingIsNotHosed
<1> QED BY <1>1, <1>2 DEF ErrInv

\* No step of the system disturbs ErrInv.
LEMMA ErrInvStays == ErrInv /\ [Next]_vars => ErrInv'
<1> SUFFICES ASSUME ErrInv, [Next]_vars PROVE ErrInv'
  OBVIOUS
<1>1. ErrTypes /\ ErrOnce /\ WaitingIsNotHosed
  BY ErrInvTypes DEF ErrInv
<1>2. TypeOK'
  BY NextKeepsType DEF ErrInv
<1>3. ErrOnce' /\ WaitingIsNotHosed'
  <2>1. CASE CliTask
    BY <1>1, <2>1, CliTaskErr
  <2>2. CASE SrvTask
    BY <1>1, <2>2, SrvTaskErr
  <2>3. CASE \E s \in Sides : SharedTask(s)
    BY <1>1, <2>3, SharedTaskErr
  <2>4. CASE \E s \in Sides : WcStep(s)
    BY <1>1, <2>4, WcStepErr
  <2>5. CASE UserStep
    BY <1>1, <2>5, UserStepErr
  <2>6. CASE \/ \E s \in Sides : Timeout(s) \/ DtorStep(s)
             \/ Discard \/ SubclassStep \/ Break
    BY <1>1, <2>6, OtherStepErr, SidesAreSides
  <2>7. CASE UNCHANGED vars
    BY <1>1, <2>7, SameErr DEF vars, baseVars, threadVars, peerVars
  <2> QED BY <2>1, <2>2, <2>3, <2>4, <2>5, <2>6, <2>7 DEF Next
<1> QED BY <1>2, <1>3 DEF ErrInv

\* ErrInv holds throughout, so each of its conjuncts does.
LEMMA ErrInvHolds == Spec => []ErrInv
BY ErrInvStarts, ErrInvStays, PTL DEF Spec

\* The on-error handler runs exactly once if the session is hosed, and never
\* otherwise.
THEOREM ErrOnceHolds == Spec => []ErrOnce
<1>1. ErrInv => ErrOnce
  BY DEF ErrInv
<1> QED BY <1>1, ErrInvHolds, PTL

\* The session is intact as long as open_channel() waits for its answer, and
\* from the check of a request for a channel until its user has been given it.
THEOREM WaitingIsNotHosedHolds == Spec => []WaitingIsNotHosed
<1>1. ErrInv => WaitingIsNotHosed
  BY DEF ErrInv
<1> QED BY <1>1, ErrInvHolds, PTL

-----------------------------------------------------------------------------
(* Nothing opens once the error has been reported.                           *)

\* The property of one step.
OpensNothing ==
  \A s \in Sides : hosed[s] /\ hosed'[s] =>
    activeOpened'[s] = activeOpened[s] /\ passiveOpened'[s] = passiveOpened[s]

\* A step that hands out no channel at all hands out none on a hosed side.
LEMMA SameOpens == UNCHANGED <<activeOpened, passiveOpened>> => OpensNothing
BY DEF OpensNothing

\* No step of the system hands out a channel on a hosed side.
LEMMA StepOpensNothing == ErrInv /\ [Next]_vars => OpensNothing
<1> SUFFICES ASSUME ErrInv, [Next]_vars PROVE OpensNothing
  OBVIOUS
<1>1. /\ hosed \in [Sides -> BOOLEAN] /\ WaitingIsNotHosed
      /\ activeOpened \in [Sides -> SUBSET Nat]
      /\ passiveOpened \in [Sides -> SUBSET Nat]
  BY DEF ErrInv, TypeOK, BaseTypeOK, PeerTypeOK
<1>2. CASE ConnectReaches /\ NewServerSession
  <2>1. /\ hosed' = [hosed EXCEPT ![Srv] = FALSE]
        /\ activeOpened' = [activeOpened EXCEPT ![Srv] = {}]
        /\ passiveOpened' = [passiveOpened EXCEPT ![Srv] = {}]
    BY <1>2 DEF ConnectReaches, FreshServer
  <2> QED BY <1>1, <2>1 DEF OpensNothing
<1>3. CASE CliTask /\ ~(ConnectReaches /\ NewServerSession)
  <2>1. UNCHANGED <<activeOpened, passiveOpened>>
    BY <1>3 DEF CliTask, Connect, Client, ConnectRefused, ConnectFails, LogInRspBad,
       ConnectBreaks, LogInRspOk, LogInRspAwaitInit, InitOpenMore, InitOpenTooLate,
       InitOpenLast, OnDoneOk, OnDoneToConnecting, OnDoneToNull, CompleteOk,
       CompleteBad, CompleteTooLate, CliErrStale, CliErrConnecting, CliErrPeer,
       CliToken, peerVars
  <2> QED BY <2>1, SameOpens
<1>4. CASE SrvTask
  <2>1. UNCHANGED <<activeOpened, passiveOpened>>
    BY <1>4 DEF SrvTask, Server, AcceptFails, AcceptStarts, LogInReqRefused,
       LogInRspUnsent, LogInReqOk, LogInReqAwaitAck, LogInReqInitFails,
       InitHandlersAgain, InitHandlersErr, InitHandlersOk, EmitPreInitErr,
       SrvErrStale, SrvErrLogIn, SrvErrAlmostPeer, SrvErrPeer, SrvToken, SrvMdt,
       peerVars
  <2> QED BY <2>1, SameOpens
<1>5. CASE \E s \in Sides : Common(OnPassiveOpen(s))
  <2>1. PICK s \in Sides : Common(OnPassiveOpen(s))
    BY <1>5
  <2>2. ~hosed[s] /\ UNCHANGED activeOpened
    BY <1>1, <2>1 DEF Common, OnPassiveOpen, Giving, WaitingIsNotHosed
  <2>3. \A r \in Sides : r # s => passiveOpened'[r] = passiveOpened[r]
    BY <1>1, <2>1 DEF Common, OnPassiveOpen
  <2> QED BY <2>2, <2>3 DEF OpensNothing
<1>6. CASE \E s \in Sides : SharedTask(s) /\ ~Common(OnPassiveOpen(s))
  <2>1. UNCHANGED <<activeOpened, passiveOpened>>
    BY <1>6 DEF SharedTask, Common, Open, OnOpenReq, OnFin, DtorBegin, DtorFin, DtorFlush,
       peerVars
  <2> QED BY <2>1, SameOpens
<1>7. CASE \E s \in Sides : Common(OpenAnswered(s))
  <2>1. PICK s \in Sides : Common(OpenAnswered(s))
    BY <1>7
  <2>2. ~hosed[s] /\ UNCHANGED passiveOpened
    BY <1>1, <2>1 DEF Common, OpenAnswered, WaitingIsNotHosed
  <2>3. \A r \in Sides : r # s => activeOpened'[r] = activeOpened[r]
    BY <1>1, <2>1 DEF Common, OpenAnswered
  <2> QED BY <2>2, <2>3 DEF OpensNothing
<1>8. CASE \E s \in Sides : WcStep(s) /\ ~Common(OpenAnswered(s))
  <2>1. UNCHANGED <<activeOpened, passiveOpened>>
    BY <1>8 DEF WcStep, Common, Server, DeliverLogIn, DeliverOpenReq, DeliverFin,
       DropLateRsp, DetectError, OpenBroken, InitAcked, InitBroken, peerVars
  <2> QED BY <2>1, SameOpens
<1>9. CASE \/ \E s \in Sides : Timeout(s) \/ DtorStep(s)
           \/ Discard \/ UserStep \/ SubclassStep \/ Break
  <2>1. UNCHANGED <<activeOpened, passiveOpened>>
    BY <1>9 DEF Timeout, DtorStep, Discard, UserStep, SubclassStep, Break, Common,
       Client, Server, OpenTimeout, DtorGreet, DtorGoOn, DtorStop, SrvDtorStop,
       DtorStart, CallConnect, CliCallOpen, CallOpen, SrvCallInitHandlers,
       SrvCallMdt, SrvCallOpen, SrvOpenEmpty, Call, SubclassPosts, LinkFail,
       peerVars
  <2> QED BY <2>1, SameOpens
<1>10. CASE UNCHANGED vars
  BY <1>10, SameOpens DEF vars, baseVars, peerVars
<1> QED BY <1>2, <1>3, <1>4, <1>5, <1>6, <1>7, <1>8, <1>9, <1>10 DEF Next

\* A session whose on-error handler has run opens no channel any more, neither
\* for its own user nor for the opposing one.
THEOREM NothingOpens == Spec => NothingOpensWhenHosed
<1>1. ErrInv /\ [Next]_vars
        => [\A s \in Sides : hosed[s] /\ hosed'[s] =>
              /\ activeOpened'[s] = activeOpened[s]
              /\ passiveOpened'[s] = passiveOpened[s]]_vars
  BY StepOpensNothing DEF OpensNothing
<1> QED BY <1>1, ErrInvHolds, PTL DEF Spec, NothingOpensWhenHosed
=============================================================================
