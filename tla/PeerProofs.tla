------------------------------ MODULE PeerProofs ------------------------------
(***************************************************************************)
(* "Once a PEER, always a PEER", for any bounds and switches of SessionPair. *)
(*                                                                         *)
(* The client leaves PEER state nowhere but in handlers of the log-in, so    *)
(* what is to be shown is that none of them runs in PEER state: the log-in   *)
(* response comes once per connection and nothing is expected before it;      *)
(* exactly the announced init-channels are collected, for they come in        *)
(* order; an old connection leaves nothing in W's queue that a new one would  *)
(* take for its own, since the user's call is in one place at a time and      *)
(* nothing comes after the error that ends a connection. From the same        *)
(* invariants: each sync_connect() gets one result.                           *)
(***************************************************************************)
EXTENDS SessionPairProofs, SequenceTheorems

-----------------------------------------------------------------------------
(* Queues.                                                                  *)

Has(q, t)  == \E i \in 1..Len(q) : q[i].type = t
Lone(q, t) == \A i, j \in 1..Len(q) : q[i].type = t /\ q[j].type = t => i = j

\* Everything of type t is before everything of type u.
Before(q, t, u) == \A i, j \in 1..Len(q) : q[i].type = t /\ q[j].type = u => i < j

\* Nothing, or one thing at most, of the types in C.
NoneOf(q, C) == \A i \in 1..Len(q) : q[i].type \notin C
OneOf(q, C)  == \A i, j \in 1..Len(q) : q[i].type \in C /\ q[j].type \in C => i = j

\* Calls of the user.
CallTypes    == {"Connect", "Token", "Open"}
NoCall(q)    == \A i \in 1..Len(q) : q[i].type \notin CallTypes
OneCallIn(q) == \A i, j \in 1..Len(q) :
                  q[i].type \in CallTypes /\ q[j].type \in CallTypes => i = j
ConnectLast(q) == \A i \in 1..Len(q) : q[i].type = "Connect" => i = Len(q)

\* Tasks of the log-in, and the error that ends a connection.
LogInTasks == {"LogInRsp", "InitOpen"}
NoLogIn(q) == \A i \in 1..Len(q) : q[i].type \notin LogInTasks
ErrLast(q) == \A i, j \in 1..Len(q) :
                q[i].type = "Err" /\ q[j].type \in LogInTasks => j < i

DtorTasks == {"DtorBegin", "DtorFin", "DtorFlush"}

\* Requests for channels, all to be handled as e says.
ReqTypes      == {"OpenReq", "InitOpen"}
ReqsAre(q, e) == \A i \in 1..Len(q) : q[i].type \in ReqTypes => q[i].type = e

-----------------------------------------------------------------------------
(* The invariant.                                                           *)

\* The user's call is a task of W, or waits in a sync_request(), or is the
\* sync_connect() that is being connected.
OneCall ==
  /\ OneCallIn(wq[Cli])
  /\ user[Cli] = "idle" =>
       NoCall(wq[Cli]) /\ inside[Cli] # "open" /\ cstate # "CONNECTING"
  /\ inside[Cli] = "open" => NoCall(wq[Cli]) /\ cstate # "CONNECTING"
  /\ cstate = "CONNECTING" => NoCall(wq[Cli])
  /\ dtor[Cli] # "no" => user[Cli] = "idle"
  /\ \A t \in DtorTasks : Has(wq[Cli], t) => dtor[Cli] # "no"

\* In NULL state nothing of an earlier connection is to come.
NullIsClean ==
  cstate = "NULL" =>
    /\ chan[Cli] = "up" => chErr[Cli] = TRUE
    /\ subclass # "busy"
    /\ NoLogIn(wq[Cli]) /\ ConnectLast(wq[Cli])

\* While CONNECTING nothing comes after the channel's error.
ErrIsLast ==
  cstate = "CONNECTING" =>
    /\ Has(wq[Cli], "Err") => chErr[Cli] = TRUE
    /\ ErrLast(wq[Cli])

\* The connect is over as soon as ordinary requests are expected, not before;
\* on_done_func is called at that moment.
PastLogIn ==
  /\ cstate = "PEER" \/ subclass = "busy" \/ inside[Cli] = "onDone" =>
       expects[Cli] = "OpenReq"
  /\ cstate = "CONNECTING" /\ Has(wq[Cli], "Complete") => expects[Cli] = "OpenReq"
  /\ inside[Cli] = "onDone" => cstate = "CONNECTING" /\ subclass # "busy"

\* A request's task is the one that requests are now handled by.
ReqsExpected ==
  /\ ReqsAre(wq[Cli], expects[Cli])
  /\ ReqsAre(cacheOpen[Cli], "OpenReq")
  /\ expects[Cli] # "none" => cacheOpen[Cli] = <<>>
  /\ expects[Cli] = "none" => initChans = <<>>
  /\ expects[Cli] = "InitOpen" => NInit > 0

CliInv == OneCall /\ NullIsClean /\ ErrIsLast /\ PastLogIn /\ ReqsExpected

-----------------------------------------------------------------------------
(* Lemmas about queues.                                                     *)

\* The other side's other side.
LEMMA PeerOfPeer ==
  /\ \A s \in Sides : Peer(s) \in Sides /\ Peer(s) # s /\ Peer(Peer(s)) = s
  /\ Peer(Cli) = Srv /\ Peer(Srv) = Cli /\ Cli # Srv
  /\ \A s \in Sides : s = Cli \/ s = Srv
BY SidesDiffer DEF Sides, Peer

\* Elements of a queue's tail and of two queues in one.
LEMMA QueueElements ==
  ASSUME NEW q \in Seq(Item), NEW ts \in Seq(Item)
  PROVE  /\ q # <<>> => /\ Tail(q) \in Seq(Item)
                        /\ \A i \in 1..Len(Tail(q)) : \E j \in 1..Len(q) : Tail(q)[i] = q[j]
         /\ q \o ts \in Seq(Item)
         /\ \A i \in 1..Len(q \o ts) :
              \/ \E j \in 1..Len(q) : (q \o ts)[i] = q[j]
              \/ \E j \in 1..Len(ts) : (q \o ts)[i] = ts[j]
<1>0. Len(q) \in Nat /\ Len(ts) \in Nat
  OBVIOUS
<1>1. ASSUME q # <<>>
      PROVE  /\ Tail(q) \in Seq(Item)
             /\ \A i \in 1..Len(Tail(q)) : \E j \in 1..Len(q) : Tail(q)[i] = q[j]
  <2>1. /\ Tail(q) \in Seq(Item) /\ Len(Tail(q)) = Len(q) - 1
        /\ \A i \in 1..Len(q) - 1 : Tail(q)[i] = q[i + 1] /\ i + 1 \in 1..Len(q)
    BY <1>0, <1>1
  <2> QED BY <2>1
<1>2. /\ q \o ts \in Seq(Item) /\ Len(q \o ts) = Len(q) + Len(ts)
      /\ \A i \in 1..Len(q) + Len(ts) :
           (q \o ts)[i] = IF i <= Len(q) THEN q[i] ELSE ts[i - Len(q)]
  BY ConcatProperties, Zenon
<1>3. ASSUME NEW i \in 1..Len(q \o ts)
      PROVE  \/ \E j \in 1..Len(q) : (q \o ts)[i] = q[j]
             \/ \E j \in 1..Len(ts) : (q \o ts)[i] = ts[j]
  <2>1. i \in 1..Len(q) + Len(ts)
    BY <1>2
  <2>2. CASE i <= Len(q)
    BY <1>0, <1>2, <2>1, <2>2
  <2>3. CASE ~(i <= Len(q))
    <3>1. i - Len(q) \in 1..Len(ts)
      BY <1>0, <2>1, <2>3
    <3> QED BY <1>2, <2>1, <2>3, <3>1
  <2> QED BY <2>2, <2>3
<1> QED BY <1>1, <1>2, <1>3

\* One task more, as a queue in one.
LEMMA OneMore ==
  ASSUME NEW q \in Seq(Item), NEW t \in Item
  PROVE  <<t>> \in Seq(Item) /\ Append(q, t) = q \o <<t>>
         /\ \A i \in 1..Len(<<t>>) : <<t>>[i] = t
<1>1. <<t>> \in Seq(Item) /\ \A i \in 1..Len(<<t>>) : <<t>>[i] = t
  OBVIOUS
<1>2. Append(q, t) = q \o <<t>>
  BY AppendIsConcat, Zenon
<1> QED BY <1>1, <1>2

\* Where the elements of a tail and of two queues in one come from.
LEMMA QueueShape ==
  ASSUME NEW q \in Seq(Item), NEW ts \in Seq(Item)
  PROVE  /\ Len(q) \in Nat /\ Len(ts) \in Nat
         /\ q # <<>> => /\ Len(Tail(q)) = Len(q) - 1 /\ Len(q) > 0
                        /\ \A i \in 1..Len(q) - 1 : Tail(q)[i] = q[i + 1]
                        /\ Head(q) = q[1]
         /\ Len(q \o ts) = Len(q) + Len(ts)
         /\ \A i \in 1..Len(q) + Len(ts) :
              (q \o ts)[i] = IF i <= Len(q) THEN q[i] ELSE ts[i - Len(q)]
<1>1. Len(q) \in Nat /\ Len(ts) \in Nat
  OBVIOUS
<1>2. q # <<>> => /\ Len(Tail(q)) = Len(q) - 1 /\ Len(q) > 0
                  /\ \A i \in 1..Len(q) - 1 : Tail(q)[i] = q[i + 1]
                  /\ Head(q) = q[1]
  BY <1>1
<1>3. /\ Len(q \o ts) = Len(q) + Len(ts)
      /\ \A i \in 1..Len(q) + Len(ts) :
           (q \o ts)[i] = IF i <= Len(q) THEN q[i] ELSE ts[i - Len(q)]
  BY ConcatProperties, Zenon
<1> QED BY <1>1, <1>2, <1>3

\* r says no more than q.
Keeps(q, r) ==
  /\ NoCall(q) => NoCall(r)
  /\ OneCallIn(q) => OneCallIn(r)
  /\ ConnectLast(q) => ConnectLast(r)
  /\ NoLogIn(q) => NoLogIn(r)
  /\ ErrLast(q) => ErrLast(r)
  /\ \A t : Has(r, t) => Has(q, t)
  /\ \A e : ReqsAre(q, e) => ReqsAre(r, e)

LEMMA TailKeeps ==
  ASSUME NEW q \in Seq(Item), q # <<>>
  PROVE  /\ Keeps(q, Tail(q)) /\ Tail(q) \in Seq(Item)
         /\ OneCallIn(q) /\ Head(q).type \in CallTypes => NoCall(Tail(q))
         /\ ConnectLast(q) /\ Head(q).type = "Connect" => Tail(q) = <<>>
         /\ ErrLast(q) /\ Head(q).type = "Err" => NoLogIn(Tail(q))
<1> DEFINE r == Tail(q)
<1>1. /\ Len(q) \in Nat /\ Len(q) > 0 /\ Len(r) = Len(q) - 1 /\ Head(q) = q[1]
      /\ \A i \in 1..Len(r) : r[i] = q[i + 1] /\ i + 1 \in 1..Len(q)
  BY QueueShape
<1>2. r \in Seq(Item) /\ (Len(r) = 0 => r = <<>>)
  BY QueueElements, EmptySeq
<1> HIDE DEF r
<1>3. NoCall(q) => NoCall(r)
  BY <1>1 DEF NoCall
<1>4. ASSUME OneCallIn(q) PROVE OneCallIn(r)
  <2> SUFFICES ASSUME NEW i \in 1..Len(r), NEW j \in 1..Len(r),
                      r[i].type \in CallTypes, r[j].type \in CallTypes
               PROVE  i = j
    BY DEF OneCallIn
  <2>1. i + 1 = j + 1
    BY <1>1, <1>4, Zenon DEF OneCallIn
  <2> QED BY <2>1
<1>5. ConnectLast(q) => ConnectLast(r)
  BY <1>1 DEF ConnectLast
<1>6. NoLogIn(q) => NoLogIn(r)
  BY <1>1 DEF NoLogIn
<1>7. ErrLast(q) => ErrLast(r)
  BY <1>1 DEF ErrLast
<1>8. /\ \A t : Has(r, t) => Has(q, t)
      /\ \A e : ReqsAre(q, e) => ReqsAre(r, e)
  BY <1>1 DEF Has, ReqsAre
<1>9. OneCallIn(q) /\ Head(q).type \in CallTypes => NoCall(r)
  BY <1>1 DEF OneCallIn, NoCall
<1>10. ConnectLast(q) /\ Head(q).type = "Connect" => r = <<>>
  BY <1>1, <1>2 DEF ConnectLast
<1>11. ErrLast(q) /\ Head(q).type = "Err" => NoLogIn(r)
  BY <1>1 DEF ErrLast, NoLogIn
<1> QED BY <1>2, <1>3, <1>4, <1>5, <1>6, <1>7, <1>8, <1>9, <1>10, <1>11 DEF Keeps, r

\* The same queue, and an empty one.
LEMMA SameKeeps == \A q : Keeps(q, q) /\ Keeps(q, <<>>)
BY DEF Keeps, NoCall, OneCallIn, ConnectLast, NoLogIn, ErrLast, Has, ReqsAre

\* A task is put at the end.
LEMMA AppendKeeps ==
  ASSUME NEW q \in Seq(Item), NEW t \in Item
  PROVE  LET r == Append(q, t) IN
         /\ r \in Seq(Item)
         /\ NoCall(q) /\ t.type \notin CallTypes => NoCall(r)
         /\ OneCallIn(q) /\ t.type \notin CallTypes => OneCallIn(r)
         /\ NoCall(q) => OneCallIn(r) /\ ConnectLast(r)
         /\ NoLogIn(q) /\ t.type \notin LogInTasks => NoLogIn(r)
         /\ ErrLast(q) /\ t.type \notin LogInTasks => ErrLast(r)
         /\ ~Has(q, "Err") /\ t.type # "Err" => ErrLast(r)
         /\ \A u : Has(r, u) => Has(q, u) \/ t.type = u
         /\ \A e : ReqsAre(q, e) /\ (t.type \in ReqTypes => t.type = e) => ReqsAre(r, e)
<1> DEFINE r == Append(q, t)
<1>1. /\ Len(q) \in Nat /\ Len(r) = Len(q) + 1 /\ r \in Seq(Item)
      /\ \A i \in 1..Len(r) : \/ i \in 1..Len(q) /\ r[i] = q[i]
                              \/ i = Len(r) /\ r[i] = t
  OBVIOUS
<1> HIDE DEF r
<1>2. NoCall(q) /\ t.type \notin CallTypes => NoCall(r)
  BY <1>1 DEF NoCall
<1>3. OneCallIn(q) /\ t.type \notin CallTypes => OneCallIn(r)
  BY <1>1 DEF OneCallIn
<1>4. NoCall(q) => OneCallIn(r) /\ ConnectLast(r)
  BY <1>1 DEF NoCall, OneCallIn, ConnectLast, CallTypes
<1>5. NoLogIn(q) /\ t.type \notin LogInTasks => NoLogIn(r)
  BY <1>1 DEF NoLogIn
<1>6. ErrLast(q) /\ t.type \notin LogInTasks => ErrLast(r)
  BY <1>1 DEF ErrLast
<1>7. ~Has(q, "Err") /\ t.type # "Err" => ErrLast(r)
  BY <1>1 DEF ErrLast, Has
<1>8. \A u : Has(r, u) => Has(q, u) \/ t.type = u
  BY <1>1 DEF Has
<1>9. \A e : ReqsAre(q, e) /\ (t.type \in ReqTypes => t.type = e) => ReqsAre(r, e)
  BY <1>1 DEF ReqsAre
<1> QED BY <1>1, <1>2, <1>3, <1>4, <1>5, <1>6, <1>7, <1>8, <1>9 DEF r

\* Requests that were kept are put at the end, for the handler e.
LEMMA KeptKeeps ==
  ASSUME NEW q \in Seq(Item), NEW ks \in Seq(Item), NEW e \in ReqTypes,
         \A i \in 1..Len(ks) : ks[i].type = e
  PROVE  LET r == q \o ks IN
         /\ r \in Seq(Item)
         /\ NoCall(q) => NoCall(r)
         /\ OneCallIn(q) => OneCallIn(r)
         /\ NoLogIn(q) /\ e # "InitOpen" => NoLogIn(r)
         /\ ErrLast(q) /\ e # "InitOpen" => ErrLast(r)
         /\ ~Has(q, "Err") => ErrLast(r)
         /\ \A u : Has(r, u) => Has(q, u) \/ u = e
         /\ ReqsAre(q, e) => ReqsAre(r, e)
<1> DEFINE r == q \o ks
<1>1. /\ Len(q) \in Nat /\ Len(ks) \in Nat /\ r \in Seq(Item)
      /\ \A i \in 1..Len(r) : \/ i \in 1..Len(q) /\ r[i] = q[i]
                              \/ i > Len(q) /\ r[i].type = e
  <2>1. /\ Len(q) \in Nat /\ Len(ks) \in Nat /\ Len(r) = Len(q) + Len(ks)
        /\ \A i \in 1..Len(q) + Len(ks) :
             r[i] = IF i <= Len(q) THEN q[i] ELSE ks[i - Len(q)]
    BY QueueShape, Zenon
  <2>2. r \in Seq(Item)
    BY QueueElements
  <2> HIDE DEF r
  <2> QED BY <2>1, <2>2
<1>2. Len(r) \in Nat
  BY <1>1
<1> HIDE DEF r
<1>3. NoCall(q) => NoCall(r)
  BY <1>1 DEF NoCall, CallTypes, ReqTypes
<1>4. OneCallIn(q) => OneCallIn(r)
  BY <1>1 DEF OneCallIn, CallTypes, ReqTypes
<1>5. NoLogIn(q) /\ e # "InitOpen" => NoLogIn(r)
  BY <1>1 DEF NoLogIn, LogInTasks, ReqTypes
<1>6. ErrLast(q) /\ e # "InitOpen" => ErrLast(r)
  BY <1>1, <1>2 DEF ErrLast, LogInTasks, ReqTypes
<1>7. ~Has(q, "Err") => ErrLast(r)
  BY <1>1, <1>2 DEF ErrLast, Has, ReqTypes
<1>8. \A u : Has(r, u) => Has(q, u) \/ u = e
  BY <1>1 DEF Has
<1>9. ReqsAre(q, e) => ReqsAre(r, e)
  BY <1>1 DEF ReqsAre
<1> QED BY <1>1, <1>3, <1>4, <1>5, <1>6, <1>7, <1>8, <1>9 DEF r

\* A queue with none of these tasks.
LEMMA FewTasks ==
  ASSUME NEW q
  PROVE  /\ NoCall(q) => OneCallIn(q) /\ ConnectLast(q)
         /\ NoLogIn(q) => ErrLast(q)
         /\ ~Has(q, "LogInRsp") /\ ~Has(q, "InitOpen") <=> NoLogIn(q)
         /\ \A e, f : ReqsAre(q, e) /\ e \notin ReqTypes => ReqsAre(q, f) /\ ~Has(q, "InitOpen")
         /\ ReqsAre(q, "OpenReq") => ~Has(q, "InitOpen")
         /\ ReqsAre(q, "InitOpen") /\ ~Has(q, "InitOpen") => ReqsAre(q, "OpenReq")
BY DEF NoCall, OneCallIn, ConnectLast, CallTypes, NoLogIn, LogInTasks, ErrLast, Has,
   ReqsAre, ReqTypes

\* The task at the head.
LEMMA ReadyHas ==
  ASSUME TypeOK, NEW s \in Sides, NEW t, Ready(s, t)
  PROVE  /\ wq[s] \in Seq(Item) /\ wq[s] # <<>> /\ Head(wq[s]).type = t
         /\ Has(wq[s], t) /\ inside[s] = "none"
         /\ t \in CallTypes => ~NoCall(wq[s])
         /\ t \in LogInTasks => ~NoLogIn(wq[s])
         /\ \A e : ReqsAre(wq[s], e) /\ t \in ReqTypes => t = e
<1>1. wq[s] \in Seq(Item) /\ wq[s] # <<>> /\ Head(wq[s]).type = t
  BY DEF Ready, TypeOK, BaseTypeOK, ThreadTypeOK
<1>2. 1 \in 1..Len(wq[s]) /\ wq[s][1].type = t
  BY <1>1
<1> QED BY <1>1, <1>2 DEF Ready, Has, NoCall, NoLogIn, ReqsAre

-----------------------------------------------------------------------------
(* The client's own steps.                                                  *)

LEMMA CliTypes ==
  ASSUME TypeOK
  PROVE  /\ Cli \in Sides /\ Srv \in Sides /\ Cli # Srv
         /\ DOMAIN wq = Sides /\ DOMAIN user = Sides /\ DOMAIN inside = Sides
         /\ DOMAIN dtor = Sides /\ DOMAIN chan = Sides /\ DOMAIN chErr = Sides
         /\ DOMAIN expects = Sides /\ DOMAIN cacheOpen = Sides /\ DOMAIN ret = Sides
         /\ DOMAIN net = Sides
         /\ wq[Cli] \in Seq(Item) /\ net[Cli] \in Seq(Item) /\ cacheOpen[Cli] \in Seq(Item)
         /\ wq[Srv] \in Seq(Item) /\ net[Srv] \in Seq(Item)
         /\ expects[Cli] \in {"none", "InitOpen", "OpenReq"}
         /\ cstate \in {"NULL", "CONNECTING", "PEER"}
         /\ chErr[Cli] \in BOOLEAN
BY SidesAreSides, SidesDiffer
   DEF TypeOK, BaseTypeOK, ChanTypeOK, ThreadTypeOK, EndTypeOK, CliTypeOK

\* A task less, or none left, and nothing else but an error found.
LEMMA KeepsCliInv ==
  ASSUME CliInv, Keeps(wq[Cli], wq'[Cli]),
         user'[Cli] = user[Cli], inside'[Cli] \in {inside[Cli], "none", "passive"},
         dtor'[Cli] = dtor[Cli] \/ (dtor[Cli] # "no" /\ dtor'[Cli] # "no"),
         chan'[Cli] = chan[Cli] \/ chan'[Cli] # "up",
         chErr'[Cli] = chErr[Cli] \/ chErr'[Cli] = TRUE,
         UNCHANGED <<expects[Cli], cacheOpen[Cli], cstate>>,
         subclass' \in {subclass, "idle"},
         initChans' = initChans \/ expects[Cli] # "none"
  PROVE  CliInv'
<1>1. OneCall'
  BY DEF CliInv, OneCall, Keeps
<1>2. NullIsClean'
  BY DEF CliInv, NullIsClean, Keeps
<1>3. ErrIsLast'
  BY DEF CliInv, ErrIsLast, Keeps
<1>4. PastLogIn'
  BY DEF CliInv, PastLogIn, Keeps
<1>5. ReqsExpected'
  BY DEF CliInv, ReqsExpected, Keeps
<1> QED BY <1>1, <1>2, <1>3, <1>4, <1>5 DEF CliInv

\* The user's call returns, and no other is in W's queue.
LEMMA AnswerCliInv ==
  ASSUME TypeOK, CliInv, Keeps(wq[Cli], wq'[Cli]), NoCall(wq'[Cli]), user'[Cli] = "idle",
         inside'[Cli] \notin {"open", "onDone"}, cstate # "CONNECTING",
         dtor'[Cli] = dtor[Cli],
         chan'[Cli] = chan[Cli],
         chErr'[Cli] = chErr[Cli] \/ chErr'[Cli] = TRUE,
         UNCHANGED <<expects[Cli], cacheOpen[Cli], cstate, subclass, initChans>>
  PROVE  CliInv'
<1>1. OneCall'
  BY DEF CliInv, OneCall, Keeps
<1>2. NullIsClean'
  BY DEF CliInv, NullIsClean, Keeps
<1>3. ErrIsLast'
  BY DEF CliInv, ErrIsLast, Keeps
<1>4. PastLogIn'
  BY DEF CliInv, PastLogIn, Keeps
<1>5. ReqsExpected'
  BY DEF CliInv, ReqsExpected, Keeps
<1> QED BY <1>1, <1>2, <1>3, <1>4, <1>5 DEF CliInv

\* What the order of the log-in's messages gives (shown below): the response
\* comes once and before anything is expected, the last init-channel is the last.
LogInOrder ==
  /\ Has(wq[Cli], "LogInRsp") => expects[Cli] = "none"
  /\ Ready(Cli, "LogInRsp") => ~Has(Tail(wq[Cli]), "LogInRsp")
  /\ Ready(Cli, "InitOpen") /\ Len(initChans) + 1 = NInit =>
       ~Has(Tail(wq[Cli]), "InitOpen")

\* A handler of the log-in runs only while the client is CONNECTING.
LEMMA LogInIsConnecting ==
  ASSUME TypeOK, CliInv, LogInOrder
  PROVE  /\ Ready(Cli, "LogInRsp") =>
              /\ cstate = "CONNECTING" /\ expects[Cli] = "none" /\ subclass # "busy"
              /\ NoLogIn(Tail(wq[Cli])) /\ \A e : ReqsAre(wq[Cli], e)
         /\ Ready(Cli, "InitOpen") =>
              /\ cstate = "CONNECTING" /\ expects[Cli] = "InitOpen" /\ subclass # "busy"
              /\ cacheOpen[Cli] = <<>>
         /\ Ready(Cli, "InitOpen") /\ Len(initChans) + 1 = NInit =>
              NoLogIn(Tail(wq[Cli])) /\ ReqsAre(Tail(wq[Cli]), "OpenReq")
<1>0. Cli \in Sides /\ cstate \in {"NULL", "CONNECTING", "PEER"}
  BY CliTypes
<1>1. ASSUME Ready(Cli, "LogInRsp")
      PROVE  /\ cstate = "CONNECTING" /\ expects[Cli] = "none" /\ subclass # "busy"
             /\ NoLogIn(Tail(wq[Cli])) /\ \A e : ReqsAre(wq[Cli], e)
  <2>1. Has(wq[Cli], "LogInRsp") /\ ~NoLogIn(wq[Cli])
    BY <1>0, <1>1, ReadyHas DEF LogInTasks
  <2>2. expects[Cli] = "none"
    BY <2>1 DEF LogInOrder
  <2>3. cstate = "CONNECTING" /\ subclass # "busy"
    BY <1>0, <2>1, <2>2 DEF CliInv, NullIsClean, PastLogIn
  <2>4. (\A e : ReqsAre(wq[Cli], e)) /\ ~Has(wq[Cli], "InitOpen")
    BY <2>2, FewTasks DEF CliInv, ReqsExpected, ReqTypes
  <2>5. ~Has(Tail(wq[Cli]), "InitOpen")
    BY <1>0, <1>1, <2>4, ReadyHas, TailKeeps DEF Keeps
  <2>6. NoLogIn(Tail(wq[Cli]))
    BY <1>1, <2>5, FewTasks DEF LogInOrder
  <2> QED BY <2>2, <2>3, <2>4, <2>6
<1>2. ASSUME Ready(Cli, "InitOpen")
      PROVE  /\ cstate = "CONNECTING" /\ expects[Cli] = "InitOpen" /\ subclass # "busy"
             /\ cacheOpen[Cli] = <<>>
  <2>1. expects[Cli] = "InitOpen" /\ ~NoLogIn(wq[Cli])
    BY <1>0, <1>2, ReadyHas DEF LogInTasks, ReqTypes, CliInv, ReqsExpected
  <2> QED BY <1>0, <2>1 DEF CliInv, NullIsClean, PastLogIn, ReqsExpected
<1>3. ASSUME Ready(Cli, "InitOpen"), Len(initChans) + 1 = NInit
      PROVE  NoLogIn(Tail(wq[Cli])) /\ ReqsAre(Tail(wq[Cli]), "OpenReq")
  <2>1. wq[Cli] \in Seq(Item) /\ wq[Cli] # <<>>
    BY <1>0, <1>3, ReadyHas
  <2>2. ~Has(Tail(wq[Cli]), "InitOpen")
    BY <1>3 DEF LogInOrder
  <2>3. ~Has(wq[Cli], "LogInRsp")
    BY <1>2, <1>3 DEF LogInOrder
  <2>4. ~Has(Tail(wq[Cli]), "LogInRsp") /\ ReqsAre(Tail(wq[Cli]), "InitOpen")
    BY <1>2, <1>3, <2>1, <2>3, TailKeeps DEF Keeps, CliInv, ReqsExpected
  <2> QED BY <2>2, <2>4, FewTasks
<1> QED BY <1>1, <1>2, <1>3

\* The connect breaks, with no task of the log-in behind.
LEMMA BreakCliInv ==
  ASSUME TypeOK, CliInv, cstate = "CONNECTING",
         Keeps(wq[Cli], wq'[Cli]), NoLogIn(wq'[Cli]),
         cstate' = "NULL", user'[Cli] = "idle", inside'[Cli] = "none",
         chan'[Cli] # "up" \/ chErr'[Cli] = TRUE, subclass' # "busy",
         UNCHANGED <<expects[Cli], cacheOpen[Cli], dtor[Cli], initChans>>
  PROVE  CliInv'
<1>1. NoCall(wq'[Cli])
  BY DEF CliInv, OneCall, Keeps
<1>2. OneCall'
  BY <1>1 DEF CliInv, OneCall, Keeps
<1>3. NullIsClean'
  BY <1>1, FewTasks DEF NullIsClean
<1>4. ErrIsLast' /\ PastLogIn'
  BY DEF ErrIsLast, PastLogIn
<1>5. ReqsExpected'
  BY DEF CliInv, ReqsExpected, Keeps
<1> QED BY <1>2, <1>3, <1>4, <1>5 DEF CliInv

\* A task is done; the tasks kept for the handler e follow.
LEMMA DoneKeeps ==
  ASSUME TypeOK, NEW t, Ready(Cli, t)
  PROVE  /\ Done(Cli) =>
              /\ wq'[Cli] = Tail(wq[Cli]) /\ Keeps(wq[Cli], wq'[Cli])
              /\ t \in CallTypes /\ OneCallIn(wq[Cli]) => NoCall(wq'[Cli])
         /\ \A e \in ReqTypes : DoneThen(Cli, Kept(Cli, e)) =>
              LET q == Tail(wq[Cli]) r == wq'[Cli] IN
              /\ NoCall(wq[Cli]) => NoCall(r)
              /\ NoLogIn(q) /\ e # "InitOpen" => NoLogIn(r)
              /\ ~Has(wq[Cli], "Err") => ErrLast(r)
              /\ \A u : Has(r, u) => Has(wq[Cli], u) \/ u = e
              /\ ReqsAre(q, e) => ReqsAre(r, e)
<1>1. /\ wq[Cli] \in Seq(Item) /\ wq[Cli] # <<>> /\ Head(wq[Cli]).type = t
      /\ DOMAIN wq = Sides /\ Cli \in Sides /\ wq \in [Sides -> Seq(Item)]
  BY CliTypes, ReadyHas DEF TypeOK, BaseTypeOK, ThreadTypeOK
<1>2. ASSUME Done(Cli)
      PROVE  /\ wq'[Cli] = Tail(wq[Cli]) /\ Keeps(wq[Cli], wq'[Cli])
             /\ t \in CallTypes /\ OneCallIn(wq[Cli]) => NoCall(wq'[Cli])
  <2>1. wq'[Cli] = Tail(wq[Cli])
    BY <1>1, <1>2 DEF Done
  <2> QED BY <1>1, <2>1, TailKeeps
<1>3. ASSUME NEW e \in ReqTypes, DoneThen(Cli, Kept(Cli, e))
      PROVE  LET q == Tail(wq[Cli]) r == wq'[Cli] IN
             /\ NoCall(wq[Cli]) => NoCall(r)
             /\ NoLogIn(q) /\ e # "InitOpen" => NoLogIn(r)
             /\ ~Has(wq[Cli], "Err") => ErrLast(r)
             /\ \A u : Has(r, u) => Has(wq[Cli], u) \/ u = e
             /\ ReqsAre(q, e) => ReqsAre(r, e)
  <2> DEFINE ks == Kept(Cli, e)
  <2>1. ks \in Seq(Item)
    BY <1>1, KeptIsTyped DEF TypeOK, BaseTypeOK, ReqTypes, TaskTypes, MsgTypes
  <2>2. \A i \in 1..Len(ks) : ks[i].type = e
    <3>1. cacheOpen[Cli] \in Seq(Item) /\ Len(ks) = Len(cacheOpen[Cli])
      BY CliTypes DEF Kept
    <3>2. ASSUME NEW i \in 1..Len(cacheOpen[Cli]) PROVE ks[i].type = e
      <4>1. cacheOpen[Cli][i] \in Item
        BY <3>1
      <4> QED BY <4>1 DEF Kept, Item
    <3> QED BY <3>1, <3>2
  <2>3. wq'[Cli] = Tail(wq[Cli]) \o ks
    BY <1>1, <1>3 DEF DoneThen
  <2> HIDE DEF ks
  <2>4. Tail(wq[Cli]) \in Seq(Item) /\ Keeps(wq[Cli], Tail(wq[Cli]))
    BY <1>1, TailKeeps
  <2> DEFINE q == Tail(wq[Cli])
  <2>5. LET r == q \o ks IN
        /\ NoCall(q) => NoCall(r)
        /\ NoLogIn(q) /\ e # "InitOpen" => NoLogIn(r)
        /\ ~Has(q, "Err") => ErrLast(r)
        /\ \A u : Has(r, u) => Has(q, u) \/ u = e
        /\ ReqsAre(q, e) => ReqsAre(r, e)
    BY <2>1, <2>2, <2>4, KeptKeeps
  <2> QED BY <2>3, <2>4, <2>5, Zenon DEF Keeps
<1> QED BY <1>2, <1>3

\* Connected: the client is over its log-in, and W calls on_done_func.
LEMMA ConnectedCliInv ==
  ASSUME TypeOK, CliInv, cstate = "CONNECTING", Connected,
         subclass # "busy", subclass' = subclass,
         NoCall(wq'[Cli]), NoLogIn(wq'[Cli]), ReqsAre(wq'[Cli], "OpenReq"),
         Has(wq'[Cli], "Err") => Has(wq[Cli], "Err"), dtor'[Cli] = dtor[Cli],
         \A t \in DtorTasks : Has(wq'[Cli], t) => Has(wq[Cli], t),
         chErr'[Cli] = chErr[Cli] \/ chErr'[Cli] = TRUE,
         expects'[Cli] = "OpenReq", cacheOpen'[Cli] = <<>>
  PROVE  CliInv'
<1>1. cstate' = "CONNECTING" /\ user'[Cli] = user[Cli] /\ inside'[Cli] = "onDone"
  BY CliTypes DEF Connected, ConnectPending
<1>2. OneCall'
  BY <1>1, FewTasks DEF CliInv, OneCall
<1>3. NullIsClean' /\ ErrIsLast' /\ PastLogIn'
  BY <1>1, FewTasks DEF NullIsClean, ErrIsLast, PastLogIn, CliInv
<1>4. ReqsExpected'
  BY DEF ReqsExpected, ReqsAre
<1> QED BY <1>2, <1>3, <1>4 DEF CliInv

\* A new connection.
LEMMA ConnectCliInv ==
  ASSUME TypeOK, CliInv, ConnectReaches
  PROVE  CliInv'
<1>1. /\ Cli \in Sides /\ wq[Cli] \in Seq(Item) /\ wq[Cli] # <<>> /\ inside[Cli] = "none"
      /\ Head(wq[Cli]).type = "Connect" /\ cstate = "NULL" /\ ~NoCall(wq[Cli])
  BY CliTypes, ReadyHas DEF ConnectReaches, CallTypes
<1>2. Tail(wq[Cli]) = <<>> /\ user[Cli] # "idle" /\ subclass # "busy" /\ dtor[Cli] = "no"
  BY <1>1, TailKeeps DEF CliInv, NullIsClean, OneCall
<1>3. PICK out \in SendOutcomes :
        /\ chan' = [chan EXCEPT ![Cli] = IF out = "err" THEN "reset" ELSE "up",
                                ![Srv] = "none"]
        /\ chErr' = [chErr EXCEPT ![Cli] = (out # "ok"), ![Srv] = FALSE]
        /\ wq' = [wq EXCEPT ![Cli] = IF out = "false" THEN Append(Tail(@), Plain("Err"))
                                                      ELSE Tail(@),
                            ![Srv] = <<Plain("AcceptLogIn")>>]
        /\ IF out = "err" THEN cstate' = "NULL" /\ ConnectDone("error")
                          ELSE cstate' = "CONNECTING" /\ ConnectPending
  BY <1>1 DEF ConnectReaches, SendOutcomes
<1>4. /\ wq'[Cli] = IF out = "false" THEN <<Plain("Err")>> ELSE <<>>
      /\ chErr'[Cli] = (out # "ok")
      /\ chan'[Cli] = IF out = "err" THEN "reset" ELSE "up"
  <2>1. Append(<<>>, Plain("Err")) = <<Plain("Err")>>
    OBVIOUS
  <2>2. wq'[Cli] = IF out = "false" THEN Append(<<>>, Plain("Err")) ELSE <<>>
    BY <1>2, <1>3, CliTypes
  <2>3. chErr'[Cli] = (out # "ok")
    BY <1>3, CliTypes
  <2>4. chan'[Cli] = IF out = "err" THEN "reset" ELSE "up"
    BY <1>3, CliTypes
  <2> QED BY <2>1, <2>2, <2>3, <2>4
<1>5. /\ expects'[Cli] = "none" /\ cacheOpen'[Cli] = <<>> /\ initChans' = <<>>
      /\ dtor'[Cli] = "no" /\ inside'[Cli] = "none" /\ subclass' = subclass
  BY <1>1, <1>2, CliTypes DEF ConnectReaches, FreshServer
<1>6. \/ out = "err" /\ cstate' = "NULL" /\ user'[Cli] = "idle"
      \/ out # "err" /\ cstate' = "CONNECTING" /\ user'[Cli] = user[Cli]
  BY <1>3, CliTypes DEF ConnectDone, ConnectPending, Answer
<1>7. /\ \A i \in 1..Len(wq'[Cli]) : wq'[Cli][i].type = "Err" /\ out = "false"
      /\ Len(wq'[Cli]) \in Nat
  BY <1>4 DEF Plain, New
<1>8. /\ NoCall(wq'[Cli]) /\ NoLogIn(wq'[Cli])
      /\ Has(wq'[Cli], "Err") => out = "false"
      /\ \A t : Has(wq'[Cli], t) => t = "Err"
      /\ \A e : ReqsAre(wq'[Cli], e)
  BY <1>7 DEF NoCall, NoLogIn, Has, ReqsAre, CallTypes, LogInTasks, ReqTypes
<1>9. OneCall'
  BY <1>2, <1>5, <1>6, <1>8, FewTasks DEF OneCall, DtorTasks
<1>10. NullIsClean'
  BY <1>2, <1>4, <1>5, <1>6, <1>8, FewTasks DEF NullIsClean
<1>11. ErrIsLast' /\ PastLogIn'
  BY <1>2, <1>4, <1>5, <1>6, <1>8, FewTasks DEF ErrIsLast, PastLogIn
<1>12. ReqsExpected'
  <2>1. \A e : ReqsAre(<<>>, e)
    BY DEF ReqsAre
  <2> QED BY <1>5, <1>8, <2>1 DEF ReqsExpected
<1> QED BY <1>9, <1>10, <1>11, <1>12 DEF CliInv

\* The tasks only the client has.
LEMMA CliTaskCliInv ==
  ASSUME TypeOK, CliInv, LogInOrder, CliTask
  PROVE  CliInv' /\ (cstate = "PEER" => cstate' = "PEER")
<1>0. /\ Cli \in Sides /\ DOMAIN user = Sides /\ DOMAIN chan = Sides /\ DOMAIN chErr = Sides
      /\ DOMAIN expects = Sides /\ DOMAIN cacheOpen = Sides
      /\ cstate \in {"NULL", "CONNECTING", "PEER"} /\ chErr[Cli] \in BOOLEAN
  BY CliTypes
<1>1. CASE ConnectReaches /\ NewServerSession
  BY <1>1, ConnectCliInv DEF ConnectReaches
<1>2. CASE Client(ConnectRefused) \/ Client(ConnectFails) \/ Client(CliToken)
  <2>1. /\ \E t \in {"Connect", "Token"} : Ready(Cli, t)
        /\ Done(Cli) /\ user'[Cli] = "idle"
        /\ UNCHANGED <<inside, dtor, chan, chErr, expects, cacheOpen, cstate, subclass,
                       initChans>>
    BY <1>0, <1>2 DEF Client, ConnectRefused, ConnectFails, CliToken, ConnectDone, Answer,
       chanVars, endVars, cliVars
  <2>2. Keeps(wq[Cli], wq'[Cli]) /\ NoCall(wq'[Cli]) /\ ~NoCall(wq[Cli]) /\ inside[Cli] = "none"
    BY <1>0, <2>1, DoneKeeps, ReadyHas DEF CallTypes, CliInv, OneCall
  <2>3. cstate # "CONNECTING"
    BY <2>2 DEF CliInv, OneCall
  <2>4. CliInv'
    BY <2>1, <2>2, <2>3, AnswerCliInv
  <2> QED BY <2>1, <2>4
<1>3. CASE Client(CliErrStale) \/ Client(CliErrPeer) \/ Client(CompleteTooLate)
  <2>1. /\ \E t : Ready(Cli, t)
        /\ Done(Cli) /\ subclass' \in {subclass, "idle"}
        /\ UNCHANGED <<user, inside, dtor, chan, chErr, expects, cacheOpen, cstate,
                       initChans>>
    BY <1>3 DEF Client, CliErrStale, CliErrPeer, CompleteTooLate, chanVars, endVars, cliVars
  <2>2. Keeps(wq[Cli], wq'[Cli])
    BY <2>1, DoneKeeps
  <2>3. CliInv'
    BY <2>1, <2>2, KeepsCliInv
  <2> QED BY <2>1, <2>3
<1>4. CASE Client(LogInRspBad) \/ Client(CliErrConnecting)
  <2>1. /\ Ready(Cli, "LogInRsp") \/ (Ready(Cli, "Err") /\ cstate = "CONNECTING")
        /\ Done(Cli) /\ cstate' = "NULL" /\ user'[Cli] = "idle" /\ chan'[Cli] = "reset"
        /\ subclass' # "busy"
        /\ UNCHANGED <<inside, dtor, expects, cacheOpen, initChans>>
    BY <1>0, <1>4 DEF Client, LogInRspBad, CliErrConnecting, ConnectBreaks, DropChannel,
       ConnectDone, Answer, endVars
  <2>2. cstate = "CONNECTING" /\ inside[Cli] = "none"
    BY <2>1, LogInIsConnecting DEF Ready
  <2>3. Keeps(wq[Cli], wq'[Cli]) /\ wq'[Cli] = Tail(wq[Cli])
    BY <2>1, DoneKeeps
  <2>4. NoLogIn(Tail(wq[Cli]))
    <3>1. CASE Ready(Cli, "LogInRsp")
      BY <3>1, LogInIsConnecting
    <3>2. CASE Ready(Cli, "Err")
      BY <1>0, <2>2, <3>2, ReadyHas, TailKeeps DEF CliInv, ErrIsLast
    <3> QED BY <2>1, <3>1, <3>2
  <2>5. CliInv'
    BY <2>1, <2>2, <2>3, <2>4, BreakCliInv
  <2> QED BY <2>2, <2>5
<1>5. CASE Client(CompleteBad)
  <2>1. /\ Ready(Cli, "Complete") /\ cstate = "CONNECTING" /\ Done(Cli)
        /\ cstate' = "NULL" /\ user'[Cli] = "idle" /\ chan'[Cli] = "reset"
        /\ subclass' = "idle"
        /\ UNCHANGED <<inside, dtor, expects, cacheOpen, initChans>>
    BY <1>0, <1>5 DEF Client, CompleteBad, MayComplete, DropChannel, ConnectDone, Answer,
       endVars
  <2>2. Keeps(wq[Cli], wq'[Cli]) /\ Has(wq[Cli], "Complete") /\ inside[Cli] = "none"
    BY <1>0, <2>1, DoneKeeps, ReadyHas
  <2>3. expects[Cli] = "OpenReq"
    BY <2>1, <2>2 DEF CliInv, PastLogIn
  <2>4. NoLogIn(wq[Cli])
    BY <2>3, FewTasks DEF LogInOrder, CliInv, ReqsExpected
  <2>5. CliInv'
    BY <2>1, <2>2, <2>4, BreakCliInv DEF Keeps
  <2> QED BY <2>1, <2>5
<1>6. CASE Client(CompleteOk)
  <2>1. /\ Ready(Cli, "Complete") /\ cstate = "CONNECTING"
        /\ cstate' = "PEER" /\ user'[Cli] = "idle" /\ subclass' = "idle"
        /\ \/ wq' = [wq EXCEPT ![Cli] = Tail(@) \o (<<>> \o <<>>)]
           \/ wq' = [wq EXCEPT ![Cli] = Tail(@) \o (<<>> \o <<Plain("Fin")>>)]
        /\ UNCHANGED <<inside, dtor, expects, cacheOpen, initChans>>
    BY <1>0, <1>6 DEF Client, CompleteOk, EmplaceFinisher, DoneThen, MayComplete, ConnectDone,
       Answer
  <2>2. /\ wq[Cli] \in Seq(Item) /\ wq[Cli] # <<>> /\ Has(wq[Cli], "Complete")
        /\ inside[Cli] = "none" /\ DOMAIN wq = Sides
    BY <1>0, <2>1, ReadyHas, CliTypes
  <2>3. Tail(wq[Cli]) \in Seq(Item) /\ Keeps(wq[Cli], Tail(wq[Cli]))
    BY <2>2, TailKeeps
  <2>4. wq'[Cli] \in {Tail(wq[Cli]), Append(Tail(wq[Cli]), Plain("Fin"))}
    <3>1. Plain("Fin") \in Item /\ <<Plain("Fin")>> \in Seq(Item)
      BY PlainIsItem DEF TaskTypes, MsgTypes
    <3>2. Append(Tail(wq[Cli]), Plain("Fin")) = Tail(wq[Cli]) \o <<Plain("Fin")>>
      BY <2>3, <3>1, OneMore
    <3>3. <<>> \o <<Plain("Fin")>> = <<Plain("Fin")>> /\ <<>> \o <<>> = <<>>
          /\ Tail(wq[Cli]) \o <<>> = Tail(wq[Cli])
      BY <2>3, <3>1
    <3> QED BY <1>0, <2>1, <2>2, <3>2, <3>3
  <2>5. NoCall(wq[Cli]) /\ expects[Cli] = "OpenReq"
    BY <2>1, <2>2 DEF CliInv, OneCall, PastLogIn
  <2>6. /\ NoCall(wq'[Cli]) /\ ReqsAre(wq'[Cli], "OpenReq")
        /\ \A t : Has(wq'[Cli], t) => Has(wq[Cli], t) \/ t = "Fin"
    <3>1. /\ Plain("Fin") \in Item /\ Plain("Fin").type = "Fin"
          /\ "Fin" \notin CallTypes /\ "Fin" \notin ReqTypes
      BY PlainIsItem DEF TaskTypes, MsgTypes, Plain, New, CallTypes, ReqTypes
    <3>2. NoCall(Tail(wq[Cli])) /\ ReqsAre(Tail(wq[Cli]), "OpenReq")
          /\ \A t : Has(Tail(wq[Cli]), t) => Has(wq[Cli], t)
      BY <2>3, <2>5 DEF Keeps, CliInv, ReqsExpected
    <3>3. LET r == Append(Tail(wq[Cli]), Plain("Fin")) IN
          /\ NoCall(r) /\ ReqsAre(r, "OpenReq")
          /\ \A t : Has(r, t) => Has(Tail(wq[Cli]), t) \/ t = "Fin"
      BY <2>3, <3>1, <3>2, AppendKeeps
    <3> QED BY <2>4, <3>2, <3>3
  <2>7. OneCall'
    BY <2>1, <2>2, <2>6, FewTasks DEF CliInv, OneCall, DtorTasks
  <2>8. NullIsClean' /\ ErrIsLast' /\ PastLogIn' /\ ReqsExpected'
    BY <2>1, <2>2, <2>5, <2>6 DEF NullIsClean, ErrIsLast, PastLogIn, CliInv, ReqsExpected
  <2> QED BY <2>1, <2>7, <2>8 DEF CliInv
<1>7. CASE Client(InitOpenMore) \/ Client(InitOpenTooLate)
  <2>1. /\ Ready(Cli, "InitOpen") /\ Done(Cli)
        /\ UNCHANGED <<user, inside, dtor, chan, chErr, expects, cacheOpen, cstate, subclass>>
    BY <1>7 DEF Client, InitOpenMore, InitOpenTooLate, chanVars, endVars
  <2>2. Keeps(wq[Cli], wq'[Cli]) /\ expects[Cli] # "none"
    BY <2>1, DoneKeeps, LogInIsConnecting
  <2>3. CliInv'
    BY <2>1, <2>2, KeepsCliInv
  <2> QED BY <2>1, <2>3
<1>8. CASE Client(LogInRspAwaitInit)
  <2>1. /\ Ready(Cli, "LogInRsp") /\ NInit > 0
        /\ UNCHANGED <<user, inside, dtor, chan, chErr, cstate, subclass, initChans>>
    BY <1>8 DEF Client, LogInRspAwaitInit, endVars, cliVars
  <2>2. cstate = "CONNECTING" /\ expects[Cli] = "none" /\ subclass # "busy"
        /\ (\A e : ReqsAre(wq[Cli], e)) /\ NoLogIn(Tail(wq[Cli])) /\ NoCall(wq[Cli])
        /\ wq[Cli] \in Seq(Item) /\ wq[Cli] # <<>> /\ inside[Cli] = "none"
    BY <1>0, <2>1, LogInIsConnecting, ReadyHas DEF CliInv, OneCall
  <2>3. CASE chErr[Cli]
    <3>1. Done(Cli) /\ UNCHANGED <<expects, cacheOpen>>
      BY <1>8, <2>3 DEF Client, LogInRspAwaitInit
    <3>2. Keeps(wq[Cli], wq'[Cli])
      BY <2>1, <3>1, DoneKeeps
    <3>3. CliInv'
      BY <2>1, <3>1, <3>2, KeepsCliInv
    <3> QED BY <2>1, <3>3
  <2>4. CASE ~chErr[Cli]
    <3>1. /\ DoneThen(Cli, Kept(Cli, "InitOpen"))
          /\ expects'[Cli] = "InitOpen" /\ cacheOpen'[Cli] = <<>>
      BY <1>0, <1>8, <2>4 DEF Client, LogInRspAwaitInit, ExpectOpenReqs
    <3>2. ~Has(wq[Cli], "Err")
      BY <1>0, <2>2, <2>4 DEF CliInv, ErrIsLast
    <3>3. ReqsAre(Tail(wq[Cli]), "InitOpen")
      BY <2>2, TailKeeps DEF Keeps
    <3>4. /\ NoCall(wq'[Cli]) /\ ErrLast(wq'[Cli]) /\ ReqsAre(wq'[Cli], "InitOpen")
          /\ \A u : Has(wq'[Cli], u) => Has(wq[Cli], u) \/ u = "InitOpen"
      BY <2>1, <2>2, <3>1, <3>2, <3>3, DoneKeeps DEF ReqTypes
    <3>5. OneCall'
      BY <2>1, <2>2, <3>4, FewTasks DEF CliInv, OneCall, DtorTasks
    <3>6. NullIsClean' /\ ErrIsLast' /\ PastLogIn'
      BY <2>1, <2>2, <3>1, <3>2, <3>4 DEF NullIsClean, ErrIsLast, PastLogIn, CliInv
    <3>7. ReqsExpected'
      BY <2>1, <3>1, <3>4 DEF ReqsExpected, ReqsAre
    <3> QED BY <2>1, <3>5, <3>6, <3>7 DEF CliInv
  <2> QED BY <2>3, <2>4
<1>9. CASE Client(LogInRspOk)
  <2>1. Ready(Cli, "LogInRsp") /\ UNCHANGED <<dtor, chan, chErr, initChans, subclass>>
    BY <1>9 DEF Client, LogInRspOk, endVars
  <2>2. cstate = "CONNECTING" /\ expects[Cli] = "none" /\ subclass # "busy"
        /\ (\A e : ReqsAre(wq[Cli], e)) /\ NoLogIn(Tail(wq[Cli])) /\ NoCall(wq[Cli])
        /\ wq[Cli] \in Seq(Item) /\ wq[Cli] # <<>>
    BY <1>0, <2>1, LogInIsConnecting, ReadyHas DEF CliInv, OneCall
  <2>3. CASE chErr[Cli]
    <3>1. Done(Cli) /\ UNCHANGED <<expects, cacheOpen, cstate, inside, user>>
      BY <1>9, <2>3 DEF Client, LogInRspOk
    <3>2. Keeps(wq[Cli], wq'[Cli])
      BY <2>1, <3>1, DoneKeeps
    <3>3. CliInv'
      BY <2>1, <3>1, <3>2, KeepsCliInv
    <3> QED BY <2>2, <3>3
  <2>4. CASE ~chErr[Cli]
    <3>1. /\ DoneThen(Cli, Kept(Cli, "OpenReq")) /\ Connected
          /\ expects'[Cli] = "OpenReq" /\ cacheOpen'[Cli] = <<>>
      BY <1>0, <1>9, <2>4 DEF Client, LogInRspOk, ExpectOpenReqs
    <3>2. ReqsAre(Tail(wq[Cli]), "OpenReq")
      BY <2>2, TailKeeps DEF Keeps
    <3>3. /\ NoCall(wq'[Cli]) /\ NoLogIn(wq'[Cli]) /\ ReqsAre(wq'[Cli], "OpenReq")
          /\ \A u : Has(wq'[Cli], u) => Has(wq[Cli], u) \/ u = "OpenReq"
      BY <2>1, <2>2, <3>1, <3>2, DoneKeeps DEF ReqTypes
    <3>4. CliInv'
      BY <2>1, <2>2, <3>1, <3>3, ConnectedCliInv DEF DtorTasks
    <3> QED BY <2>2, <3>4
  <2> QED BY <2>3, <2>4
<1>10. CASE Client(InitOpenLast)
  <2>1. /\ Ready(Cli, "InitOpen") /\ Len(initChans) + 1 = NInit
        /\ UNCHANGED <<dtor, chan, subclass>>
        /\ DoneThen(Cli, Kept(Cli, "OpenReq"))
        /\ expects'[Cli] = "OpenReq" /\ cacheOpen'[Cli] = <<>>
    BY <1>0, <1>10 DEF Client, InitOpenLast, ExpectOpenReqs, endVars
  <2>2. PICK out \in SendOutcomes :
          /\ Send(Cli, <<New("OpenRsp", Task(Cli).id, "init")>>, out)
          /\ \/ out = "false" /\ ConnectPending /\ UNCHANGED <<inside, cstate>>
             \/ out = "err" /\ cstate' = "NULL" /\ ConnectDone("error") /\ UNCHANGED inside
             \/ out = "ok" /\ Connected
    BY <1>10 DEF Client, InitOpenLast
  <2>3. /\ cstate = "CONNECTING" /\ expects[Cli] = "InitOpen" /\ subclass # "busy"
        /\ NoLogIn(Tail(wq[Cli])) /\ ReqsAre(Tail(wq[Cli]), "OpenReq") /\ NoCall(wq[Cli])
        /\ wq[Cli] \in Seq(Item) /\ wq[Cli] # <<>> /\ inside[Cli] = "none"
    BY <1>0, <2>1, LogInIsConnecting, ReadyHas DEF CliInv, OneCall
  <2>4. /\ NoCall(wq'[Cli]) /\ NoLogIn(wq'[Cli]) /\ ReqsAre(wq'[Cli], "OpenReq")
        /\ \A u : Has(wq'[Cli], u) => Has(wq[Cli], u) \/ u = "OpenReq"
    BY <2>1, <2>3, DoneKeeps DEF ReqTypes
  <2>5. /\ chErr'[Cli] = chErr[Cli] \/ chErr'[Cli] = TRUE
        /\ out = "err" => chErr'[Cli] = TRUE
    BY <1>0, <2>2 DEF Send
  <2>6. CASE out = "ok"
    BY <2>1, <2>2, <2>3, <2>4, <2>5, <2>6, ConnectedCliInv DEF DtorTasks
  <2>7. CASE out # "ok"
    <3>1. \/ cstate' = "CONNECTING" /\ user'[Cli] = user[Cli]
          \/ cstate' = "NULL" /\ user'[Cli] = "idle" /\ chErr'[Cli] = TRUE
      BY <1>0, <2>2, <2>3, <2>5, <2>7 DEF ConnectPending, ConnectDone, Answer
    <3>2. subclass' = subclass /\ inside'[Cli] = "none"
      BY <2>1, <2>2, <2>3, <2>7
    <3>3. OneCall'
      <4>1. /\ NoCall(wq'[Cli]) /\ inside'[Cli] # "open" /\ dtor' = dtor
            /\ \A t \in DtorTasks : Has(wq'[Cli], t) => Has(wq[Cli], t)
        BY <2>1, <2>4, <3>2 DEF DtorTasks
      <4>2. user'[Cli] = "idle" => cstate' # "CONNECTING" \/ user[Cli] = "idle"
        BY <3>1
      <4> QED BY <2>3, <2>4, <3>1, <4>1, <4>2, FewTasks DEF CliInv, OneCall
    <3>4. NullIsClean'
      BY <2>3, <2>4, <3>1, <3>2, FewTasks DEF NullIsClean
    <3>5. ErrIsLast' /\ PastLogIn'
      BY <2>1, <2>3, <2>4, <2>5, <3>1, <3>2, FewTasks DEF CliInv, ErrIsLast, PastLogIn
    <3>6. ReqsExpected'
      BY <2>1, <2>4 DEF ReqsExpected, ReqsAre
    <3> QED BY <2>3, <3>3, <3>4, <3>5, <3>6 DEF CliInv
  <2> QED BY <2>3, <2>6, <2>7
<1>11. CASE Client(OnDoneOk) \/ Client(OnDoneToConnecting)
  <2>1. /\ inside[Cli] = "onDone" /\ inside'[Cli] = "none"
        /\ \/ cstate' = "PEER" /\ user'[Cli] = "idle" /\ subclass' = subclass
           \/ cstate' = cstate /\ user' = user /\ subclass' = "busy"
        /\ UNCHANGED <<wq, dtor, chan, chErr, expects, cacheOpen, initChans>>
    BY <1>0, <1>11, CliTypes DEF Client, OnDoneOk, OnDoneToConnecting, OnDoneReturns,
       ConnectDone, Answer, chanVars, endVars
  <2>2. cstate = "CONNECTING" /\ expects[Cli] = "OpenReq" /\ NoCall(wq[Cli])
    BY <2>1 DEF CliInv, PastLogIn, OneCall
  <2>3. OneCall' /\ NullIsClean'
    BY <2>1, <2>2 DEF CliInv, OneCall, NullIsClean
  <2>4. ErrIsLast' /\ PastLogIn' /\ ReqsExpected'
    BY <2>1, <2>2 DEF CliInv, ErrIsLast, PastLogIn, ReqsExpected
  <2> QED BY <2>2, <2>3, <2>4 DEF CliInv
<1>12. CASE Client(OnDoneToNull)
  <2>1. /\ inside[Cli] = "onDone" /\ inside'[Cli] = "none"
        /\ cstate' = "NULL" /\ user'[Cli] = "idle" /\ chan'[Cli] = "reset"
        /\ UNCHANGED <<wq, dtor, expects, cacheOpen, initChans, subclass>>
    BY <1>0, <1>12, CliTypes DEF Client, OnDoneToNull, OnDoneReturns, DropChannel,
       ConnectDone, Answer, endVars
  <2>2. cstate = "CONNECTING" /\ expects[Cli] = "OpenReq" /\ subclass # "busy"
    BY <2>1 DEF CliInv, PastLogIn
  <2>3. NoLogIn(wq[Cli])
    BY <2>2, FewTasks DEF LogInOrder, CliInv, ReqsExpected
  <2> QED BY <2>1, <2>2, <2>3, SameKeeps, BreakCliInv
<1> QED BY <1>1, <1>2, <1>3, <1>4, <1>5, <1>6, <1>7, <1>8, <1>9, <1>10, <1>11, <1>12
        DEF CliTask, Connect

\* A task that is neither the user's nor the log-in's comes in, out of NULL state
\* or with no call in W's queue.
LEMMA PostCliInv ==
  ASSUME TypeOK, CliInv, NEW t \in Item, Post(Cli, t),
         t.type \notin CallTypes, t.type \notin LogInTasks,
         cstate = "NULL" => NoCall(wq[Cli]),
         t.type = "Err" => chErr'[Cli] = TRUE,
         t.type = "Complete" => expects[Cli] = "OpenReq",
         t.type \in ReqTypes => t.type = expects[Cli],
         t.type \in DtorTasks => dtor'[Cli] # "no",
         \/ user'[Cli] = user[Cli]
         \/ user'[Cli] = "idle" /\ NoCall(wq[Cli]) /\ cstate # "CONNECTING",
         inside'[Cli] = inside[Cli] \/ inside'[Cli] = "none",
         user'[Cli] = "idle" => inside'[Cli] # "open",
         dtor'[Cli] = dtor[Cli] \/ (dtor'[Cli] # "no" /\ user'[Cli] = "idle"),
         chan'[Cli] = chan[Cli], chErr'[Cli] = chErr[Cli] \/ chErr'[Cli] = TRUE,
         UNCHANGED <<expects[Cli], cacheOpen[Cli], cstate, initChans>>,
         subclass' = subclass \/ subclass' = "posted"
  PROVE  CliInv'
<1> DEFINE r == Append(wq[Cli], t)
<1>1. wq'[Cli] = r /\ wq[Cli] \in Seq(Item)
  BY CliTypes DEF Post
<1>2. /\ NoCall(wq[Cli]) => NoCall(r) /\ ConnectLast(r)
      /\ OneCallIn(wq[Cli]) => OneCallIn(r)
      /\ NoLogIn(wq[Cli]) => NoLogIn(r)
      /\ ErrLast(wq[Cli]) => ErrLast(r)
      /\ \A u : Has(r, u) => Has(wq[Cli], u) \/ t.type = u
      /\ ReqsAre(wq[Cli], expects[Cli]) => ReqsAre(r, expects[Cli])
  BY <1>1, AppendKeeps
<1> HIDE DEF r
<1>3. OneCall'
  BY <1>1, <1>2 DEF CliInv, OneCall
<1>4. NullIsClean'
  BY <1>1, <1>2 DEF CliInv, NullIsClean
<1>5. ErrIsLast'
  BY <1>1, <1>2 DEF CliInv, ErrIsLast
<1>6. PastLogIn'
  BY <1>1, <1>2 DEF CliInv, PastLogIn
<1>7. ReqsExpected'
  BY <1>1, <1>2 DEF CliInv, ReqsExpected
<1> QED BY <1>3, <1>4, <1>5, <1>6, <1>7 DEF CliInv

\* The user makes a call.
LEMMA CallCliInv ==
  ASSUME TypeOK, CliInv, NEW t \in CallTypes, Call(Cli, t),
         UNCHANGED <<cstate, initChans, subclass>>
  PROVE  CliInv'
<1> DEFINE r == Append(wq[Cli], Plain(t))
<1>0. Plain(t) \in Item /\ Plain(t).type = t
  BY PlainIsItem DEF CallTypes, TaskTypes, Plain, New
<1>1. /\ wq'[Cli] = r /\ wq[Cli] \in Seq(Item)
      /\ user[Cli] = "idle" /\ user'[Cli] = "call" /\ dtor[Cli] = "no"
      /\ UNCHANGED <<chanVars, inside, endVars>>
  BY CliTypes DEF Call, Free, Post
<1>2. NoCall(wq[Cli]) /\ inside[Cli] # "open" /\ cstate # "CONNECTING"
  BY <1>1 DEF CliInv, OneCall
<1>3. /\ OneCallIn(r) /\ ConnectLast(r)
      /\ NoLogIn(wq[Cli]) => NoLogIn(r)
      /\ \A u : Has(r, u) => Has(wq[Cli], u) \/ u = t
      /\ ReqsAre(wq[Cli], expects[Cli]) => ReqsAre(r, expects[Cli])
  BY <1>0, <1>1, <1>2, AppendKeeps DEF CallTypes, LogInTasks, ReqTypes
<1> HIDE DEF r
<1>4. OneCall'
  BY <1>1, <1>2, <1>3 DEF CliInv, OneCall, DtorTasks, CallTypes, endVars
<1>5. NullIsClean' /\ ErrIsLast' /\ PastLogIn' /\ ReqsExpected'
  BY <1>1, <1>2, <1>3
     DEF CliInv, NullIsClean, ErrIsLast, PastLogIn, ReqsExpected, chanVars
<1> QED BY <1>4, <1>5 DEF CliInv

\* The tasks both sides have, at the client.
LEMMA SharedTaskCliInv ==
  ASSUME TypeOK, CliInv, SharedTask(Cli)
  PROVE  CliInv' /\ cstate' = cstate
<1>0. /\ Cli \in Sides /\ DOMAIN user = Sides /\ DOMAIN inside = Sides
      /\ DOMAIN chErr = Sides /\ DOMAIN dtor = Sides
  BY CliTypes
<1>1. UNCHANGED <<chan, expects, cacheOpen, cstate, subclass, initChans>>
  BY DEF SharedTask, Common, Open, OnOpenReq, OnPassiveOpen, OnFin, DtorBegin, DtorFin,
     DtorFlush, chanVars, cliVars
<1>2. chErr'[Cli] = chErr[Cli] \/ chErr'[Cli] = TRUE
  <2>1. UNCHANGED chErr \/ \E ms, out : Send(Cli, ms, out)
    BY DEF SharedTask, Common, Open, OnOpenReq, OnPassiveOpen, OnFin, DtorBegin, DtorFin,
       DtorFlush, chanVars
  <2> QED BY <1>0, <2>1 DEF Send
<1>3. CASE Common(Open(Cli))
  <2>1. Ready(Cli, "Open") /\ Done(Cli) /\ UNCHANGED dtor
    BY <1>3 DEF Common, Open, endVars
  <2>2. /\ Keeps(wq[Cli], wq'[Cli]) /\ NoCall(wq'[Cli]) /\ ~NoCall(wq[Cli])
        /\ inside[Cli] = "none"
    BY <1>0, <2>1, DoneKeeps, ReadyHas DEF CallTypes, CliInv, OneCall
  <2>3. cstate # "CONNECTING" /\ user[Cli] # "idle"
    BY <2>2 DEF CliInv, OneCall
  <2>4. CASE inside' = inside
    <3>1. user'[Cli] = "idle"
      BY <1>0, <1>3, <2>2, <2>4 DEF Common, Open, Answer
    <3> QED BY <1>1, <1>2, <2>1, <2>2, <2>3, <2>4, <3>1, AnswerCliInv
  <2>5. CASE inside' # inside
    <3>1. inside'[Cli] = "open" /\ user'[Cli] = user[Cli]
      BY <1>0, <1>3, <2>5 DEF Common, Open
    <3>2. OneCall'
      BY <1>1, <2>1, <2>2, <2>3, <3>1 DEF CliInv, OneCall, Keeps
    <3>3. NullIsClean' /\ ErrIsLast'
      BY <1>1, <1>2, <2>2 DEF CliInv, NullIsClean, ErrIsLast, Keeps
    <3>4. PastLogIn'
      BY <1>1, <2>2, <3>1 DEF CliInv, PastLogIn, Keeps
    <3>5. ReqsExpected'
      BY <1>1, <2>2 DEF CliInv, ReqsExpected, Keeps
    <3> QED BY <1>1, <3>2, <3>3, <3>4, <3>5 DEF CliInv
  <2> QED BY <1>1, <2>4, <2>5
<1>4. CASE ~Common(Open(Cli))
  <2>1. CASE Common(OnOpenReq(Cli)) \/ Common(OnFin(Cli))
    <3>1. /\ Ready(Cli, "OpenReq") \/ Ready(Cli, "Fin")
          /\ Done(Cli) \/ UNCHANGED wq
          /\ inside'[Cli] \in {inside[Cli], "passive"} /\ UNCHANGED <<user, dtor>>
      BY <1>0, <2>1 DEF Common, OnOpenReq, OnFin, endVars
    <3>2. Keeps(wq[Cli], wq'[Cli])
      BY <3>1, DoneKeeps, SameKeeps
    <3> QED BY <1>1, <1>2, <3>1, <3>2, KeepsCliInv
  <2>3. CASE Common(OnPassiveOpen(Cli))
    <3>1. /\ wq[Cli] # <<>> /\ wq'[Cli] = Tail(wq[Cli])
          /\ inside'[Cli] = "none" /\ UNCHANGED <<user, dtor>>
      BY <1>0, <2>3, CliTypes DEF Common, OnPassiveOpen, Giving, Done, endVars
    <3>2. Keeps(wq[Cli], wq'[Cli])
      BY <3>1, CliTypes, TailKeeps
    <3> QED BY <1>1, <1>2, <3>1, <3>2, KeepsCliInv
  <2>2. CASE Common(DtorBegin(Cli)) \/ Common(DtorFin(Cli)) \/ Common(DtorFlush(Cli))
    <3>1. PICK t \in DtorTasks : Ready(Cli, t)
      BY <2>2 DEF Common, DtorBegin, DtorFin, DtorFlush, DtorTasks
    <3>2. Done(Cli) /\ UNCHANGED <<user, inside>> /\ dtor'[Cli] # "no"
      BY <1>0, <2>2 DEF Common, DtorBegin, DtorFin, DtorFlush
    <3>3. Keeps(wq[Cli], wq'[Cli]) /\ Has(wq[Cli], t)
      BY <1>0, <3>1, <3>2, DoneKeeps, ReadyHas
    <3>4. dtor[Cli] # "no"
      BY <3>1, <3>3 DEF CliInv, OneCall
    <3> QED BY <1>1, <1>2, <3>2, <3>3, <3>4, KeepsCliInv
  <2> QED BY <1>1, <1>4, <2>1, <2>2, <2>3 DEF SharedTask
<1> QED BY <1>3, <1>4

\* Thread Wc of the client, and W woken from open_channel().
LEMMA WcStepCliInv ==
  ASSUME TypeOK, CliInv, WcStep(Cli)
  PROVE  CliInv' /\ cstate' = cstate
<1>0. /\ Cli \in Sides /\ Cli # Srv /\ DOMAIN user = Sides /\ DOMAIN inside = Sides
      /\ DOMAIN chErr = Sides /\ DOMAIN cacheOpen = Sides /\ DOMAIN wq = Sides
      /\ wq[Cli] \in Seq(Item) /\ chErr[Cli] \in BOOLEAN /\ cacheOpen[Cli] \in Seq(Item)
      /\ expects[Cli] \in {"none", "InitOpen", "OpenReq"}
  BY CliTypes
<1>1. UNCHANGED <<chan, expects, dtor, cstate, subclass, initChans>>
  BY <1>0 DEF WcStep, Common, DeliverLogIn, DeliverOpenReq, DeliverFin, DropLateRsp,
     DetectError, OpenAnswered, OpenBroken, endVars, cliVars
<1>2. chan[Cli] = "up" /\ ~chErr[Cli] /\ cstate # "NULL"
  <2>1. chan[Cli] = "up" /\ ~chErr[Cli]
    BY <1>0 DEF WcStep, Common, DeliverLogIn, DeliverOpenReq, DeliverFin, DropLateRsp,
       DetectError, OpenAnswered, OpenBroken, Arrives, EndOfStream
  <2> QED BY <2>1 DEF CliInv, NullIsClean
<1>3. cstate = "CONNECTING" => ~Has(wq[Cli], "Err")
  BY <1>2 DEF CliInv, ErrIsLast
<1>4. CASE Common(DeliverLogIn(Cli))
  <2> DEFINE m == Head(net[Cli])
             r == Append(wq[Cli], m)
  <2>1. /\ m \in Item /\ m.type \in {"LogInReq", "LogInRsp"}
        /\ wq'[Cli] = r /\ UNCHANGED <<user, inside, chErr, cacheOpen>>
    BY <1>0, <1>4, ArrivesKeepsType
       DEF Common, DeliverLogIn, Arrives, Post, TypeOK, BaseTypeOK
  <2>2. /\ NoCall(wq[Cli]) => NoCall(r)
        /\ OneCallIn(wq[Cli]) => OneCallIn(r)
        /\ ~Has(wq[Cli], "Err") => ErrLast(r)
        /\ \A u : Has(r, u) => Has(wq[Cli], u) \/ m.type = u
        /\ ReqsAre(wq[Cli], expects[Cli]) => ReqsAre(r, expects[Cli])
    BY <1>0, <2>1, AppendKeeps DEF CallTypes, ReqTypes
  <2> HIDE DEF m, r
  <2>3. OneCall'
    BY <1>1, <2>1, <2>2 DEF CliInv, OneCall, DtorTasks
  <2>4. NullIsClean' /\ ErrIsLast' /\ PastLogIn' /\ ReqsExpected'
    BY <1>1, <1>2, <1>3, <2>1, <2>2
       DEF CliInv, NullIsClean, ErrIsLast, PastLogIn, ReqsExpected
  <2> QED BY <1>1, <2>3, <2>4 DEF CliInv
<1>5. CASE Common(DeliverOpenReq(Cli)) /\ expects[Cli] = "none"
  <2>1. /\ Head(net[Cli]) \in Item /\ Head(net[Cli]).type = "OpenReq"
        /\ cacheOpen'[Cli] = Append(cacheOpen[Cli], Head(net[Cli]))
        /\ UNCHANGED <<wq, user, inside, chErr>>
    BY <1>0, <1>5, ArrivesKeepsType DEF Common, DeliverOpenReq, Arrives, TypeOK, BaseTypeOK
  <2>2. ReqsAre(cacheOpen[Cli], "OpenReq") => ReqsAre(cacheOpen'[Cli], "OpenReq")
    BY <1>0, <2>1, AppendKeeps
  <2>3. ReqsExpected'
    BY <1>1, <1>5, <2>1, <2>2 DEF CliInv, ReqsExpected
  <2>4. OneCall' /\ NullIsClean' /\ ErrIsLast' /\ PastLogIn'
    BY <1>1, <2>1 DEF CliInv, OneCall, NullIsClean, ErrIsLast, PastLogIn
  <2> QED BY <1>1, <2>3, <2>4 DEF CliInv
<1>6. CASE Common(DeliverOpenReq(Cli)) /\ expects[Cli] # "none"
  <2> DEFINE m == [Head(net[Cli]) EXCEPT !.type = expects[Cli]]
             r == Append(wq[Cli], m)
  <2>1. /\ m \in Item /\ m.type = expects[Cli] /\ wq'[Cli] = r
        /\ UNCHANGED <<user, inside, chErr, cacheOpen>>
    <3>1. Head(net[Cli]) \in Item /\ expects[Cli] \in TaskTypes
      BY <1>0, <1>6, ArrivesKeepsType
         DEF Common, DeliverOpenReq, TypeOK, BaseTypeOK, TaskTypes, MsgTypes
    <3>2. m \in Item /\ m.type = expects[Cli]
      BY <3>1, RetypeIsItem DEF Item
    <3> QED BY <1>0, <1>6, <3>2 DEF Common, DeliverOpenReq, Post
  <2>2. /\ NoCall(wq[Cli]) => NoCall(r)
        /\ OneCallIn(wq[Cli]) => OneCallIn(r)
        /\ ~Has(wq[Cli], "Err") => ErrLast(r)
        /\ \A u : Has(r, u) => Has(wq[Cli], u) \/ m.type = u
        /\ ReqsAre(wq[Cli], expects[Cli]) => ReqsAre(r, expects[Cli])
    BY <1>0, <1>6, <2>1, AppendKeeps DEF CallTypes, ReqTypes
  <2> HIDE DEF m, r
  <2>3. OneCall'
    BY <1>0, <1>1, <2>1, <2>2 DEF CliInv, OneCall, DtorTasks
  <2>4. NullIsClean' /\ ErrIsLast' /\ PastLogIn' /\ ReqsExpected'
    BY <1>0, <1>1, <1>2, <1>3, <2>1, <2>2
       DEF CliInv, NullIsClean, ErrIsLast, PastLogIn, ReqsExpected
  <2> QED BY <1>1, <2>3, <2>4 DEF CliInv
<1>7. CASE Common(DropLateRsp(Cli)) \/ (Common(DeliverFin(Cli)) /\ UNCHANGED wq)
  <2>1. UNCHANGED <<wq, user, inside, chErr, cacheOpen>>
    BY <1>7 DEF Common, DropLateRsp, DeliverFin, threadVars
  <2> QED BY <1>1, <2>1, SameKeeps, KeepsCliInv
<1>8. CASE Common(DeliverFin(Cli)) /\ wq' # wq
  <2>1. Post(Cli, Plain("Fin")) /\ UNCHANGED <<user, inside, chErr, cacheOpen>>
    BY <1>8 DEF Common, DeliverFin
  <2>2. Plain("Fin") \in Item /\ Plain("Fin").type = "Fin"
    BY PlainIsItem DEF TaskTypes, MsgTypes, Plain, New
  <2>3. user'[Cli] = "idle" => inside'[Cli] # "open"
    BY <2>1 DEF CliInv, OneCall
  <2> QED BY <1>1, <1>2, <2>1, <2>2, <2>3, PostCliInv
          DEF CallTypes, LogInTasks, ReqTypes, DtorTasks
<1>9. CASE Common(DetectError(Cli))
  <2>1. Post(Cli, Plain("Err")) /\ chErr'[Cli] = TRUE /\ UNCHANGED <<user, inside, cacheOpen>>
    BY <1>0, <1>9 DEF Common, DetectError
  <2>2. Plain("Err") \in Item /\ Plain("Err").type = "Err"
    BY PlainIsItem DEF TaskTypes, Plain, New
  <2>3. user'[Cli] = "idle" => inside'[Cli] # "open"
    BY <2>1 DEF CliInv, OneCall
  <2> QED BY <1>1, <1>2, <2>1, <2>2, <2>3, PostCliInv
          DEF CallTypes, LogInTasks, ReqTypes, DtorTasks
<1>10. CASE Common(OpenAnswered(Cli)) \/ Common(OpenBroken(Cli))
  <2>1. /\ inside[Cli] = "open" /\ inside'[Cli] = "none" /\ user'[Cli] = "idle"
        /\ UNCHANGED cacheOpen /\ (chErr'[Cli] = chErr[Cli] \/ chErr'[Cli] = TRUE)
        /\ UNCHANGED wq \/ (Post(Cli, Plain("Err")) /\ chErr'[Cli] = TRUE)
    BY <1>0, <1>10 DEF Common, OpenAnswered, OpenBroken, Answer
  <2>2. NoCall(wq[Cli]) /\ cstate # "CONNECTING"
    BY <2>1 DEF CliInv, OneCall
  <2>3. CASE UNCHANGED wq
    BY <1>1, <2>1, <2>2, <2>3, SameKeeps, AnswerCliInv
  <2>4. CASE Post(Cli, Plain("Err")) /\ chErr'[Cli] = TRUE
    <3>1. Plain("Err") \in Item /\ Plain("Err").type = "Err"
      BY PlainIsItem DEF TaskTypes, Plain, New
    <3> QED BY <1>1, <1>2, <2>1, <2>2, <2>4, <3>1, PostCliInv
            DEF CallTypes, LogInTasks, ReqTypes, DtorTasks
  <2> QED BY <1>1, <2>1, <2>3, <2>4
<1> QED BY <1>0, <1>4, <1>5, <1>6, <1>7, <1>8, <1>9, <1>10 DEF WcStep

\* The rest of the client's steps: time limits, the destructor, the user, the
\* subclass.
LEMMA OtherCliSteps ==
  ASSUME TypeOK, CliInv, Timeout(Cli) \/ DtorStep(Cli) \/ SubclassStep
  PROVE  CliInv' /\ cstate' = cstate
<1>0. /\ Cli \in Sides /\ Cli # Srv /\ DOMAIN user = Sides /\ DOMAIN inside = Sides
      /\ DOMAIN dtor = Sides /\ DOMAIN chan = Sides /\ DOMAIN wq = Sides
  BY CliTypes
<1>1. /\ UNCHANGED <<chErr, expects, cacheOpen, cstate, initChans>>
  BY <1>0 DEF Timeout, DtorStep, SubclassStep, Common, Client, OpenTimeout, DtorGreet,
     DtorGoOn, DtorStop, SubclassPosts, chanVars, cliVars
<1>2. CASE Timeout(Cli)
  <2>1. /\ inside[Cli] = "open" /\ inside'[Cli] = "none" /\ user'[Cli] = "idle"
        /\ UNCHANGED <<wq, chan, dtor, subclass>>
    BY <1>0, <1>2 DEF Timeout, Common, OpenTimeout, Answer, chanVars, endVars, cliVars
  <2>2. NoCall(wq[Cli]) /\ cstate # "CONNECTING"
    BY <2>1 DEF CliInv, OneCall
  <2> QED BY <1>1, <2>1, <2>2, SameKeeps, AnswerCliInv
<1>3. CASE Common(DtorGreet(Cli)) \/ Common(DtorGoOn(Cli))
  <2>1. PICK t \in DtorTasks : Post(Cli, Plain(t))
    BY <1>3 DEF Common, DtorGreet, DtorGoOn, DtorTasks
  <2>2. /\ dtor[Cli] # "no" /\ dtor'[Cli] # "no"
        /\ UNCHANGED <<user, inside, chan, subclass>>
    BY <1>0, <1>3 DEF Common, DtorGreet, DtorGoOn, MayFlush, chanVars, cliVars
  <2>3. user[Cli] = "idle" /\ NoCall(wq[Cli]) /\ inside[Cli] # "open"
    BY <2>2 DEF CliInv, OneCall
  <2>4. Plain(t) \in Item /\ Plain(t).type = t
    BY PlainIsItem DEF DtorTasks, TaskTypes, Plain, New
  <2>5. /\ t \notin CallTypes /\ t \notin LogInTasks /\ t \notin ReqTypes
        /\ t # "Err" /\ t # "Complete"
    BY DEF DtorTasks, CallTypes, LogInTasks, ReqTypes
  <2> QED BY <1>1, <2>1, <2>2, <2>3, <2>4, <2>5, PostCliInv
<1>4. CASE Common(DtorStop(Cli))
  <2>1. /\ dtor[Cli] # "no" /\ dtor'[Cli] # "no" /\ wq'[Cli] = <<>> /\ chan'[Cli] # "up"
        /\ UNCHANGED <<user, inside, subclass>>
    BY <1>0, <1>4 DEF Common, DtorStop, cliVars
  <2> QED BY <1>1, <2>1, SameKeeps, KeepsCliInv
<1>5. CASE SubclassStep
  <2>1. PICK n \in {"ok", "rejected"} : Post(Cli, New("Complete", 0, n))
    BY <1>5 DEF SubclassStep, Client, SubclassPosts
  <2>2. subclass = "busy" /\ subclass' = "posted" /\ UNCHANGED <<user, inside, chan, dtor>>
    BY <1>5 DEF SubclassStep, Client, SubclassPosts, chanVars, endVars
  <2>3. /\ expects[Cli] = "OpenReq" /\ cstate # "NULL"
        /\ user[Cli] = "idle" => inside[Cli] # "open"
    BY <2>2 DEF CliInv, PastLogIn, NullIsClean, OneCall
  <2>4. New("Complete", 0, n) \in Item /\ New("Complete", 0, n).type = "Complete"
    BY NewIsItem DEF TaskTypes, Notes, New
  <2> QED BY <1>1, <2>1, <2>2, <2>3, <2>4, PostCliInv
          DEF CallTypes, LogInTasks, ReqTypes, DtorTasks
<1> QED BY <1>0, <1>2, <1>3, <1>4, <1>5 DEF DtorStep

\* What the client's user decides to do.
LEMMA CliUserCliInv ==
  ASSUME TypeOK, CliInv,
         \/ Client(CallConnect) \/ Client(CliCallOpen)
         \/ Common(Call(Cli, "Token")) \/ Common(DtorStart(Cli))
  PROVE  CliInv' /\ cstate' = cstate
<1>1. UNCHANGED <<cstate, initChans, subclass>>
  BY DEF Client, Common, CallConnect, CliCallOpen, cliVars
<1>2. CASE Client(CallConnect) \/ Client(CliCallOpen) \/ Common(Call(Cli, "Token"))
  <2>1. \E t \in CallTypes : Call(Cli, t)
    BY <1>2 DEF Client, Common, CallConnect, CliCallOpen, CallOpen, CallTypes
  <2> QED BY <1>1, <2>1, CallCliInv
<1>3. CASE Common(DtorStart(Cli))
  <2>1. PICK t \in DtorTasks : Post(Cli, Plain(t))
    BY <1>3 DEF Common, DtorStart, DtorTasks
  <2>2. /\ user[Cli] = "idle" /\ dtor'[Cli] # "no"
        /\ UNCHANGED <<user, inside, chan, chErr, expects, cacheOpen>>
    BY <1>3, CliTypes DEF Common, DtorStart, Free, chanVars
  <2>3. NoCall(wq[Cli]) /\ inside[Cli] # "open"
    BY <2>2 DEF CliInv, OneCall
  <2>4. Plain(t) \in Item /\ Plain(t).type = t
    BY PlainIsItem DEF DtorTasks, TaskTypes, Plain, New
  <2>5. /\ t \notin CallTypes /\ t \notin LogInTasks /\ t \notin ReqTypes
        /\ t # "Err" /\ t # "Complete"
    BY DEF DtorTasks, CallTypes, LogInTasks, ReqTypes
  <2> QED BY <1>1, <2>1, <2>2, <2>3, <2>4, <2>5, PostCliInv
<1> QED BY <1>1, <1>2, <1>3

-----------------------------------------------------------------------------
(* The server's steps.                                                      *)

\* What the server's steps leave alone.
CliViewKept ==
  /\ wq'[Cli] = wq[Cli] /\ user'[Cli] = user[Cli] /\ inside'[Cli] = inside[Cli]
  /\ dtor'[Cli] = dtor[Cli] /\ chan'[Cli] = chan[Cli] /\ chErr'[Cli] = chErr[Cli]
  /\ expects'[Cli] = expects[Cli] /\ cacheOpen'[Cli] = cacheOpen[Cli]
  /\ UNCHANGED cliVars

\* The steps of the server, of the transport, and none at all.
SrvStep ==
  \/ SrvTask \/ SharedTask(Srv) \/ WcStep(Srv) \/ Timeout(Srv) \/ DtorStep(Srv)
  \/ Discard \/ Break
  \/ Server(SrvCallInitHandlers) \/ Server(SrvCallMdt) \/ Server(SrvCallOpen)
  \/ Server(SrvOpenEmpty) \/ Common(Call(Srv, "Token")) \/ Common(DtorStart(Srv))
  \/ UNCHANGED vars

LEMMA SrvStepKeepsView ==
  ASSUME TypeOK, SrvStep
  PROVE  CliViewKept
<1>0. Cli \in Sides /\ Srv \in Sides /\ Cli # Srv
  BY CliTypes
<1> USE DEF SrvStep, SrvTask, Server, AcceptFails, AcceptStarts, LogInReqRefused, LogInRspUnsent,
     LogInReqOk, LogInReqAwaitAck, LogInReqInitFails, InitHandlersAgain,
     InitHandlersErr, InitHandlersOk, EmitPreInitErr, SrvErrStale, SrvErrLogIn,
     SrvErrAlmostPeer, SrvErrPeer, SrvToken, SrvMdt, EmplaceFinisher, LogInFails,
     SharedTask, Common, Open, OnOpenReq, OnPassiveOpen, OnFin, DtorBegin, DtorFin,
     DtorFlush, WcStep, DeliverLogIn, DeliverOpenReq, DeliverFin, DropLateRsp,
     DetectError, OpenAnswered, OpenBroken, InitAcked, InitBroken,
     Timeout, OpenTimeout, DtorStep, DtorGreet, DtorGoOn, SrvDtorStop, DtorStop,
     Discard, DtorStart, Break, LinkFail, SrvCallInitHandlers, SrvCallMdt, SrvCallOpen,
     SrvOpenEmpty, CallOpen, Call, vars, baseVars
<1>1. UNCHANGED wq \/ \E v : wq' = [wq EXCEPT ![Srv] = v]
  BY <1>0 DEF Done, DoneThen, Post, threadVars
<1>2. UNCHANGED user \/ \E v : user' = [user EXCEPT ![Srv] = v]
  BY <1>0 DEF Answer, threadVars
<1>3. UNCHANGED inside \/ \E v : inside' = [inside EXCEPT ![Srv] = v]
  BY <1>0 DEF threadVars
<1>4. UNCHANGED dtor \/ \E v : dtor' = [dtor EXCEPT ![Srv] = v]
  BY <1>0 DEF endVars
<1>5. UNCHANGED chan \/ \E v : chan' = [chan EXCEPT ![Srv] = v]
  BY <1>0 DEF chanVars
<1>6. UNCHANGED chErr \/ \E v : chErr' = [chErr EXCEPT ![Srv] = v]
  BY <1>0 DEF Send, chanVars
<1>7. UNCHANGED expects \/ \E v : expects' = [expects EXCEPT ![Srv] = v]
  BY <1>0 DEF chanVars
<1>8. UNCHANGED cacheOpen \/ \E v : cacheOpen' = [cacheOpen EXCEPT ![Srv] = v]
  BY <1>0 DEF chanVars
<1>9. UNCHANGED cliVars
  BY <1>0
<1> HIDE DEF SrvStep
<1> QED BY <1>0, <1>1, <1>2, <1>3, <1>4, <1>5, <1>6, <1>7, <1>8, <1>9, CliTypes DEF CliViewKept

\* A step of Next is one of the client's, or of those.
LEMMA NextSteps ==
  [Next]_vars <=>
    \/ CliTask \/ SharedTask(Cli) \/ WcStep(Cli)
    \/ Timeout(Cli) \/ DtorStep(Cli) \/ SubclassStep
    \/ Client(CallConnect) \/ Client(CliCallOpen)
    \/ Common(Call(Cli, "Token")) \/ Common(DtorStart(Cli))
    \/ SrvStep /\ [Next]_vars
<1>1. \A s : s \in Sides <=> s = Cli \/ s = Srv
  BY DEF Sides
<1> QED BY <1>1 DEF Next, SrvStep, UserStep

\* Every step keeps the client's part of the invariant, and PEER state.
LEMMA NextCliInv ==
  ASSUME TypeOK, CliInv, LogInOrder, [Next]_vars
  PROVE  CliInv' /\ (cstate = "PEER" => cstate' = "PEER")
<1>1. CASE SrvStep
  <2>1. CliViewKept
    BY <1>1, SrvStepKeepsView
  <2> QED BY <2>1, SameKeeps, KeepsCliInv DEF CliViewKept, cliVars
<1>2. CASE SharedTask(Cli) \/ WcStep(Cli)
  BY <1>2, SharedTaskCliInv, WcStepCliInv
<1>3. CASE CliTask
  BY <1>3, CliTaskCliInv
<1> QED BY <1>1, <1>2, <1>3, NextSteps, OtherCliSteps, CliUserCliInv

-----------------------------------------------------------------------------
(* The order of the log-in's messages.                                      *)

IsReq(m)     == m.type \in ReqTypes
AllReqs(q)   == \A i \in 1..Len(q) : IsReq(q[i])
NoReq(q)     == \A i \in 1..Len(q) : ~IsReq(q[i])
Rising(q)    == \A i, j \in 1..Len(q) :
                  i < j /\ IsReq(q[i]) /\ IsReq(q[j]) => q[i].id < q[j].id
Within(q, n) == \A i \in 1..Len(q) : IsReq(q[i]) => q[i].id > n /\ q[i].id <= NInit
Ahead(q, r)  == \A i \in 1..Len(q), j \in 1..Len(r) :
                  IsReq(q[i]) /\ IsReq(r[j]) => q[i].id < r[j].id

\* The log-in request is on its way to be handled; so is its response.
Requested == Has(net[Srv], "LogInReq") \/ Has(wq[Srv], "LogInReq")
Responded == Has(net[Cli], "LogInRsp") \/ Has(wq[Cli], "LogInRsp")

\* The log-in's request or response is in one place, and nothing is expected yet.
OneLogIn ==
  /\ Lone(net[Srv], "LogInReq") /\ Lone(wq[Srv], "LogInReq")
  /\ Lone(net[Cli], "LogInRsp") /\ Lone(wq[Cli], "LogInRsp")
  /\ Has(net[Srv], "LogInReq") => ~Has(wq[Srv], "LogInReq")
  /\ Has(net[Cli], "LogInRsp") => ~Has(wq[Cli], "LogInRsp")
  /\ ~(Requested /\ Responded)
  /\ Requested \/ Responded => expects[Cli] = "none"

\* Until ordinary requests are expected, those on their way to the client are
\* the init-channels it has not collected, in order.
InitInOrder ==
  NInit > 0 /\ expects[Cli] # "OpenReq" =>
    /\ Requested => NoReq(net[Cli]) /\ NoReq(cacheOpen[Cli])
    /\ Rising(wq[Cli]) /\ Rising(net[Cli]) /\ Rising(cacheOpen[Cli])
    /\ Within(wq[Cli], Len(initChans)) /\ Within(net[Cli], Len(initChans))
    /\ Within(cacheOpen[Cli], Len(initChans)) /\ AllReqs(cacheOpen[Cli])
    /\ Ahead(wq[Cli], net[Cli]) /\ Ahead(cacheOpen[Cli], net[Cli])

\* With init-channels the server's log-in is over, and its user makes calls,
\* after the client has begun to expect ordinary requests.
SrvPastLogIn ==
  \/ login = "ok" \/ mdt # "none" \/ Has(net[Srv], "OpenRsp")
  \/ Has(wq[Srv], "Mdt") \/ Has(wq[Srv], "Open")
AfterAck == NInit > 0 /\ SrvPastLogIn => expects[Cli] = "OpenReq"

LogInInv == OneLogIn /\ InitInOrder /\ AfterAck

\* What the invariant watches for in each queue.
AtSrvNet == {"LogInReq", "OpenRsp"}
AtSrvW   == {"LogInReq", "Mdt", "Open"}
AtCli    == {"LogInRsp"} \cup ReqTypes

\* r has no more of the requests of q, in their order.
FewerReqs(q, r) ==
  /\ NoReq(q) => NoReq(r)
  /\ Rising(q) => Rising(r)
  /\ \A n \in Nat : Within(q, n) => Within(r, n)
  /\ \A p : (Ahead(q, p) => Ahead(r, p)) /\ (Ahead(p, q) => Ahead(p, r))

\* r has no more of what q has of the types in W.
Less(q, r, W) ==
  /\ \A t \in W : (Has(r, t) => Has(q, t)) /\ (Lone(q, t) => Lone(r, t))
  /\ \A t \in W : \A u : Before(q, t, u) => Before(r, t, u)
  /\ \A C \in SUBSET W : (NoneOf(q, C) => NoneOf(r, C)) /\ (OneOf(q, C) => OneOf(r, C))
  /\ ReqTypes \subseteq W => FewerReqs(q, r)

\* Each element of r is one of q, in the order of q, or of a type not in W.
LEMMA LessByIndex ==
  ASSUME NEW q \in Seq(Item), NEW r \in Seq(Item), NEW W, NEW n \in Nat, NEW d \in Nat,
         \A i \in 1..Len(r) : \/ i <= n /\ i + d \in 1..Len(q) /\ r[i] = q[i + d]
                              \/ i > n /\ r[i].type \notin W
  PROVE  Less(q, r, W)
<1>1. Len(q) \in Nat /\ Len(r) \in Nat
  OBVIOUS
<1>2. ASSUME NEW t \in W
      PROVE  (Has(r, t) => Has(q, t)) /\ (Lone(q, t) => Lone(r, t))
  <2>1. \A i \in 1..Len(r) : r[i].type = t => i + d \in 1..Len(q) /\ r[i] = q[i + d]
    BY <1>2
  <2>2. Has(r, t) => Has(q, t)
    BY <2>1 DEF Has
  <2>3. ASSUME Lone(q, t), NEW i \in 1..Len(r), NEW j \in 1..Len(r),
               r[i].type = t, r[j].type = t
        PROVE  i = j
    <3>1. i + d = j + d
      BY <2>1, <2>3 DEF Lone
    <3> QED BY <1>1, <3>1
  <2> QED BY <2>2, <2>3 DEF Lone
<1>3. ASSUME ReqTypes \subseteq W PROVE FewerReqs(q, r)
  <2>0. \A i \in 1..Len(r) : IsReq(r[i]) => i + d \in 1..Len(q) /\ r[i] = q[i + d]
    BY <1>3 DEF IsReq
  <2>1. NoReq(q) => NoReq(r)
    BY <2>0 DEF NoReq
  <2>2. Rising(q) => Rising(r)
    BY <1>1, <2>0 DEF Rising
  <2>3. \A m \in Nat : Within(q, m) => Within(r, m)
    BY <2>0 DEF Within
  <2>4. \A p : (Ahead(q, p) => Ahead(r, p)) /\ (Ahead(p, q) => Ahead(p, r))
    BY <2>0 DEF Ahead
  <2> QED BY <2>1, <2>2, <2>3, <2>4 DEF FewerReqs
<1>4. ASSUME NEW t \in W, NEW u, Before(q, t, u) PROVE Before(r, t, u)
  <2> SUFFICES ASSUME NEW i \in 1..Len(r), NEW j \in 1..Len(r),
                      r[i].type = t, r[j].type = u
               PROVE  i < j
    BY DEF Before
  <2>1. i <= n /\ i + d \in 1..Len(q) /\ r[i] = q[i + d]
    BY <1>4
  <2>2. CASE j <= n /\ j + d \in 1..Len(q) /\ r[j] = q[j + d]
    <3>1. i + d < j + d
      BY <1>4, <2>1, <2>2 DEF Before
    <3> QED BY <1>1, <3>1
  <2>3. CASE j > n
    BY <1>1, <2>1, <2>3
  <2> QED BY <2>2, <2>3
<1>5. ASSUME NEW C \in SUBSET W
      PROVE  (NoneOf(q, C) => NoneOf(r, C)) /\ (OneOf(q, C) => OneOf(r, C))
  <2>1. \A i \in 1..Len(r) : r[i].type \in C => i + d \in 1..Len(q) /\ r[i] = q[i + d]
    BY <1>5
  <2>2. NoneOf(q, C) => NoneOf(r, C)
    BY <2>1 DEF NoneOf
  <2>3. ASSUME OneOf(q, C), NEW i \in 1..Len(r), NEW j \in 1..Len(r),
               r[i].type \in C, r[j].type \in C
        PROVE  i = j
    <3>1. i + d = j + d
      BY <2>1, <2>3 DEF OneOf
    <3> QED BY <1>1, <3>1
  <2> QED BY <2>2, <2>3 DEF OneOf
<1> QED BY <1>2, <1>3, <1>4, <1>5 DEF Less

\* The ways of a queue.
LEMMA LessWays ==
  ASSUME NEW q \in Seq(Item), NEW W
  PROVE  /\ Less(q, q, W) /\ Less(q, <<>>, W)
         /\ q # <<>> => Less(q, Tail(q), W)
         /\ \A x \in Item : x.type \notin W => Less(q, Append(q, x), W)
         /\ \A ms \in Seq(Item) : (\A i \in 1..Len(ms) : ms[i].type \notin W) =>
              /\ Less(q, q \o ms, W)
              /\ q # <<>> => Less(q, Tail(q) \o ms, W)
<1>1. Len(q) \in Nat /\ <<>> \in Seq(Item)
  OBVIOUS
<1>2. Less(q, q, W)
  BY DEF Less, FewerReqs
<1>3. Less(q, <<>>, W)
  BY DEF Less, Has, Lone, Before, NoneOf, OneOf, FewerReqs, NoReq, Rising, Within, Ahead
<1>4. ASSUME q # <<>> PROVE Less(q, Tail(q), W)
  <2>1. /\ Tail(q) \in Seq(Item) /\ Len(Tail(q)) = Len(q) - 1
        /\ \A i \in 1..Len(q) - 1 : Tail(q)[i] = q[i + 1]
    BY <1>4, QueueShape, QueueElements
  <2> DEFINE r == Tail(q)
  <2> HIDE DEF r
  <2>2. r \in Seq(Item) /\ Len(r) = Len(q) - 1 /\ \A i \in 1..Len(q) - 1 : r[i] = q[i + 1]
    BY <2>1 DEF r
  <2>3. /\ \A i \in 1..Len(r) : \/ i <= Len(q) /\ i + 1 \in 1..Len(q) /\ r[i] = q[i + 1]
                                \/ i > Len(q) /\ r[i].type \notin W
        /\ 1 \in Nat
    BY <1>1, <2>2
  <2>4. Less(q, r, W)
    BY <1>1, <2>2, <2>3, LessByIndex
  <2> QED BY <2>4 DEF r
<1>5. ASSUME NEW ms \in Seq(Item), \A i \in 1..Len(ms) : ms[i].type \notin W
      PROVE  Less(q, q \o ms, W)
  <2> DEFINE r == q \o ms
  <2>1. /\ r \in Seq(Item) /\ Len(ms) \in Nat /\ Len(r) = Len(q) + Len(ms)
        /\ \A i \in 1..Len(q) + Len(ms) : r[i] = IF i <= Len(q) THEN q[i] ELSE ms[i - Len(q)]
    BY QueueShape, QueueElements, Zenon
  <2> HIDE DEF r
  <2>2. \A i \in 1..Len(r) : \/ i <= Len(q) /\ i + 0 \in 1..Len(q) /\ r[i] = q[i + 0]
                             \/ i > Len(q) /\ r[i].type \notin W
    BY <1>1, <1>5, <2>1
  <2>3. Less(q, r, W)
    <3>1. 0 \in Nat
      OBVIOUS
    <3> QED BY <1>1, <2>1, <2>2, <3>1, LessByIndex
  <2> QED BY <2>3 DEF r
<1>6. ASSUME NEW ms \in Seq(Item), \A i \in 1..Len(ms) : ms[i].type \notin W, q # <<>>
      PROVE  Less(q, Tail(q) \o ms, W)
  <2> DEFINE t == Tail(q)
             r == t \o ms
  <2>1. /\ t \in Seq(Item) /\ Len(t) = Len(q) - 1
        /\ \A i \in 1..Len(q) - 1 : t[i] = q[i + 1]
    BY <1>6, QueueShape, QueueElements
  <2>2. /\ r \in Seq(Item) /\ Len(ms) \in Nat /\ Len(r) = Len(t) + Len(ms)
        /\ \A i \in 1..Len(t) + Len(ms) : r[i] = IF i <= Len(t) THEN t[i] ELSE ms[i - Len(t)]
    BY <2>1, QueueShape, QueueElements, Zenon
  <2> HIDE DEF r, t
  <2>3. /\ \A i \in 1..Len(r) : \/ i <= Len(t) /\ i + 1 \in 1..Len(q) /\ r[i] = q[i + 1]
                                \/ i > Len(t) /\ r[i].type \notin W
        /\ Len(t) \in Nat /\ 1 \in Nat
    <3>1. Len(t) \in Nat
      BY <2>1
    <3>2. ASSUME NEW i \in 1..Len(r), i > Len(t) PROVE r[i].type \notin W
      <4>1. i - Len(t) \in 1..Len(ms) /\ r[i] = ms[i - Len(t)]
        BY <2>2, <3>1, <3>2
      <4> QED BY <1>6, <4>1
    <3> QED BY <1>1, <1>6, <2>1, <2>2, <3>1, <3>2
  <2>4. Less(q, r, W)
    BY <1>1, <2>1, <2>2, <2>3, LessByIndex
  <2> QED BY <2>4 DEF r, t
<1>7. ASSUME NEW x \in Item, x.type \notin W PROVE Less(q, Append(q, x), W)
  <2>1. /\ <<x>> \in Seq(Item) /\ Append(q, x) = q \o <<x>>
        /\ \A i \in 1..Len(<<x>>) : <<x>>[i] = x
    BY <1>7, OneMore
  <2> QED BY <1>5, <1>7, <2>1
<1> QED BY <1>2, <1>3, <1>4, <1>5, <1>6, <1>7

\* A step that brings none of what is watched for.
QuietStep ==
  /\ Less(net[Srv], net'[Srv], AtSrvNet) /\ Less(wq[Srv], wq'[Srv], AtSrvW)
  /\ Less(net[Cli], net'[Cli], AtCli) /\ Less(wq[Cli], wq'[Cli], AtCli)
  /\ expects'[Cli] = expects[Cli] /\ cacheOpen'[Cli] = cacheOpen[Cli]
  /\ initChans' = initChans
  /\ login' = "ok" => login = "ok"
  /\ mdt' # "none" => mdt # "none"

LEMMA QuietKeepsLogIn ==
  ASSUME TypeOK, LogInInv, QuietStep
  PROVE  LogInInv'
<1>0. Len(initChans) \in Nat
  BY DEF TypeOK, CliTypeOK
<1>1. /\ Has(net'[Srv], "LogInReq") => Has(net[Srv], "LogInReq")
      /\ Lone(net[Srv], "LogInReq") => Lone(net'[Srv], "LogInReq")
      /\ Has(net'[Srv], "OpenRsp") => Has(net[Srv], "OpenRsp")
  BY DEF QuietStep, Less, AtSrvNet
<1>2. /\ Has(wq'[Srv], "LogInReq") => Has(wq[Srv], "LogInReq")
      /\ Lone(wq[Srv], "LogInReq") => Lone(wq'[Srv], "LogInReq")
      /\ Has(wq'[Srv], "Mdt") => Has(wq[Srv], "Mdt")
      /\ Has(wq'[Srv], "Open") => Has(wq[Srv], "Open")
  BY DEF QuietStep, Less, AtSrvW
<1>3. /\ Has(net'[Cli], "LogInRsp") => Has(net[Cli], "LogInRsp")
      /\ Lone(net[Cli], "LogInRsp") => Lone(net'[Cli], "LogInRsp")
      /\ Has(wq'[Cli], "LogInRsp") => Has(wq[Cli], "LogInRsp")
      /\ Lone(wq[Cli], "LogInRsp") => Lone(wq'[Cli], "LogInRsp")
      /\ FewerReqs(net[Cli], net'[Cli]) /\ FewerReqs(wq[Cli], wq'[Cli])
  BY DEF QuietStep, Less, AtCli
<1>4. OneLogIn'
  BY <1>1, <1>2, <1>3 DEF LogInInv, QuietStep, OneLogIn, Requested, Responded
<1>5. AfterAck'
  BY <1>1, <1>2 DEF LogInInv, QuietStep, AfterAck, SrvPastLogIn
<1>6. InitInOrder'
  <2>1. Requested' => Requested
    BY <1>1, <1>2 DEF Requested
  <2> QED BY <1>0, <1>3, <2>1 DEF LogInInv, QuietStep, InitInOrder, FewerReqs
<1> QED BY <1>4, <1>5, <1>6 DEF LogInInv

\* The numbers of items.
LEMMA IdsAreNats ==
  ASSUME NEW q \in Seq(Item) PROVE \A i \in 1..Len(q) : q[i].id \in Nat
<1>1. \A i \in 1..Len(q) : q[i] \in Item
  OBVIOUS
<1> QED BY <1>1 DEF Item

\* The request at the head is done: those behind it come later.
LEMMA HeadReq ==
  ASSUME NEW q \in Seq(Item), q # <<>>, IsReq(Head(q)), Rising(q),
         NEW n \in Nat, Within(q, n)
  PROVE  /\ Within(Tail(q), n + 1) /\ Head(q).id > n /\ Head(q).id \in Nat
         /\ \A p \in Seq(Item) : Ahead(q, p) /\ Within(p, n) => Within(p, n + 1)
         /\ n + 1 = NInit => NoReq(Tail(q))
<1> DEFINE r == Tail(q)
<1>1. /\ Len(q) \in Nat /\ 1 \in 1..Len(q) /\ r \in Seq(Item) /\ Len(r) = Len(q) - 1
      /\ Head(q) = q[1] /\ \A i \in 1..Len(q) - 1 : r[i] = q[i + 1]
  BY QueueShape, QueueElements
<1> HIDE DEF r
<1>2. \A i \in 1..Len(q) : q[i].id \in Nat
  BY IdsAreNats
<1>3. q[1].id > n /\ q[1].id \in Nat /\ IsReq(q[1])
  BY <1>1, <1>2 DEF Within
<1>4. ASSUME NEW i \in 1..Len(r), IsReq(r[i]) PROVE r[i].id > n + 1 /\ r[i].id <= NInit
  <2>1. i + 1 \in 1..Len(q) /\ r[i] = q[i + 1] /\ 1 < i + 1
    BY <1>1
  <2>2. q[i + 1].id > q[1].id /\ q[i + 1].id \in Nat /\ q[i + 1].id <= NInit
    BY <1>1, <1>2, <1>3, <1>4, <2>1 DEF Rising, Within
  <2> QED BY <1>3, <2>1, <2>2
<1>5. ASSUME NEW p \in Seq(Item), Ahead(q, p), Within(p, n) PROVE Within(p, n + 1)
  <2>1. \A j \in 1..Len(p) : p[j].id \in Nat
    BY IdsAreNats
  <2>2. \A j \in 1..Len(p) : IsReq(p[j]) => q[1].id < p[j].id
    BY <1>1, <1>3, <1>5 DEF Ahead
  <2> QED BY <1>3, <1>5, <2>1, <2>2 DEF Within
<1>6. n + 1 = NInit => NoReq(r)
  <2>1. NInit \in Nat /\ \A i \in 1..Len(r) : r[i].id \in Nat
    BY <1>1, NInitIsNat, IdsAreNats
  <2> QED BY <1>4, <2>1 DEF NoReq
<1> QED BY <1>1, <1>3, <1>4, <1>5, <1>6 DEF r, Within

\* The request at the head of p goes to the end of q.
LEMMA MovedReq ==
  ASSUME NEW q \in Seq(Item), NEW p \in Seq(Item), p # <<>>, NEW x \in Item,
         IsReq(Head(p)), x.id = Head(p).id, IsReq(x),
         Rising(q), Rising(p), Ahead(q, p), NEW n \in Nat, Within(q, n), Within(p, n)
  PROVE  /\ Rising(Append(q, x)) /\ Within(Append(q, x), n)
         /\ Ahead(Append(q, x), Tail(p)) /\ Rising(Tail(p)) /\ Within(Tail(p), n)
<1> DEFINE r == Append(q, x)
           t == Tail(p)
<1>1. /\ Len(p) \in Nat /\ 1 \in 1..Len(p) /\ Len(t) = Len(p) - 1
      /\ Head(p) = p[1] /\ \A i \in 1..Len(p) - 1 : t[i] = p[i + 1]
  BY QueueShape
<1>2. /\ Len(q) \in Nat /\ Len(r) = Len(q) + 1
      /\ \A i \in 1..Len(r) : \/ i \in 1..Len(q) /\ r[i] = q[i]
                              \/ i = Len(r) /\ r[i] = x
  OBVIOUS
<1> HIDE DEF r, t
<1>3. /\ \A i \in 1..Len(q) : q[i].id \in Nat
      /\ \A i \in 1..Len(p) : p[i].id \in Nat
  BY IdsAreNats
<1>4. \A i \in 1..Len(q) : IsReq(q[i]) => q[i].id < x.id
  BY <1>1 DEF Ahead
<1>5. Rising(r)
  <2>1. ASSUME NEW i \in 1..Len(r), NEW j \in 1..Len(r), i < j, IsReq(r[i]), IsReq(r[j])
        PROVE  r[i].id < r[j].id
    <3>1. i \in 1..Len(q) /\ r[i] = q[i]
      BY <1>2, <2>1
    <3>2. CASE j \in 1..Len(q) /\ r[j] = q[j]
      BY <2>1, <3>1, <3>2 DEF Rising
    <3>3. CASE r[j] = x
      BY <1>4, <2>1, <3>1, <3>3
    <3> QED BY <1>2, <3>2, <3>3
  <2> QED BY <2>1 DEF Rising
<1>6. x.id > n /\ x.id <= NInit
  BY <1>1 DEF Within
<1>7. Within(r, n)
  BY <1>2, <1>6 DEF Within
<1>8. \A j \in 1..Len(t) : IsReq(t[j]) => x.id < t[j].id
  <2>1. \A j \in 1..Len(t) : j + 1 \in 1..Len(p) /\ t[j] = p[j + 1] /\ 1 < j + 1
    BY <1>1
  <2> QED BY <1>1, <2>1 DEF Rising
<1>9. \A i \in 1..Len(q), j \in 1..Len(t) : IsReq(q[i]) /\ IsReq(t[j]) => q[i].id < t[j].id
  <2>1. \A j \in 1..Len(t) : j + 1 \in 1..Len(p) /\ t[j] = p[j + 1]
    BY <1>1
  <2> QED BY <2>1 DEF Ahead
<1>10. Ahead(r, t)
  BY <1>2, <1>8, <1>9 DEF Ahead
<1>11. Less(p, t, AtCli)
  BY LessWays DEF t
<1> QED BY <1>5, <1>7, <1>10, <1>11 DEF r, t, Less, FewerReqs, AtCli

\* Requests with the numbers of those in c follow a queue that has none.
LEMMA KeptReqs ==
  ASSUME NEW q \in Seq(Item), NoReq(q), NEW c \in Seq(Item), NEW ks \in Seq(Item),
         Len(ks) = Len(c), \A i \in 1..Len(c) : ks[i].id = c[i].id, AllReqs(c)
  PROVE  LET r == q \o ks IN
         /\ Rising(c) => Rising(r)
         /\ \A n \in Nat : Within(c, n) => Within(r, n)
         /\ \A p : Ahead(c, p) => Ahead(r, p)
<1> DEFINE r == q \o ks
<1>1. /\ Len(q) \in Nat /\ Len(ks) \in Nat /\ Len(r) = Len(q) + Len(ks)
      /\ \A i \in 1..Len(q) + Len(ks) : r[i] = IF i <= Len(q) THEN q[i] ELSE ks[i - Len(q)]
  BY QueueShape, Zenon
<1> HIDE DEF r
<1>2. ASSUME NEW i \in 1..Len(r), IsReq(r[i])
      PROVE  i - Len(q) \in 1..Len(c) /\ r[i].id = c[i - Len(q)].id /\ IsReq(c[i - Len(q)])
  <2>1. i > Len(q)
    BY <1>1, <1>2 DEF NoReq
  <2> QED BY <1>1, <2>1 DEF AllReqs
<1>3. ASSUME Rising(c), NEW i \in 1..Len(r), NEW j \in 1..Len(r), i < j,
             IsReq(r[i]), IsReq(r[j])
      PROVE  r[i].id < r[j].id
  <2>1. i - Len(q) < j - Len(q)
    BY <1>1, <1>3
  <2> QED BY <1>2, <1>3, <2>1 DEF Rising
<1>4. ASSUME NEW n \in Nat, Within(c, n) PROVE Within(r, n)
  BY <1>2, <1>4 DEF Within
<1>5. ASSUME NEW p, Ahead(c, p) PROVE Ahead(r, p)
  BY <1>2, <1>5 DEF Ahead
<1> QED BY <1>3, <1>4, <1>5 DEF r, Rising

\* The response and k requests for init-channels follow a queue that has neither.
LEMMA LogInMessages ==
  ASSUME NEW q \in Seq(Item), NEW k \in Nat, k <= NInit
  PROVE  LET ms == <<Plain("LogInRsp")>> \o InitReqs(k)
             r  == q \o ms
         IN  /\ ms \in Seq(Item)
             /\ NoReq(q) => Rising(r) /\ Within(r, 0)
             /\ ~Has(q, "LogInRsp") => Lone(r, "LogInRsp")
<1> DEFINE ms == <<Plain("LogInRsp")>> \o InitReqs(k)
           r == q \o ms
<1>1. /\ <<Plain("LogInRsp")>> \in Seq(Item) /\ InitReqs(k) \in Seq(Item)
      /\ Len(InitReqs(k)) = k /\ Len(<<Plain("LogInRsp")>>) = 1
      /\ <<Plain("LogInRsp")>>[1].type = "LogInRsp"
      /\ \A i \in 1..k : InitReqs(k)[i].type = "OpenReq" /\ InitReqs(k)[i].id = i
  <2>1. Plain("LogInRsp") \in Item /\ Plain("LogInRsp").type = "LogInRsp"
    BY PlainIsItem DEF TaskTypes, MsgTypes, Plain, New
  <2> QED BY <2>1, InitReqsAreTyped DEF InitReqs, InitReq, New
<1>2. /\ ms \in Seq(Item) /\ Len(ms) = k + 1 /\ ms[1].type = "LogInRsp"
      /\ \A i \in 2..k + 1 : ms[i].type = "OpenReq" /\ ms[i].id = i - 1
  <2>1. /\ Len(ms) = 1 + k
        /\ \A i \in 1..1 + k : ms[i] = IF i <= 1 THEN <<Plain("LogInRsp")>>[i]
                                                 ELSE InitReqs(k)[i - 1]
    <3> DEFINE a == <<Plain("LogInRsp")>>
               b == InitReqs(k)
    <3>1. /\ Len(a \o b) = Len(a) + Len(b)
          /\ \A i \in 1..Len(a) + Len(b) :
               (a \o b)[i] = IF i <= Len(a) THEN a[i] ELSE b[i - Len(a)]
      BY <1>1, QueueShape, Zenon
    <3>2. Len(a) = 1 /\ Len(b) = k /\ ms = a \o b
      BY <1>1
    <3> HIDE DEF ms, a, b
    <3>3. /\ Len(ms) = 1 + k
          /\ \A i \in 1..1 + k : ms[i] = IF i <= 1 THEN a[i] ELSE b[i - 1]
      BY <3>1, <3>2
    <3> QED BY <3>3 DEF a, b
  <2>2. ms \in Seq(Item)
    BY <1>1, QueueElements
  <2> HIDE DEF ms
  <2> QED BY <1>1, <2>1, <2>2
<1> HIDE DEF ms
<1>3. /\ Len(q) \in Nat /\ Len(ms) \in Nat /\ Len(r) = Len(q) + Len(ms)
      /\ \A i \in 1..Len(q) + Len(ms) : r[i] = IF i <= Len(q) THEN q[i] ELSE ms[i - Len(q)]
  BY <1>2, QueueShape, Zenon
<1> HIDE DEF r
<1>4. \A i \in 1..Len(r) :
        \/ i <= Len(q) /\ r[i] = q[i]
        \/ i = Len(q) + 1 /\ r[i].type = "LogInRsp"
        \/ /\ i > Len(q) + 1 /\ r[i].type = "OpenReq"
           /\ r[i].id = i - Len(q) - 1 /\ i - Len(q) - 1 \in 1..k
  <2> SUFFICES ASSUME NEW i \in 1..Len(r), ~(i <= Len(q)), i # Len(q) + 1
               PROVE  /\ i > Len(q) + 1 /\ r[i].type = "OpenReq"
                      /\ r[i].id = i - Len(q) - 1 /\ i - Len(q) - 1 \in 1..k
    BY <1>2, <1>3
  <2>1. /\ i > Len(q) + 1 /\ i - Len(q) - 1 \in 1..k /\ i - Len(q) \in 2..k + 1
        /\ (i - Len(q)) - 1 = i - Len(q) - 1
    BY <1>1, <1>2, <1>3
  <2>2. r[i] = ms[i - Len(q)]
    BY <1>3
  <2> QED BY <1>2, <2>1, <2>2
<1>5. ASSUME NoReq(q) PROVE Rising(r) /\ Within(r, 0)
  <2>1. \A i \in 1..Len(r) : IsReq(r[i]) => /\ r[i].id = i - Len(q) - 1
                                            /\ i - Len(q) - 1 \in 1..k
    BY <1>3, <1>4, <1>5 DEF NoReq, IsReq, ReqTypes
  <2>2. Rising(r)
    BY <1>3, <2>1 DEF Rising
  <2>3. Within(r, 0)
    BY <2>1, NInitIsNat DEF Within
  <2> QED BY <2>2, <2>3
<1>6. ~Has(q, "LogInRsp") => Lone(r, "LogInRsp")
  <2>1. ASSUME ~Has(q, "LogInRsp"), NEW i \in 1..Len(r), r[i].type = "LogInRsp"
        PROVE  i = Len(q) + 1
    BY <1>3, <1>4, <2>1 DEF Has
  <2> QED BY <2>1 DEF Lone
<1> QED BY <1>2, <1>5, <1>6 DEF r, ms

\* A task of a type that comes once is done.
LEMMA TailAlone ==
  ASSUME NEW q \in Seq(Item), q # <<>>, Lone(q, Head(q).type)
  PROVE  ~Has(Tail(q), Head(q).type)
<1>1. /\ Len(q) \in Nat /\ 1 \in 1..Len(q) /\ Len(Tail(q)) = Len(q) - 1
      /\ Head(q) = q[1] /\ \A i \in 1..Len(q) - 1 : Tail(q)[i] = q[i + 1]
  BY QueueShape
<1>2. \A i \in 1..Len(Tail(q)) : i + 1 \in 1..Len(q) /\ Tail(q)[i] = q[i + 1] /\ i + 1 # 1
  BY <1>1
<1> QED BY <1>1, <1>2 DEF Lone, Has

LEMMA LogInIsInOrder ==
  ASSUME TypeOK, CliInv, LogInInv
  PROVE  LogInOrder
<1>0. Cli \in Sides /\ wq[Cli] \in Seq(Item) /\ Len(initChans) \in Nat /\ NInit \in Nat
  BY CliTypes, NInitIsNat DEF TypeOK, CliTypeOK
<1>1. Has(wq[Cli], "LogInRsp") => expects[Cli] = "none"
  BY DEF LogInInv, OneLogIn, Responded
<1>2. Ready(Cli, "LogInRsp") => ~Has(Tail(wq[Cli]), "LogInRsp")
  BY <1>0, ReadyHas, TailAlone DEF LogInInv, OneLogIn
<1>3. ASSUME Ready(Cli, "InitOpen"), Len(initChans) + 1 = NInit
      PROVE  ~Has(Tail(wq[Cli]), "InitOpen")
  <2>1. /\ wq[Cli] # <<>> /\ IsReq(Head(wq[Cli])) /\ expects[Cli] = "InitOpen"
    <3>1. /\ wq[Cli] # <<>> /\ Head(wq[Cli]).type = "InitOpen"
          /\ \A e : ReqsAre(wq[Cli], e) => e = "InitOpen"
      BY <1>0, <1>3, ReadyHas DEF ReqTypes
    <3> QED BY <3>1 DEF IsReq, ReqTypes, CliInv, ReqsExpected
  <2>2. Rising(wq[Cli]) /\ Within(wq[Cli], Len(initChans))
    BY <1>0, <1>3, <2>1 DEF LogInInv, InitInOrder
  <2>3. NoReq(Tail(wq[Cli]))
    BY <1>0, <1>3, <2>1, <2>2, HeadReq
  <2> QED BY <2>3 DEF NoReq, IsReq, ReqTypes, Has
<1> QED BY <1>1, <1>2, <1>3 DEF LogInOrder

\* The ways of W's queues.
LEMMA WqLess ==
  ASSUME TypeOK, NEW s \in Sides, NEW W
  PROVE  /\ UNCHANGED wq => Less(wq[s], wq'[s], W)
         /\ \A r \in Sides : wq' = [wq EXCEPT ![r] = <<>>] => Less(wq[s], wq'[s], W)
         /\ \A r \in Sides : wq[r] # <<>> /\ Done(r) => Less(wq[s], wq'[s], W)
         /\ \A r \in Sides : \A t : Ready(r, t) /\ Done(r) => Less(wq[s], wq'[s], W)
         /\ \A r \in Sides, x \in Item :
              Post(r, x) /\ (r = s => x.type \notin W) => Less(wq[s], wq'[s], W)
         /\ \A r \in Sides, ms \in Seq(Item) : \A t :
              /\ Ready(r, t) /\ DoneThen(r, ms)
              /\ r = s => \A i \in 1..Len(ms) : ms[i].type \notin W
              => Less(wq[s], wq'[s], W)
<1>0. wq \in [Sides -> Seq(Item)] /\ wq[s] \in Seq(Item) /\ Less(wq[s], wq[s], W)
  BY LessWays DEF TypeOK, BaseTypeOK, ThreadTypeOK
<1>1. ASSUME NEW r \in Sides, wq' = [wq EXCEPT ![r] = <<>>] PROVE Less(wq[s], wq'[s], W)
  BY <1>0, <1>1, LessWays
<1>2. ASSUME NEW r \in Sides, wq[r] # <<>>, Done(r) PROVE Less(wq[s], wq'[s], W)
  <2>1. wq'[s] = IF r = s THEN Tail(wq[s]) ELSE wq[s]
    BY <1>0, <1>2 DEF Done
  <2> QED BY <1>0, <1>2, <2>1, LessWays
<1>3. ASSUME NEW r \in Sides, NEW x \in Item, Post(r, x), r = s => x.type \notin W
      PROVE  Less(wq[s], wq'[s], W)
  <2>1. wq'[s] = IF r = s THEN Append(wq[s], x) ELSE wq[s]
    BY <1>0, <1>3 DEF Post
  <2> QED BY <1>0, <1>3, <2>1, LessWays
<1>4. ASSUME NEW r \in Sides, NEW ms \in Seq(Item), NEW t, Ready(r, t), DoneThen(r, ms),
             r = s => \A i \in 1..Len(ms) : ms[i].type \notin W
      PROVE  Less(wq[s], wq'[s], W)
  <2>1. wq'[s] = IF r = s THEN Tail(wq[s]) \o ms ELSE wq[s]
    BY <1>0, <1>4 DEF DoneThen
  <2>2. CASE r = s
    <3>1. wq[s] # <<>> /\ wq'[s] = Tail(wq[s]) \o ms /\ \A i \in 1..Len(ms) : ms[i].type \notin W
      BY <1>4, <2>1, <2>2 DEF Ready
    <3> QED BY <1>0, <3>1, LessWays
  <2> QED BY <1>0, <2>1, <2>2
<1>5. ASSUME NEW r \in Sides, NEW t, Ready(r, t), Done(r) PROVE Less(wq[s], wq'[s], W)
  BY <1>2, <1>5 DEF Ready
<1> QED BY <1>0, <1>1, <1>2, <1>3, <1>4, <1>5

\* The ways of the messages.
LEMMA NetLess ==
  ASSUME TypeOK, NEW s \in Sides, NEW W
  PROVE  /\ UNCHANGED net => Less(net[s], net'[s], W)
         /\ \A r \in Sides : net' = [net EXCEPT ![r] = <<>>] => Less(net[s], net'[s], W)
         /\ \A r \in Sides : \A t : Arrives(r, t) => Less(net[s], net'[s], W)
         /\ \A r \in Sides, x \in Item : \A out :
              Send(r, <<x>>, out) /\ (r # s => x.type \notin W) => Less(net[s], net'[s], W)
<1>0. net \in [Sides -> Seq(Item)] /\ net[s] \in Seq(Item) /\ Less(net[s], net[s], W)
  BY LessWays DEF TypeOK, BaseTypeOK, ChanTypeOK
<1>1. ASSUME NEW r \in Sides, net' = [net EXCEPT ![r] = <<>>] PROVE Less(net[s], net'[s], W)
  BY <1>0, <1>1, LessWays
<1>2. ASSUME NEW r \in Sides, NEW t, Arrives(r, t) PROVE Less(net[s], net'[s], W)
  <2>1. net'[s] = (IF r = s THEN Tail(net[s]) ELSE net[s]) /\ net[r] # <<>>
    BY <1>0, <1>2 DEF Arrives
  <2> QED BY <1>0, <2>1, LessWays
<1>3. ASSUME NEW r \in Sides, NEW x \in Item, NEW out, Send(r, <<x>>, out),
             r # s => x.type \notin W
      PROVE  Less(net[s], net'[s], W)
  <2>1. net' = net \/ net' = [net EXCEPT ![Peer(r)] = net[Peer(r)] \o <<x>>]
    BY <1>3 DEF Send
  <2>2. CASE net' = [net EXCEPT ![Peer(r)] = net[Peer(r)] \o <<x>>] /\ Peer(r) = s
    <3>1. net'[s] = net[s] \o <<x>> /\ x.type \notin W
      BY <1>0, <1>3, <2>2, PeerOfPeer
    <3>2. net'[s] = Append(net[s], x)
      BY <1>0, <3>1, OneMore
    <3> QED BY <1>0, <3>1, <3>2, LessWays
  <2>3. CASE net' = [net EXCEPT ![Peer(r)] = net[Peer(r)] \o <<x>>] /\ Peer(r) # s
    BY <1>0, <2>3
  <2> QED BY <1>0, <2>1, <2>2, <2>3
<1> QED BY <1>0, <1>1, <1>2, <1>3

-----------------------------------------------------------------------------
(* Steps in which the log-in does not go on.                                *)

\* All four queues, quiet.
LEMMA QuietQueues ==
  ASSUME TypeOK, LogInInv,
         \A W : Less(net[Srv], net'[Srv], W) /\ Less(net[Cli], net'[Cli], W),
         Less(wq[Srv], wq'[Srv], AtSrvW), Less(wq[Cli], wq'[Cli], AtCli),
         UNCHANGED <<expects[Cli], cacheOpen[Cli], initChans>>,
         login' = "ok" => login = "ok", mdt' # "none" => mdt # "none"
  PROVE  LogInInv'
BY QuietKeepsLogIn DEF QuietStep

\* The log-in is over, or there are no init-channels; no log-in message comes in.
LEMMA PastKeepsLogIn ==
  ASSUME TypeOK, LogInInv, NInit = 0 \/ expects'[Cli] = "OpenReq",
         expects'[Cli] = expects[Cli],
         Less(net[Srv], net'[Srv], {"LogInReq"}), Less(wq[Srv], wq'[Srv], {"LogInReq"}),
         Less(net[Cli], net'[Cli], {"LogInRsp"}), Less(wq[Cli], wq'[Cli], {"LogInRsp"})
  PROVE  LogInInv'
<1>1. /\ Has(net'[Srv], "LogInReq") => Has(net[Srv], "LogInReq")
      /\ Lone(net[Srv], "LogInReq") => Lone(net'[Srv], "LogInReq")
      /\ Has(wq'[Srv], "LogInReq") => Has(wq[Srv], "LogInReq")
      /\ Lone(wq[Srv], "LogInReq") => Lone(wq'[Srv], "LogInReq")
      /\ Has(net'[Cli], "LogInRsp") => Has(net[Cli], "LogInRsp")
      /\ Lone(net[Cli], "LogInRsp") => Lone(net'[Cli], "LogInRsp")
      /\ Has(wq'[Cli], "LogInRsp") => Has(wq[Cli], "LogInRsp")
      /\ Lone(wq[Cli], "LogInRsp") => Lone(wq'[Cli], "LogInRsp")
  BY DEF Less
<1>2. OneLogIn'
  BY <1>1 DEF LogInInv, OneLogIn, Requested, Responded
<1> QED BY <1>2, NInitIsNat DEF LogInInv, InitInOrder, AfterAck

\* The client's tasks outside the log-in.
QuietCliTask ==
  \/ Client(ConnectRefused) \/ Client(ConnectFails) \/ Client(LogInRspBad)
  \/ Client(CompleteOk) \/ Client(CompleteBad) \/ Client(CompleteTooLate)
  \/ Client(CliErrStale) \/ Client(CliErrConnecting) \/ Client(CliErrPeer)
  \/ Client(CliToken)
  \/ Client(OnDoneOk) \/ Client(OnDoneToConnecting) \/ Client(OnDoneToNull)

LEMMA QuietCliTaskLogIn ==
  ASSUME TypeOK, LogInInv, QuietCliTask
  PROVE  LogInInv'
<1>0. Cli \in Sides /\ Srv \in Sides
  BY CliTypes
<1>1. UNCHANGED <<expects, cacheOpen, initChans, login, mdt>>
  BY DEF QuietCliTask, Client, ConnectRefused, ConnectFails, LogInRspBad, CompleteOk,
     CompleteBad, CompleteTooLate, CliErrStale, CliErrConnecting, CliErrPeer, CliToken,
     OnDoneOk, OnDoneToConnecting, OnDoneToNull, ConnectBreaks, chanVars, cliVars, srvVars
<1>2. UNCHANGED net \/ net' = [net EXCEPT ![Cli] = <<>>]
  BY DEF QuietCliTask, Client, ConnectRefused, ConnectFails, LogInRspBad, CompleteOk,
     CompleteBad, CompleteTooLate, CliErrStale, CliErrConnecting, CliErrPeer, CliToken,
     OnDoneOk, OnDoneToConnecting, OnDoneToNull, ConnectBreaks, DropChannel, chanVars
<1>3. \/ UNCHANGED wq
      \/ \E t : /\ Ready(Cli, t)
                /\ \/ Done(Cli)
                   \/ DoneThen(Cli, <<>> \o <<>>)
                   \/ DoneThen(Cli, <<>> \o <<Plain("Fin")>>)
  BY DEF QuietCliTask, Client, ConnectRefused, ConnectFails, LogInRspBad, CompleteOk,
     CompleteBad, CompleteTooLate, CliErrStale, CliErrConnecting, CliErrPeer, CliToken,
     OnDoneOk, OnDoneToConnecting, OnDoneToNull, ConnectBreaks, EmplaceFinisher
<1> DEFINE fin == <<Plain("Fin")>>
<1>4. /\ <<>> \in Seq(Item) /\ <<>> \o <<>> = <<>> /\ <<>> \o fin = fin
      /\ fin \in Seq(Item) /\ \A i \in 1..Len(fin) : fin[i].type = "Fin"
      /\ Len(<<>>) = 0
  <2>1. Plain("Fin") \in Item /\ Plain("Fin").type = "Fin"
    BY PlainIsItem DEF TaskTypes, MsgTypes, Plain, New
  <2> QED BY <2>1
<1> HIDE DEF fin
<1>5. \/ UNCHANGED wq
      \/ \E t : Ready(Cli, t) /\ (Done(Cli) \/ DoneThen(Cli, <<>>) \/ DoneThen(Cli, fin))
  BY <1>3, <1>4 DEF fin
<1>6. Less(wq[Srv], wq'[Srv], AtSrvW) /\ Less(wq[Cli], wq'[Cli], AtCli)
  <2>1. /\ \A i \in 1..Len(fin) : fin[i].type \notin AtSrvW /\ fin[i].type \notin AtCli
        /\ \A i \in 1..Len(<<>>) : FALSE
    BY <1>4 DEF AtSrvW, AtCli, ReqTypes
  <2> QED BY <1>0, <1>4, <1>5, <2>1, WqLess
<1>7. \A W : Less(net[Srv], net'[Srv], W) /\ Less(net[Cli], net'[Cli], W)
  BY <1>0, <1>2, NetLess
<1> QED BY <1>1, <1>6, <1>7, QuietQueues

\* The tasks both sides have.
LEMMA SharedTaskLogIn ==
  ASSUME TypeOK, CliInv, LogInInv, NEW s \in Sides, SharedTask(s)
  PROVE  LogInInv'
<1>0. Cli \in Sides /\ Srv \in Sides /\ Cli # Srv
  BY CliTypes
<1>1. UNCHANGED <<expects, cacheOpen, initChans, login, mdt>>
  BY DEF SharedTask, Common, Open, OnOpenReq, OnPassiveOpen, OnFin, DtorBegin, DtorFin,
     DtorFlush, chanVars, cliVars, srvVars
<1>2. \A W : Less(wq[Srv], wq'[Srv], W) /\ Less(wq[Cli], wq'[Cli], W)
  <2>1. UNCHANGED wq \/ (wq[s] # <<>> /\ Done(s))
    BY DEF SharedTask, Common, Open, OnOpenReq, OnPassiveOpen, OnFin, DtorBegin, DtorFin,
       DtorFlush, Ready, Giving
  <2> QED BY <1>0, <2>1, WqLess
<1>3. CASE Common(OnFin(s)) \/ Common(DtorBegin(s)) \/ Common(DtorFin(s)) \/ Common(DtorFlush(s))
  <2>1. UNCHANGED net \/ \E out : Send(s, <<Plain("Fin")>>, out)
    BY <1>3 DEF Common, OnFin, DtorBegin, DtorFin, DtorFlush, chanVars
  <2>2. Plain("Fin") \in Item /\ Plain("Fin").type = "Fin"
    BY PlainIsItem DEF TaskTypes, MsgTypes, Plain, New
  <2>3. Less(net[Srv], net'[Srv], AtSrvNet) /\ Less(net[Cli], net'[Cli], AtCli)
    BY <1>0, <2>1, <2>2, NetLess DEF AtSrvNet, AtCli, ReqTypes
  <2> QED BY <1>1, <1>2, <2>3, QuietKeepsLogIn DEF QuietStep
<1>4. CASE Common(Open(s))
  <2> DEFINE m == New("OpenReq", opens[s] + 1, "user")
  <2>1. Ready(s, "Open") /\ (UNCHANGED net \/ \E out : Send(s, <<m>>, out))
    BY <1>4 DEF Common, Open
  <2>2. m \in Item /\ m.type = "OpenReq"
    <3>1. opens[s] + 1 \in Nat
      BY DEF TypeOK, BaseTypeOK, PeerTypeOK
    <3> QED BY <3>1, NewIsItem DEF TaskTypes, MsgTypes, Notes, New
  <2> HIDE DEF m
  <2>3. CASE s = Cli
    <3>1. Less(net[Srv], net'[Srv], AtSrvNet) /\ Less(net[Cli], net'[Cli], AtCli)
      BY <1>0, <2>1, <2>2, <2>3, NetLess DEF AtSrvNet
    <3> QED BY <1>1, <1>2, <3>1, QuietKeepsLogIn DEF QuietStep
  <2>4. CASE s = Srv
    <3>1. NInit = 0 \/ expects'[Cli] = "OpenReq"
      BY <1>1, <2>1, <2>4, ReadyHas, NInitIsNat DEF LogInInv, AfterAck, SrvPastLogIn
    <3>2. Less(net[Srv], net'[Srv], {"LogInReq"}) /\ Less(net[Cli], net'[Cli], {"LogInRsp"})
      BY <1>0, <2>1, <2>2, <2>4, NetLess
    <3> QED BY <1>1, <1>2, <3>1, <3>2, PastKeepsLogIn
  <2> QED BY <2>3, <2>4, PeerOfPeer
<1>5. CASE Common(OnOpenReq(s))
  <2>1. /\ Ready(s, "OpenReq")
        /\ \/ UNCHANGED net
           \/ \E v \in Verdicts(s) : \E out : Send(s, <<New("OpenRsp", Task(s).id, v)>>, out)
    BY <1>5 DEF Common, OnOpenReq
  <2>2. UNCHANGED net \/ \E m \in Item : \E out : Send(s, <<m>>, out) /\ m.type = "OpenRsp"
    <3>1. Task(s).id \in Nat /\ Verdicts(s) \subseteq Notes
      BY <2>1, TaskIsItem DEF TypeOK, BaseTypeOK, Verdicts, Notes
    <3>2. \A v \in Verdicts(s) : /\ New("OpenRsp", Task(s).id, v) \in Item
                                 /\ New("OpenRsp", Task(s).id, v).type = "OpenRsp"
      BY <3>1, NewIsItem DEF TaskTypes, MsgTypes, New
    <3> QED BY <2>1, <3>2
  <2>3. CASE s = Srv
    <3>1. Less(net[Srv], net'[Srv], AtSrvNet) /\ Less(net[Cli], net'[Cli], AtCli)
      BY <1>0, <2>2, <2>3, NetLess DEF AtCli, ReqTypes
    <3> QED BY <1>1, <1>2, <3>1, QuietKeepsLogIn DEF QuietStep
  <2>4. CASE s = Cli
    <3>1. expects'[Cli] = "OpenReq"
      <4>1. \A e : ReqsAre(wq[Cli], e) => e = "OpenReq"
        BY <2>1, <2>4, ReadyHas DEF ReqTypes
      <4> QED BY <1>1, <4>1 DEF CliInv, ReqsExpected
    <3>2. Less(net[Srv], net'[Srv], {"LogInReq"}) /\ Less(net[Cli], net'[Cli], {"LogInRsp"})
      BY <1>0, <2>2, <2>4, NetLess
    <3> QED BY <1>1, <1>2, <3>1, <3>2, PastKeepsLogIn
  <2> QED BY <2>3, <2>4, PeerOfPeer
<1>6. CASE Common(OnPassiveOpen(s))
  <2>1. UNCHANGED net
    BY <1>6 DEF Common, OnPassiveOpen, chanVars
  <2>2. \A W : Less(net[Srv], net'[Srv], W) /\ Less(net[Cli], net'[Cli], W)
    BY <1>0, <2>1, NetLess
  <2> QED BY <1>1, <1>2, <2>2, QuietQueues
<1> QED BY <1>3, <1>4, <1>5, <1>6 DEF SharedTask

-----------------------------------------------------------------------------
(* Steps of the log-in.                                                     *)

\* Queues of one element at most.
LEMMA FewElements ==
  /\ NoReq(<<>>) /\ Rising(<<>>) /\ AllReqs(<<>>) /\ \A n : Within(<<>>, n)
  /\ \A p : Ahead(<<>>, p) /\ Ahead(p, <<>>)
  /\ \A t : ~Has(<<>>, t) /\ Lone(<<>>, t)
  /\ \A x, t : Lone(<<x>>, t) /\ (x.type # t => ~Has(<<x>>, t))
  /\ \A x : ~IsReq(x) => /\ NoReq(<<x>>) /\ Rising(<<x>>) /\ \A n : Within(<<x>>, n)
                         /\ \A p : Ahead(<<x>>, p) /\ Ahead(p, <<x>>)
<1>1. Len(<<>>) = 0 /\ \A x : Len(<<x>>) = 1 /\ <<x>>[1] = x
  OBVIOUS
<1>2. /\ NoReq(<<>>) /\ Rising(<<>>) /\ AllReqs(<<>>) /\ \A n : Within(<<>>, n)
      /\ \A p : Ahead(<<>>, p) /\ Ahead(p, <<>>)
      /\ \A t : ~Has(<<>>, t) /\ Lone(<<>>, t)
  BY <1>1 DEF NoReq, Rising, AllReqs, Within, Ahead, Has, Lone
<1>3. ASSUME NEW x, NEW t PROVE Lone(<<x>>, t) /\ (x.type # t => ~Has(<<x>>, t))
  <2> DEFINE q == <<x>>
  <2>1. \A k \in 1..Len(q) : k = 1 /\ q[k] = x
    BY <1>1
  <2> HIDE DEF q
  <2>2. Lone(q, t) /\ (x.type # t => ~Has(q, t))
    BY <2>1 DEF Lone, Has
  <2> QED BY <2>2 DEF q
<1>4. ASSUME NEW x, ~IsReq(x)
      PROVE  /\ NoReq(<<x>>) /\ Rising(<<x>>) /\ \A n : Within(<<x>>, n)
             /\ \A p : Ahead(<<x>>, p) /\ Ahead(p, <<x>>)
  <2> DEFINE q == <<x>>
  <2>1. \A k \in 1..Len(q) : ~IsReq(q[k])
    BY <1>1, <1>4
  <2> HIDE DEF q
  <2>2. /\ NoReq(q) /\ Rising(q) /\ \A n : Within(q, n)
        /\ \A p : Ahead(q, p) /\ Ahead(p, q)
    BY <2>1 DEF NoReq, Rising, Within, Ahead
  <2> QED BY <2>2 DEF q
<1> QED BY <1>2, <1>3, <1>4

\* A new connection.
LEMMA ConnectLogIn ==
  ASSUME TypeOK, CliInv, ConnectReaches, NewServerSession
  PROVE  LogInInv'
<1>0. Cli \in Sides /\ Srv \in Sides /\ Cli # Srv
  BY CliTypes
<1>1. Tail(wq[Cli]) = <<>>
  <2>1. /\ wq[Cli] \in Seq(Item) /\ wq[Cli] # <<>> /\ Head(wq[Cli]).type = "Connect"
        /\ cstate = "NULL"
    BY <1>0, ReadyHas DEF ConnectReaches
  <2> QED BY <2>1, TailKeeps DEF CliInv, NullIsClean
<1>2. PICK out \in SendOutcomes :
        /\ net' = [net EXCEPT ![Cli] = <<>>, ![Srv] =
                     IF out = "ok" THEN <<Plain("LogInReq")>> ELSE <<>>]
        /\ wq' = [wq EXCEPT ![Cli] = IF out = "false" THEN Append(Tail(@), Plain("Err"))
                                                      ELSE Tail(@),
                            ![Srv] = <<Plain("AcceptLogIn")>>]
  BY DEF ConnectReaches, SendOutcomes
<1>3. /\ net'[Cli] = <<>> /\ net'[Srv] \in {<<>>, <<Plain("LogInReq")>>}
      /\ wq'[Srv] = <<Plain("AcceptLogIn")>> /\ wq'[Cli] \in {<<>>, <<Plain("Err")>>}
  <2>1. Append(<<>>, Plain("Err")) = <<Plain("Err")>>
    OBVIOUS
  <2>2. wq'[Cli] = (IF out = "false" THEN Append(<<>>, Plain("Err")) ELSE <<>>)
        /\ wq'[Srv] = <<Plain("AcceptLogIn")>>
    BY <1>0, <1>1, <1>2, CliTypes
  <2>3. net'[Cli] = <<>> /\ net'[Srv] \in {<<>>, <<Plain("LogInReq")>>}
    BY <1>0, <1>2, CliTypes
  <2> QED BY <2>1, <2>2, <2>3
<1>4. /\ expects'[Cli] = "none" /\ cacheOpen'[Cli] = <<>>
      /\ login' = "outstanding" /\ mdt' = "none"
  BY <1>0 DEF ConnectReaches, NewServerSession
<1>5. /\ Plain("LogInReq").type = "LogInReq" /\ Plain("Err").type = "Err"
      /\ Plain("AcceptLogIn").type = "AcceptLogIn" /\ ~IsReq(Plain("Err"))
  BY DEF Plain, New, IsReq, ReqTypes
<1>6. /\ Lone(net'[Srv], "LogInReq") /\ ~Has(net'[Srv], "OpenRsp")
      /\ \A t : ~Has(net'[Cli], t)
      /\ ~Has(wq'[Srv], "LogInReq") /\ ~Has(wq'[Srv], "Mdt") /\ ~Has(wq'[Srv], "Open")
      /\ ~Has(wq'[Cli], "LogInRsp")
  BY <1>3, <1>5, FewElements
<1>7. OneLogIn'
  BY <1>4, <1>6 DEF OneLogIn, Requested, Responded, Has, Lone
<1>8. AfterAck'
  BY <1>4, <1>6 DEF AfterAck, SrvPastLogIn
<1>9. InitInOrder'
  BY <1>3, <1>4, <1>5, FewElements DEF InitInOrder
<1> QED BY <1>7, <1>8, <1>9 DEF LogInInv

\* The response is being handled: it is nowhere else, and nothing is expected.
LEMMA RspGone ==
  ASSUME TypeOK, CliInv, LogInInv, Ready(Cli, "LogInRsp")
  PROVE  /\ ~Requested /\ ~Has(net[Cli], "LogInRsp") /\ ~Has(Tail(wq[Cli]), "LogInRsp")
         /\ expects[Cli] = "none" /\ NoReq(Tail(wq[Cli])) /\ Tail(wq[Cli]) \in Seq(Item)
         /\ NInit > 0 => ~SrvPastLogIn
<1>1. /\ wq[Cli] \in Seq(Item) /\ wq[Cli] # <<>> /\ Head(wq[Cli]).type = "LogInRsp"
      /\ Has(wq[Cli], "LogInRsp")
  BY CliTypes, ReadyHas
<1>2. /\ ~Requested /\ ~Has(net[Cli], "LogInRsp") /\ expects[Cli] = "none"
      /\ NInit > 0 => ~SrvPastLogIn
  BY <1>1 DEF LogInInv, OneLogIn, Responded, AfterAck
<1>3. ~Has(Tail(wq[Cli]), "LogInRsp")
  BY <1>1, TailAlone DEF LogInInv, OneLogIn
<1>4. NoReq(wq[Cli])
  BY <1>2 DEF CliInv, ReqsExpected, ReqsAre, NoReq, IsReq, ReqTypes
<1>5. NoReq(Tail(wq[Cli])) /\ Tail(wq[Cli]) \in Seq(Item)
  BY <1>1, <1>4, LessWays, TailKeeps DEF Less, FewerReqs
<1> QED BY <1>2, <1>3, <1>5

\* The tasks kept for the handler e follow what is left in the client's queue.
LEMMA KeptFollow ==
  ASSUME TypeOK, NEW t, Ready(Cli, t), NEW e \in ReqTypes, DoneThen(Cli, Kept(Cli, e))
  PROVE  /\ Kept(Cli, e) \in Seq(Item) /\ Len(Kept(Cli, e)) = Len(cacheOpen[Cli])
         /\ \A i \in 1..Len(cacheOpen[Cli]) : Kept(Cli, e)[i].id = cacheOpen[Cli][i].id
         /\ \A i \in 1..Len(Kept(Cli, e)) : Kept(Cli, e)[i].type = e
         /\ wq'[Cli] = Tail(wq[Cli]) \o Kept(Cli, e) /\ wq'[Srv] = wq[Srv]
         /\ Less(Tail(wq[Cli]), wq'[Cli], {"LogInRsp"})
<1> DEFINE ks == Kept(Cli, e)
<1>0. /\ Cli \in Sides /\ Srv \in Sides /\ Cli # Srv /\ DOMAIN wq = Sides
      /\ cacheOpen[Cli] \in Seq(Item)
  BY CliTypes
<1>1. ks \in Seq(Item) /\ Len(ks) = Len(cacheOpen[Cli])
  BY <1>0, KeptIsTyped DEF TypeOK, BaseTypeOK, ReqTypes, TaskTypes, MsgTypes, Kept
<1>2. \A i \in 1..Len(cacheOpen[Cli]) : ks[i].id = cacheOpen[Cli][i].id /\ ks[i].type = e
  <2>1. \A i \in 1..Len(cacheOpen[Cli]) : cacheOpen[Cli][i] \in Item
    BY <1>0
  <2> QED BY <2>1 DEF Kept, Item
<1>3. wq'[Cli] = Tail(wq[Cli]) \o ks /\ wq'[Srv] = wq[Srv]
  BY <1>0 DEF DoneThen
<1>4. Tail(wq[Cli]) \in Seq(Item)
  BY <1>0, ReadyHas, TailKeeps
<1> HIDE DEF ks
<1>5. \A i \in 1..Len(ks) : ks[i].type \notin {"LogInRsp"}
  BY <1>1, <1>2 DEF ReqTypes
<1>6. Less(Tail(wq[Cli]), Tail(wq[Cli]) \o ks, {"LogInRsp"})
  BY <1>1, <1>4, <1>5, LessWays
<1> QED BY <1>1, <1>2, <1>3, <1>6 DEF ks

\* The response, with no init-channels to await.
LEMMA LogInRspOkLogIn ==
  ASSUME TypeOK, CliInv, LogInInv, Client(LogInRspOk)
  PROVE  LogInInv'
<1>0. /\ Cli \in Sides /\ Srv \in Sides /\ Ready(Cli, "LogInRsp") /\ NInit = 0
      /\ UNCHANGED net
  BY CliTypes DEF Client, LogInRspOk
<1>1. \/ Done(Cli) /\ UNCHANGED expects
      \/ DoneThen(Cli, Kept(Cli, "OpenReq"))
  BY DEF Client, LogInRspOk, ExpectOpenReqs
<1>3. ~Has(wq'[Cli], "LogInRsp") /\ wq'[Srv] = wq[Srv]
  <2>1. ~Has(Tail(wq[Cli]), "LogInRsp")
    BY <1>0, RspGone
  <2>2. CASE Done(Cli)
    BY <2>1, <2>2, CliTypes DEF Done
  <2>3. CASE DoneThen(Cli, Kept(Cli, "OpenReq"))
    BY <1>0, <2>1, <2>3, KeptFollow DEF Less, ReqTypes
  <2> QED BY <1>1, <2>2, <2>3
<1>4. OneLogIn'
  <2>1. ~Requested /\ ~Has(net[Cli], "LogInRsp")
    BY <1>0, RspGone
  <2>2. /\ ~Has(net'[Srv], "LogInReq") /\ ~Has(wq'[Srv], "LogInReq")
        /\ ~Has(net'[Cli], "LogInRsp")
    BY <1>0, <1>3, <2>1 DEF Requested
  <2> QED BY <1>3, <2>2 DEF OneLogIn, Requested, Responded, Has, Lone
<1> QED BY <1>0, <1>4 DEF LogInInv, InitInOrder, AfterAck

\* The response: from now on the init-channels are collected.
LEMMA AwaitInitLogIn ==
  ASSUME TypeOK, CliInv, LogInInv, Client(LogInRspAwaitInit)
  PROVE  LogInInv'
<1>0. /\ Cli \in Sides /\ Srv \in Sides /\ Cli # Srv /\ Ready(Cli, "LogInRsp") /\ NInit > 0
      /\ UNCHANGED <<net, initChans, login, mdt>>
      /\ cacheOpen[Cli] \in Seq(Item) /\ Len(initChans) \in Nat
  BY CliTypes DEF Client, LogInRspAwaitInit, cliVars, srvVars, TypeOK, CliTypeOK
<1>1. /\ ~Requested /\ ~Has(net[Cli], "LogInRsp") /\ ~Has(Tail(wq[Cli]), "LogInRsp")
      /\ expects[Cli] = "none" /\ NoReq(Tail(wq[Cli])) /\ Tail(wq[Cli]) \in Seq(Item)
      /\ ~SrvPastLogIn
  BY <1>0, RspGone
<1>2. CASE chErr[Cli]
  <2>1. \E t : Ready(Cli, t) /\ Done(Cli)
    BY <1>0, <1>2 DEF Client, LogInRspAwaitInit
  <2>2. UNCHANGED <<expects, cacheOpen>>
    BY <1>2 DEF Client, LogInRspAwaitInit
  <2>3. Less(wq[Srv], wq'[Srv], AtSrvW) /\ Less(wq[Cli], wq'[Cli], AtCli)
    BY <1>0, <2>1, WqLess
  <2>4. \A W : Less(net[Srv], net'[Srv], W) /\ Less(net[Cli], net'[Cli], W)
    BY <1>0, NetLess
  <2> QED BY <1>0, <2>2, <2>3, <2>4, QuietQueues
<1>3. CASE ~chErr[Cli]
  <2>1. /\ DoneThen(Cli, Kept(Cli, "InitOpen")) /\ "InitOpen" \in ReqTypes
        /\ expects'[Cli] = "InitOpen" /\ cacheOpen'[Cli] = <<>>
    BY <1>0, <1>3, CliTypes DEF Client, LogInRspAwaitInit, ExpectOpenReqs, ReqTypes
  <2> DEFINE ks == Kept(Cli, "InitOpen")
  <2>2. /\ ks \in Seq(Item) /\ Len(ks) = Len(cacheOpen[Cli])
        /\ \A i \in 1..Len(cacheOpen[Cli]) : ks[i].id = cacheOpen[Cli][i].id
        /\ wq'[Cli] = Tail(wq[Cli]) \o ks /\ wq'[Srv] = wq[Srv]
        /\ Less(Tail(wq[Cli]), wq'[Cli], {"LogInRsp"})
    BY <1>0, <2>1, KeptFollow
  <2> HIDE DEF ks
  <2>3. ~Has(wq'[Cli], "LogInRsp")
    BY <1>1, <2>2 DEF Less
  <2>4. OneLogIn'
    BY <1>0, <1>1, <2>2, <2>3 DEF OneLogIn, Requested, Responded, Has, Lone
  <2>5. AfterAck'
    BY <1>0, <1>1, <2>2 DEF AfterAck, SrvPastLogIn
  <2>6. /\ Rising(net[Cli]) /\ Rising(cacheOpen[Cli]) /\ AllReqs(cacheOpen[Cli])
        /\ Within(net[Cli], Len(initChans)) /\ Within(cacheOpen[Cli], Len(initChans))
        /\ Ahead(cacheOpen[Cli], net[Cli])
    BY <1>0, <1>1 DEF LogInInv, InitInOrder
  <2>7. /\ Rising(wq'[Cli]) /\ Within(wq'[Cli], Len(initChans)) /\ Ahead(wq'[Cli], net[Cli])
    <3> DEFINE q == Tail(wq[Cli])
               c == cacheOpen[Cli]
    <3>1. /\ q \in Seq(Item) /\ NoReq(q) /\ c \in Seq(Item) /\ Len(ks) = Len(c) /\ AllReqs(c)
          /\ ks \in Seq(Item) /\ \A i \in 1..Len(c) : ks[i].id = c[i].id
      BY <1>0, <1>1, <2>2, <2>6
    <3> HIDE DEF q, c
    <3>2. /\ Rising(c) => Rising(q \o ks)
          /\ \A n \in Nat : Within(c, n) => Within(q \o ks, n)
          /\ \A p : Ahead(c, p) => Ahead(q \o ks, p)
      BY <3>1, KeptReqs
    <3> QED BY <1>0, <2>2, <2>6, <3>2 DEF q, c
  <2>8. ~Requested'
    BY <1>0, <1>1, <2>2 DEF Requested
  <2>9. InitInOrder'
    BY <1>0, <2>1, <2>6, <2>7, <2>8, FewElements DEF InitInOrder
  <2> QED BY <2>4, <2>5, <2>9 DEF LogInInv
<1> QED BY <1>2, <1>3

\* An init-channel is collected that is not the last, or too late.
LEMMA CollectLogIn ==
  ASSUME TypeOK, CliInv, LogInInv, Client(InitOpenMore) \/ Client(InitOpenTooLate)
  PROVE  LogInInv'
<1>0. /\ Cli \in Sides /\ Srv \in Sides /\ Cli # Srv /\ Ready(Cli, "InitOpen") /\ Done(Cli)
      /\ UNCHANGED <<net, expects, cacheOpen, login, mdt>>
      /\ initChans \in Seq(Nat) /\ initChans' = Append(initChans, Task(Cli).id)
      /\ net[Cli] \in Seq(Item) /\ cacheOpen[Cli] \in Seq(Item) /\ NInit \in Nat
  BY CliTypes, NInitIsNat
     DEF Client, InitOpenMore, InitOpenTooLate, chanVars, cliVars, srvVars, TypeOK, CliTypeOK
<1>1. Len(initChans) \in Nat /\ Len(initChans') = Len(initChans) + 1
  BY <1>0
<1>2. /\ wq[Cli] \in Seq(Item) /\ wq[Cli] # <<>> /\ IsReq(Head(wq[Cli]))
      /\ expects[Cli] = "InitOpen" /\ cacheOpen[Cli] = <<>>
  <2>1. /\ wq[Cli] \in Seq(Item) /\ wq[Cli] # <<>> /\ Head(wq[Cli]).type = "InitOpen"
        /\ \A e : ReqsAre(wq[Cli], e) => e = "InitOpen"
    BY <1>0, ReadyHas DEF ReqTypes
  <2> QED BY <2>1 DEF IsReq, ReqTypes, CliInv, ReqsExpected
<1>3. NInit > 0
  BY <1>2 DEF CliInv, ReqsExpected
<1>4. wq'[Cli] = Tail(wq[Cli]) /\ wq'[Srv] = wq[Srv]
  BY <1>0, CliTypes DEF Done
<1>5. Less(wq[Cli], wq'[Cli], AtCli) /\ Less(wq[Srv], wq'[Srv], AtSrvW)
  BY <1>0, WqLess
<1>6. OneLogIn'
  BY <1>0, <1>4, <1>5 DEF LogInInv, OneLogIn, Requested, Responded, Less, AtCli
<1>7. AfterAck'
  BY <1>0, <1>4 DEF LogInInv, AfterAck, SrvPastLogIn
<1>8. ~Requested'
  BY <1>0, <1>2, <1>4 DEF LogInInv, OneLogIn, Requested
<1>9. /\ Rising(wq[Cli]) /\ Rising(net[Cli]) /\ Within(wq[Cli], Len(initChans))
      /\ Within(net[Cli], Len(initChans)) /\ Ahead(wq[Cli], net[Cli])
  BY <1>2, <1>3 DEF LogInInv, InitInOrder
<1>10. /\ Within(wq'[Cli], Len(initChans) + 1) /\ Within(net[Cli], Len(initChans) + 1)
  BY <1>0, <1>1, <1>2, <1>4, <1>9, HeadReq
<1>11. Rising(wq'[Cli]) /\ Ahead(wq'[Cli], net[Cli])
  BY <1>5, <1>9 DEF Less, AtCli, FewerReqs
<1>12. InitInOrder'
  BY <1>0, <1>1, <1>2, <1>8, <1>9, <1>10, <1>11, FewElements DEF InitInOrder
<1> QED BY <1>6, <1>7, <1>12 DEF LogInInv

\* The last init-channel: ordinary requests are expected from now on.
LEMMA LastInitLogIn ==
  ASSUME TypeOK, CliInv, LogInInv, Client(InitOpenLast)
  PROVE  LogInInv'
<1>0. /\ Cli \in Sides /\ Srv \in Sides /\ Cli # Srv /\ Ready(Cli, "InitOpen")
      /\ DoneThen(Cli, Kept(Cli, "OpenReq")) /\ expects'[Cli] = "OpenReq"
      /\ \E out \in SendOutcomes : Send(Cli, <<New("OpenRsp", Task(Cli).id, "init")>>, out)
  BY CliTypes DEF Client, InitOpenLast, ExpectOpenReqs
<1>1. expects[Cli] = "InitOpen"
  <2>1. \A e : ReqsAre(wq[Cli], e) => e = "InitOpen"
    BY <1>0, ReadyHas DEF ReqTypes
  <2> QED BY <2>1 DEF CliInv, ReqsExpected
<1>2. /\ ~Has(net[Srv], "LogInReq") /\ ~Has(wq[Srv], "LogInReq")
      /\ ~Has(net[Cli], "LogInRsp") /\ ~Has(wq[Cli], "LogInRsp")
  BY <1>1 DEF LogInInv, OneLogIn, Requested, Responded
<1>3. ~Has(wq'[Srv], "LogInReq") /\ ~Has(wq'[Cli], "LogInRsp")
  <2>1. wq'[Srv] = wq[Srv] /\ Less(Tail(wq[Cli]), wq'[Cli], {"LogInRsp"})
    BY <1>0, KeptFollow DEF ReqTypes
  <2>2. ~Has(Tail(wq[Cli]), "LogInRsp")
    BY <1>0, <1>2, ReadyHas, TailKeeps DEF Keeps
  <2> QED BY <1>2, <2>1, <2>2 DEF Less
<1>4. ~Has(net'[Srv], "LogInReq") /\ ~Has(net'[Cli], "LogInRsp")
  <2>1. /\ New("OpenRsp", Task(Cli).id, "init") \in Item
        /\ New("OpenRsp", Task(Cli).id, "init").type = "OpenRsp"
    BY <1>0, TaskIsItem, NewIsItem DEF TypeOK, BaseTypeOK, TaskTypes, MsgTypes, Notes, New
  <2> DEFINE m == New("OpenRsp", Task(Cli).id, "init")
  <2> HIDE DEF m
  <2>2. Less(net[Srv], net'[Srv], {"LogInReq"}) /\ Less(net[Cli], net'[Cli], {"LogInRsp"})
    <3>1. m \in Item /\ m.type = "OpenRsp" /\ \E out \in SendOutcomes : Send(Cli, <<m>>, out)
      BY <1>0, <2>1 DEF m
    <3> QED BY <1>0, <3>1, NetLess
  <2> QED BY <1>2, <2>2 DEF Less
<1>5. OneLogIn'
  BY <1>3, <1>4 DEF OneLogIn, Requested, Responded, Has, Lone
<1> QED BY <1>0, <1>5 DEF LogInInv, InitInOrder, AfterAck

\* The client's tasks.
LEMMA CliTaskLogIn ==
  ASSUME TypeOK, CliInv, LogInInv, CliTask
  PROVE  LogInInv'
BY QuietCliTaskLogIn, ConnectLogIn, LogInRspOkLogIn, AwaitInitLogIn, CollectLogIn, LastInitLogIn
   DEF CliTask, Connect, QuietCliTask

\* The request is handled: the response goes out, with k init-channels, or does not.
LEMMA RespondLogIn ==
  ASSUME TypeOK, CliInv, LogInInv, CliViewKept, Ready(Srv, "LogInReq"), Done(Srv),
         NEW k \in Nat, k <= NInit, net'[Srv] = net[Srv] \/ net'[Srv] = <<>>,
         \/ net'[Cli] = net[Cli]
         \/ net'[Cli] = net[Cli] \o (<<Plain("LogInRsp")>> \o InitReqs(k)),
         login' = "ok" => NInit = 0, mdt' = mdt
  PROVE  LogInInv'
<1> DEFINE ms == <<Plain("LogInRsp")>> \o InitReqs(k)
<1>0. /\ Cli \in Sides /\ Srv \in Sides /\ Cli # Srv /\ wq[Srv] \in Seq(Item)
      /\ wq[Srv] # <<>> /\ Head(wq[Srv]).type = "LogInReq" /\ Has(wq[Srv], "LogInReq")
      /\ net[Cli] \in Seq(Item) /\ NInit \in Nat
  BY CliTypes, ReadyHas, NInitIsNat
<1>1. /\ ~Has(net[Srv], "LogInReq") /\ ~Has(net[Cli], "LogInRsp") /\ ~Has(wq[Cli], "LogInRsp")
      /\ expects[Cli] = "none" /\ Requested
  BY <1>0 DEF LogInInv, OneLogIn, Requested, Responded
<1>2. /\ wq'[Srv] = Tail(wq[Srv]) /\ ~Has(Tail(wq[Srv]), "LogInReq")
  <2>1. wq'[Srv] = Tail(wq[Srv])
    BY <1>0, CliTypes DEF Done
  <2> QED BY <1>0, <2>1, TailAlone DEF LogInInv, OneLogIn
<1>3. /\ wq'[Cli] = wq[Cli] /\ expects'[Cli] = "none" /\ cacheOpen'[Cli] = cacheOpen[Cli]
      /\ initChans' = initChans /\ initChans = <<>>
  BY <1>1 DEF CliViewKept, cliVars, CliInv, ReqsExpected
<1>4. /\ NoReq(net[Cli]) => Rising(net[Cli] \o ms) /\ Within(net[Cli] \o ms, 0)
      /\ ~Has(net[Cli], "LogInRsp") => Lone(net[Cli] \o ms, "LogInRsp")
  BY <1>0, LogInMessages
<1> HIDE DEF ms
<1>5. net'[Cli] = net[Cli] \/ net'[Cli] = net[Cli] \o ms
  BY DEF ms
<1>6. ~Requested' /\ ~Has(wq'[Srv], "LogInReq") /\ ~Has(net'[Srv], "LogInReq")
  BY <1>1, <1>2, FewElements DEF Requested
<1>7. OneLogIn'
  BY <1>1, <1>3, <1>4, <1>5, <1>6 DEF LogInInv, OneLogIn, Responded, Has, Lone
<1>8. AfterAck'
  <2>1. NInit > 0 => ~SrvPastLogIn
    BY <1>1 DEF LogInInv, AfterAck
  <2>2. ~Has(net[Srv], "OpenRsp") => ~Has(net'[Srv], "OpenRsp")
    BY FewElements
  <2>3. \A t : Has(wq'[Srv], t) => Has(wq[Srv], t)
    BY <1>0, <1>2, TailKeeps DEF Keeps
  <2> QED BY <1>0, <2>1, <2>2, <2>3 DEF AfterAck, SrvPastLogIn
<1>9. InitInOrder'
  <2> SUFFICES ASSUME NInit > 0 PROVE InitInOrder'
    BY DEF InitInOrder
  <2>1. NoReq(net[Cli]) /\ NoReq(cacheOpen[Cli])
    BY <1>1 DEF LogInInv, InitInOrder
  <2>2. Len(initChans) = 0
    BY <1>3
  <2>3. NoReq(wq[Cli])
    BY <1>1 DEF CliInv, ReqsExpected, ReqsAre, NoReq, IsReq, ReqTypes
  <2>4. /\ Rising(wq[Cli]) /\ Rising(cacheOpen[Cli]) /\ AllReqs(cacheOpen[Cli])
        /\ Within(wq[Cli], 0) /\ Within(cacheOpen[Cli], 0)
        /\ Rising(net[Cli]) /\ Within(net[Cli], 0)
    BY <1>1, <2>2 DEF LogInInv, InitInOrder
  <2>5. \A p : Ahead(wq[Cli], p) /\ Ahead(cacheOpen[Cli], p)
    BY <2>1, <2>3 DEF NoReq, Ahead
  <2>6. Rising(net'[Cli]) /\ Within(net'[Cli], 0)
    BY <1>4, <1>5, <2>1, <2>4
  <2> QED BY <1>3, <1>6, <2>2, <2>4, <2>5, <2>6 DEF InitInOrder
<1> QED BY <1>7, <1>8, <1>9 DEF LogInInv

\* The server's tasks outside the log-in.
QuietSrvTask ==
  \/ Server(AcceptFails) \/ Server(AcceptStarts) \/ Server(LogInReqRefused)
  \/ Server(LogInRspUnsent) \/ Server(InitHandlersAgain) \/ Server(InitHandlersErr)
  \/ Server(InitHandlersOk) \/ Server(EmitPreInitErr) \/ Server(SrvErrStale)
  \/ Server(SrvErrLogIn) \/ Server(SrvErrAlmostPeer) \/ Server(SrvErrPeer)
  \/ Server(SrvToken)

LEMMA QuietSrvTaskLogIn ==
  ASSUME TypeOK, LogInInv, CliViewKept, QuietSrvTask
  PROVE  LogInInv'
<1>0. Cli \in Sides /\ Srv \in Sides
  BY CliTypes
<1>1. (login' = "ok" => login = "ok") /\ mdt' = mdt
  BY DEF QuietSrvTask, Server, AcceptFails, AcceptStarts, LogInReqRefused, LogInRspUnsent,
     InitHandlersAgain, InitHandlersErr, InitHandlersOk, EmitPreInitErr, SrvErrStale,
     SrvErrLogIn, SrvErrAlmostPeer, SrvErrPeer, SrvToken, LogInFails, srvVars
<1>2. UNCHANGED net \/ net' = [net EXCEPT ![Srv] = <<>>]
  BY DEF QuietSrvTask, Server, AcceptFails, AcceptStarts, LogInReqRefused, LogInRspUnsent,
     InitHandlersAgain, InitHandlersErr, InitHandlersOk, EmitPreInitErr, SrvErrStale,
     SrvErrLogIn, SrvErrAlmostPeer, SrvErrPeer, SrvToken, LogInFails, chanVars
<1>3. Less(wq[Srv], wq'[Srv], AtSrvW) /\ Less(wq[Cli], wq'[Cli], AtCli)
  <2>1. CASE Server(InitHandlersErr)
    <3> DEFINE ms == <<Plain("PreInitErr")>>
    <3>1. ms \in Seq(Item) /\ \A i \in 1..Len(ms) : ms[i].type = "PreInitErr"
      <4>1. Plain("PreInitErr") \in Item /\ Plain("PreInitErr").type = "PreInitErr"
        BY PlainIsItem DEF TaskTypes, Plain, New
      <4> QED BY <4>1
    <3> HIDE DEF ms
    <3>2. Ready(Srv, "InitHandlers") /\ DoneThen(Srv, ms)
      BY <2>1 DEF Server, InitHandlersErr, ms
    <3>3. \A i \in 1..Len(ms) : ms[i].type \notin AtSrvW /\ ms[i].type \notin AtCli
      BY <3>1 DEF AtSrvW, AtCli, ReqTypes
    <3> QED BY <1>0, <3>1, <3>2, <3>3, WqLess
  <2>2. CASE Server(InitHandlersOk)
    <3>1. PICK ks \in {<<>>, Kept(Srv, "OpenReq")}, fs \in {<<>>, <<Plain("Fin")>>} :
            Ready(Srv, "InitHandlers") /\ (DoneThen(Srv, ks \o fs) \/ DoneThen(Srv, ks))
      BY <2>2 DEF Server, InitHandlersOk, EmplaceFinisher
    <3>2. ks \in Seq(Item) /\ \A i \in 1..Len(ks) : ks[i].type = "OpenReq"
      <4>1. /\ cacheOpen[Srv] \in Seq(Item) /\ Kept(Srv, "OpenReq") \in Seq(Item)
            /\ Len(Kept(Srv, "OpenReq")) = Len(cacheOpen[Srv])
        BY <1>0, KeptIsTyped DEF TypeOK, BaseTypeOK, ChanTypeOK, TaskTypes, MsgTypes, Kept
      <4>2. \A i \in 1..Len(cacheOpen[Srv]) : cacheOpen[Srv][i] \in Item
        BY <4>1
      <4>3. \A i \in 1..Len(cacheOpen[Srv]) : Kept(Srv, "OpenReq")[i].type = "OpenReq"
        BY <4>2 DEF Kept, Item
      <4>4. CASE ks = <<>>
        BY <4>4
      <4>5. CASE ks = Kept(Srv, "OpenReq")
        BY <4>1, <4>3, <4>5
      <4> QED BY <4>4, <4>5
    <3>3. fs \in Seq(Item) /\ \A i \in 1..Len(fs) : fs[i].type = "Fin"
      <4>1. Plain("Fin") \in Item /\ Plain("Fin").type = "Fin"
        BY PlainIsItem DEF TaskTypes, MsgTypes, Plain, New
      <4>2. CASE fs = <<>>
        BY <4>2
      <4>3. CASE fs = <<Plain("Fin")>>
        BY <4>1, <4>3, OneMore
      <4> QED BY <4>2, <4>3
    <3>4. ks \o fs \in Seq(Item) /\ \A i \in 1..Len(ks \o fs) :
            (ks \o fs)[i].type \in {"OpenReq", "Fin"}
      BY <3>2, <3>3, QueueElements
    <3> DEFINE ms == ks \o fs
    <3>5. /\ ms \in Seq(Item) /\ \A i \in 1..Len(ms) : ms[i].type \notin AtSrvW
          /\ \A i \in 1..Len(ks) : ks[i].type \notin AtSrvW
          /\ DoneThen(Srv, ms) \/ DoneThen(Srv, ks)
      BY <3>1, <3>2, <3>4 DEF AtSrvW
    <3> HIDE DEF ms
    <3>6. Less(wq[Srv], wq'[Srv], AtSrvW)
      BY <1>0, <3>1, <3>2, <3>5, WqLess
    <3> QED BY <1>0, <3>6, LessWays, CliTypes DEF CliViewKept
  <2>3. CASE ~Server(InitHandlersErr) /\ ~Server(InitHandlersOk)
    <3>1. \E t : Ready(Srv, t) /\ Done(Srv)
      BY <2>3 DEF QuietSrvTask, Server, AcceptFails, AcceptStarts, LogInReqRefused,
         LogInRspUnsent, InitHandlersAgain, EmitPreInitErr, SrvErrStale, SrvErrLogIn,
         SrvErrAlmostPeer, SrvErrPeer, SrvToken
    <3> QED BY <1>0, <3>1, WqLess
  <2> QED BY <2>1, <2>2, <2>3
<1>4. \A W : Less(net[Srv], net'[Srv], W) /\ Less(net[Cli], net'[Cli], W)
  BY <1>0, <1>2, NetLess
<1> QED BY <1>1, <1>3, <1>4, QuietQueues DEF CliViewKept, cliVars

\* The server's tasks.
LEMMA SrvTaskLogIn ==
  ASSUME TypeOK, CliInv, LogInInv, SrvTask
  PROVE  LogInInv'
<1>0. /\ Cli \in Sides /\ Srv \in Sides /\ Cli # Srv /\ CliViewKept /\ NInit \in Nat
      /\ net[Cli] \in Seq(Item) /\ net \in [Sides -> Seq(Item)]
  BY CliTypes, SrvStepKeepsView, NInitIsNat DEF SrvStep, TypeOK, BaseTypeOK, ChanTypeOK
<1>1. /\ InitReqs(0) = <<>> /\ \A k \in Nat : InitReqs(k) \in Seq(Item)
      /\ <<Plain("LogInRsp")>> \in Seq(Item)
      /\ <<Plain("LogInRsp")>> \o <<>> = <<Plain("LogInRsp")>>
  <2>1. Plain("LogInRsp") \in Item
    BY PlainIsItem DEF TaskTypes, MsgTypes
  <2>2. InitReqs(0) = <<>>
    BY DEF InitReqs
  <2> QED BY <2>1, <2>2, InitReqsAreTyped
<1>2. CASE Server(SrvMdt)
  <2>1. /\ Ready(Srv, "Mdt") /\ Done(Srv) /\ UNCHANGED net
    BY <1>2 DEF Server, SrvMdt, chanVars
  <2>2. NInit = 0 \/ expects'[Cli] = "OpenReq"
    BY <1>0, <2>1, ReadyHas DEF LogInInv, AfterAck, SrvPastLogIn, CliViewKept
  <2>3. \A W : /\ Less(net[Srv], net'[Srv], W) /\ Less(net[Cli], net'[Cli], W)
               /\ Less(wq[Srv], wq'[Srv], W) /\ Less(wq[Cli], wq'[Cli], W)
    BY <1>0, <2>1, NetLess, WqLess
  <2> QED BY <1>0, <2>2, <2>3, PastKeepsLogIn DEF CliViewKept
<1>3. CASE Server(LogInReqOk)
  <2>1. /\ Ready(Srv, "LogInReq") /\ Done(Srv) /\ NInit = 0 /\ mdt' = mdt
        /\ Send(Srv, <<Plain("LogInRsp")>>, "ok")
    BY <1>3 DEF Server, LogInReqOk
  <2>2. /\ net'[Srv] = net[Srv]
        /\ \/ net'[Cli] = net[Cli]
           \/ net'[Cli] = net[Cli] \o (<<Plain("LogInRsp")>> \o InitReqs(0))
    <3> DEFINE m == <<Plain("LogInRsp")>>
    <3>1. Send(Srv, m, "ok") /\ m = m \o InitReqs(0)
      BY <1>1, <2>1
    <3> HIDE DEF m
    <3>2. net' = net \/ net' = [net EXCEPT ![Peer(Srv)] = net[Peer(Srv)] \o m]
      BY <3>1 DEF Send
    <3>3. /\ net'[Srv] = net[Srv]
          /\ net'[Cli] = net[Cli] \/ net'[Cli] = net[Cli] \o (m \o InitReqs(0))
      BY <1>0, <3>1, <3>2, PeerOfPeer
    <3> QED BY <3>3 DEF m
  <2>3. 0 \in Nat /\ 0 <= NInit /\ (login' = "ok" => NInit = 0)
    BY <1>0, <2>1
  <2> QED BY <1>0, <2>1, <2>2, <2>3, RespondLogIn
<1>4. CASE Server(LogInReqAwaitAck)
  <2>1. /\ Ready(Srv, "LogInReq") /\ Done(Srv) /\ UNCHANGED <<login, mdt>> /\ NInit > 0
        /\ Send(Srv, <<Plain("LogInRsp")>> \o InitReqs(NInit), "ok")
    BY <1>4 DEF Server, LogInReqAwaitAck, srvVars
  <2>2. /\ net'[Srv] = net[Srv]
        /\ \/ net'[Cli] = net[Cli]
           \/ net'[Cli] = net[Cli] \o (<<Plain("LogInRsp")>> \o InitReqs(NInit))
    BY <1>0, <1>1, <2>1, PeerOfPeer DEF Send
  <2>3. login' = "ok" => NInit = 0
    <3>1. Requested
      BY <1>0, <2>1, ReadyHas DEF Requested
    <3>2. expects[Cli] # "OpenReq"
      BY <3>1 DEF LogInInv, OneLogIn
    <3> QED BY <2>1, <3>2 DEF LogInInv, AfterAck, SrvPastLogIn
  <2> QED BY <1>0, <2>1, <2>2, <2>3, RespondLogIn
<1>5. CASE Server(LogInReqInitFails)
  <2>1. PICK k \in 0..NInit :
          net' = [net EXCEPT ![Srv] = <<>>, ![Cli] =
                    IF Gone(Srv) THEN @ ELSE @ \o <<Plain("LogInRsp")>> \o InitReqs(k)]
    BY <1>5 DEF Server, LogInReqInitFails
  <2>2. k \in Nat /\ k <= NInit
    BY <1>0
  <2>3. (net[Cli] \o <<Plain("LogInRsp")>>) \o InitReqs(k)
          = net[Cli] \o (<<Plain("LogInRsp")>> \o InitReqs(k))
    <3> DEFINE a == net[Cli]
               b == <<Plain("LogInRsp")>>
               c == InitReqs(k)
    <3>1. a \in Seq(Item) /\ b \in Seq(Item) /\ c \in Seq(Item)
      BY <1>0, <1>1, <2>2
    <3> HIDE DEF a, b, c
    <3>2. (a \o b) \o c = a \o (b \o c)
      BY <3>1, ConcatAssociative
    <3> QED BY <3>2 DEF a, b, c
  <2>4. /\ net'[Srv] = <<>>
        /\ \/ net'[Cli] = net[Cli]
           \/ net'[Cli] = net[Cli] \o (<<Plain("LogInRsp")>> \o InitReqs(k))
    BY <1>0, <2>1, <2>3
  <2>5. Ready(Srv, "LogInReq") /\ Done(Srv) /\ login' = "failed" /\ mdt' = mdt
    BY <1>5 DEF Server, LogInReqInitFails
  <2> QED BY <1>0, <2>2, <2>4, <2>5, RespondLogIn
<1>6. CASE QuietSrvTask
  BY <1>0, <1>6, QuietSrvTaskLogIn
<1> QED BY <1>2, <1>3, <1>4, <1>5, <1>6 DEF SrvTask, QuietSrvTask

-----------------------------------------------------------------------------
(* What Wc hands to W.                                                      *)

\* A message that comes once is handed on: it is in one place still.
LEMMA AloneMoves ==
  ASSUME NEW q \in Seq(Item), NEW p \in Seq(Item), p # <<>>, Lone(p, Head(p).type),
         ~Has(q, Head(p).type)
  PROVE  /\ ~Has(Tail(p), Head(p).type) /\ Lone(Append(q, Head(p)), Head(p).type)
         /\ Has(p, Head(p).type)
<1>1. /\ Len(p) \in Nat /\ 1 \in 1..Len(p) /\ Head(p) = p[1]
  BY QueueShape
<1>2. Has(p, Head(p).type)
  BY <1>1 DEF Has
<1>3. Lone(Append(q, Head(p)), Head(p).type)
  <2> DEFINE x == Head(p)
             r == Append(q, x)
  <2>1. /\ Len(q) \in Nat /\ Len(r) = Len(q) + 1
        /\ \A i \in 1..Len(r) : \/ i \in 1..Len(q) /\ r[i] = q[i]
                                \/ i = Len(r) /\ r[i] = x
    OBVIOUS
  <2> HIDE DEF x, r
  <2>2. ~Has(q, x.type)
    BY DEF x
  <2>3. \A i \in 1..Len(r) : r[i].type = x.type => i = Len(r)
    BY <2>1, <2>2 DEF Has
  <2>4. Lone(r, x.type)
    BY <2>3 DEF Lone
  <2> QED BY <2>4 DEF r, x
<1> QED BY <1>2, <1>3, TailAlone

\* The log-in's request or response.
LEMMA DeliverLogInLogIn ==
  ASSUME TypeOK, CliInv, LogInInv, NEW s \in Sides, Common(DeliverLogIn(s))
  PROVE  LogInInv'
<1> DEFINE x == Head(net[s])
<1>0. /\ Cli \in Sides /\ Srv \in Sides /\ Cli # Srv /\ wq[s] \in Seq(Item)
      /\ net[s] \in Seq(Item) /\ net[s] # <<>> /\ x \in Item /\ Len(initChans) \in Nat
      /\ DOMAIN net = Sides /\ DOMAIN wq = Sides
  <2>1. net[s] \in Seq(Item) /\ net[s] # <<>> /\ wq[s] \in Seq(Item)
    BY DEF TypeOK, BaseTypeOK, ChanTypeOK, ThreadTypeOK, Common, DeliverLogIn, Arrives
  <2>2. x \in Item
    BY <2>1
  <2> QED BY <2>1, <2>2, CliTypes DEF TypeOK, CliTypeOK
<1>1. /\ UNCHANGED <<expects, cacheOpen, initChans, login, mdt>>
      /\ Post(s, x) /\ net'[s] = Tail(net[s]) /\ wq'[s] = Append(wq[s], x)
      /\ x.type \in {"LogInReq", "LogInRsp"}
      /\ \E t : Arrives(s, t)
  BY <1>0 DEF Common, DeliverLogIn, Arrives, Post, cliVars, srvVars
<1>2. \A W : Less(net[Srv], net'[Srv], W) /\ Less(net[Cli], net'[Cli], W)
  BY <1>0, <1>1, NetLess
<1> HIDE DEF x
<1>3. /\ s = Cli => UNCHANGED <<net[Srv], wq[Srv]>>
      /\ s = Srv => UNCHANGED <<net[Cli], wq[Cli]>>
  BY <1>0 DEF Common, DeliverLogIn, Arrives, Post
<1>4. CASE s = Srv /\ x.type = "LogInReq"
  <2>1. /\ ~Has(net'[Srv], "LogInReq") /\ Lone(wq'[Srv], "LogInReq") /\ Requested
    <3>1. Has(net[Srv], "LogInReq")
      BY <1>0, <1>4, QueueShape DEF x, Has
    <3>2. ~Has(wq[Srv], "LogInReq") /\ Lone(net[Srv], "LogInReq")
      BY <3>1 DEF LogInInv, OneLogIn
    <3> QED BY <1>0, <1>1, <1>4, <3>1, <3>2, AloneMoves DEF x, Requested
  <2>2. \A t \in {"Mdt", "Open"} : Has(wq'[Srv], t) => Has(wq[Srv], t)
    BY <1>0, <1>1, <1>4, WqLess DEF Less
  <2>3. Has(net'[Srv], "OpenRsp") => Has(net[Srv], "OpenRsp")
    BY <1>2 DEF Less
  <2>4. OneLogIn'
    BY <1>1, <1>3, <1>4, <2>1 DEF LogInInv, OneLogIn, Requested, Responded, Has, Lone
  <2>5. AfterAck'
    BY <1>1, <2>2, <2>3 DEF LogInInv, AfterAck, SrvPastLogIn
  <2>6. InitInOrder'
    BY <1>1, <1>3, <1>4, <2>1 DEF LogInInv, InitInOrder
  <2> QED BY <2>4, <2>5, <2>6 DEF LogInInv
<1>5. CASE s = Cli /\ x.type = "LogInRsp"
  <2>1. ~Has(net'[Cli], "LogInRsp") /\ Lone(wq'[Cli], "LogInRsp") /\ Responded
    <3>1. Has(net[Cli], "LogInRsp")
      BY <1>0, <1>5, QueueShape DEF x, Has
    <3>2. ~Has(wq[Cli], "LogInRsp") /\ Lone(net[Cli], "LogInRsp")
      BY <3>1 DEF LogInInv, OneLogIn
    <3> QED BY <1>0, <1>1, <1>5, <3>1, <3>2, AloneMoves DEF x, Responded
  <2>2. Less(wq[Cli], wq'[Cli], ReqTypes) /\ Less(net[Cli], net'[Cli], ReqTypes)
    BY <1>0, <1>1, <1>2, <1>5, WqLess DEF ReqTypes
  <2>3. OneLogIn'
    BY <1>1, <1>3, <1>5, <2>1 DEF LogInInv, OneLogIn, Requested, Responded, Has, Lone
  <2>4. AfterAck'
    BY <1>1, <1>3, <1>5 DEF LogInInv, AfterAck, SrvPastLogIn, Has
  <2>5. InitInOrder'
    <3>1. Requested' <=> Requested
      BY <1>3, <1>5 DEF Requested, Has
    <3> QED BY <1>0, <1>1, <2>2, <3>1 DEF LogInInv, InitInOrder, Less, FewerReqs
  <2> QED BY <2>3, <2>4, <2>5 DEF LogInInv
<1>6. CASE \/ s = Srv /\ x.type = "LogInRsp"
           \/ s = Cli /\ x.type = "LogInReq"
  <2>1. Less(wq[Srv], wq'[Srv], AtSrvW) /\ Less(wq[Cli], wq'[Cli], AtCli)
    BY <1>0, <1>1, <1>6, WqLess DEF AtSrvW, AtCli, ReqTypes
  <2> QED BY <1>1, <1>2, <2>1, QuietQueues
<1> QED BY <1>1, <1>4, <1>5, <1>6, PeerOfPeer

\* A request, at the client: kept, or handed to the handler of the time.
LEMMA DeliverReqLogIn ==
  ASSUME TypeOK, CliInv, LogInInv, Common(DeliverOpenReq(Cli))
  PROVE  LogInInv'
<1> DEFINE x == Head(net[Cli])
           y == [x EXCEPT !.type = expects[Cli]]
<1>0. /\ Cli \in Sides /\ Srv \in Sides /\ Cli # Srv /\ wq[Cli] \in Seq(Item)
      /\ cacheOpen[Cli] \in Seq(Item) /\ net[Cli] \in Seq(Item) /\ net[Cli] # <<>>
      /\ DOMAIN net = Sides /\ DOMAIN wq = Sides /\ DOMAIN cacheOpen = Sides
      /\ expects[Cli] \in {"none", "InitOpen", "OpenReq"}
      /\ Len(initChans) \in Nat /\ 1 \in 1..Len(net[Cli]) /\ x = net[Cli][1]
  BY CliTypes DEF TypeOK, CliTypeOK, Common, DeliverOpenReq, Arrives
<1>1. /\ UNCHANGED <<expects, initChans, login, mdt, net[Srv], wq[Srv]>>
      /\ net'[Cli] = Tail(net[Cli]) /\ Arrives(Cli, "OpenReq")
      /\ x \in Item /\ x.type = "OpenReq" /\ IsReq(x)
  BY <1>0 DEF Common, DeliverOpenReq, Arrives, Post, cliVars, srvVars, IsReq, ReqTypes
<1>2. /\ expects[Cli] = "none" =>
           cacheOpen'[Cli] = Append(cacheOpen[Cli], x) /\ wq'[Cli] = wq[Cli]
      /\ expects[Cli] # "none" =>
           cacheOpen'[Cli] = cacheOpen[Cli] /\ Post(Cli, y) /\ wq'[Cli] = Append(wq[Cli], y)
  BY <1>0 DEF Common, DeliverOpenReq, Post
<1>3. /\ y.type = expects[Cli] /\ y.id = x.id
      /\ expects[Cli] # "none" => y \in Item /\ IsReq(y)
  <2>1. expects[Cli] # "none" => expects[Cli] \in TaskTypes
    BY <1>0 DEF TaskTypes, MsgTypes
  <2>2. y.type = expects[Cli] /\ y.id = x.id
    BY <1>1 DEF Item
  <2>3. expects[Cli] # "none" => y \in Item
    BY <1>1, <2>1, RetypeIsItem
  <2> QED BY <1>0, <2>2, <2>3 DEF IsReq, ReqTypes
<1>4. NInit > 0 /\ expects[Cli] # "OpenReq" => ~Requested
  <2>1. ~NoReq(net[Cli])
    BY <1>0, <1>1 DEF NoReq
  <2> QED BY <2>1 DEF LogInInv, InitInOrder
<1> HIDE DEF x, y
<1>5. \A W : Less(net[Srv], net'[Srv], W) /\ Less(net[Cli], net'[Cli], W)
  BY <1>0, <1>1, NetLess
<1>6. Less(wq[Cli], wq'[Cli], {"LogInRsp"})
  <2>1. CASE expects[Cli] = "none"
    BY <1>0, <1>2, <2>1, LessWays
  <2>2. CASE expects[Cli] # "none"
    BY <1>0, <1>2, <1>3, <2>2, WqLess
  <2> QED BY <2>1, <2>2
<1>7. OneLogIn'
  <2>1. /\ Has(net'[Cli], "LogInRsp") => Has(net[Cli], "LogInRsp")
        /\ Lone(net[Cli], "LogInRsp") => Lone(net'[Cli], "LogInRsp")
        /\ Has(wq'[Cli], "LogInRsp") => Has(wq[Cli], "LogInRsp")
        /\ Lone(wq[Cli], "LogInRsp") => Lone(wq'[Cli], "LogInRsp")
    BY <1>5, <1>6 DEF Less
  <2>2. Requested' <=> Requested
    BY <1>1 DEF Requested, Has
  <2>3. Responded' => Responded
    BY <2>1 DEF Responded
  <2> QED BY <1>1, <2>1, <2>2, <2>3 DEF LogInInv, OneLogIn, Has, Lone
<1>8. AfterAck'
  BY <1>1 DEF LogInInv, AfterAck, SrvPastLogIn, Has
<1>9. InitInOrder'
  <2> SUFFICES ASSUME NInit > 0, expects'[Cli] # "OpenReq" PROVE InitInOrder'
    BY DEF InitInOrder
  <2> DEFINE n == Len(initChans)
  <2>1. ~Requested'
    BY <1>1, <1>4 DEF Requested, Has
  <2>2. /\ Rising(wq[Cli]) /\ Rising(net[Cli]) /\ Rising(cacheOpen[Cli])
        /\ Within(wq[Cli], n) /\ Within(net[Cli], n)
        /\ Within(cacheOpen[Cli], n) /\ AllReqs(cacheOpen[Cli])
        /\ Ahead(wq[Cli], net[Cli]) /\ Ahead(cacheOpen[Cli], net[Cli])
    BY <1>1 DEF LogInInv, InitInOrder
  <2>3. /\ Rising(net'[Cli]) /\ Within(net'[Cli], n)
        /\ Ahead(wq[Cli], net'[Cli]) /\ Ahead(cacheOpen[Cli], net'[Cli])
    <3>1. FewerReqs(net[Cli], net'[Cli])
      BY <1>5 DEF Less
    <3> QED BY <1>0, <2>2, <3>1 DEF FewerReqs
  <2>4. x = Head(net[Cli]) /\ n \in Nat /\ n = Len(initChans')
    BY <1>0, <1>1 DEF x
  <2> HIDE DEF n
  <2>5. CASE expects[Cli] = "none"
    <3>1. /\ Rising(cacheOpen'[Cli]) /\ Within(cacheOpen'[Cli], n)
          /\ Ahead(cacheOpen'[Cli], net'[Cli])
      BY <1>0, <1>1, <1>2, <2>2, <2>4, <2>5, MovedReq
    <3>2. AllReqs(cacheOpen'[Cli])
      <4>1. \A i \in 1..Len(Append(cacheOpen[Cli], x)) :
              \/ i \in 1..Len(cacheOpen[Cli]) /\ Append(cacheOpen[Cli], x)[i] = cacheOpen[Cli][i]
              \/ Append(cacheOpen[Cli], x)[i] = x
        BY <1>0
      <4> QED BY <1>1, <1>2, <2>2, <2>5, <4>1 DEF AllReqs
    <3> QED BY <1>2, <2>1, <2>2, <2>3, <2>4, <2>5, <3>1, <3>2 DEF InitInOrder
  <2>6. CASE expects[Cli] = "InitOpen"
    <3>1. /\ Rising(wq'[Cli]) /\ Within(wq'[Cli], n) /\ Ahead(wq'[Cli], net'[Cli])
      BY <1>0, <1>1, <1>2, <1>3, <2>2, <2>4, <2>6, MovedReq
    <3> QED BY <1>2, <2>1, <2>2, <2>3, <2>4, <2>6, <3>1 DEF InitInOrder
  <2> QED BY <1>0, <1>1, <2>5, <2>6
<1> QED BY <1>7, <1>8, <1>9 DEF LogInInv

\* Thread Wc of either side, and W woken by it, with what is not watched for.
QuietWc(s) ==
  \/ s = Srv /\ Common(DeliverOpenReq(s))
  \/ Common(DeliverFin(s)) \/ Common(DropLateRsp(s)) \/ Common(DetectError(s))
  \/ Common(OpenAnswered(s)) \/ Common(OpenBroken(s)) \/ (s = Srv /\ Server(InitBroken))

LEMMA QuietWcLogIn ==
  ASSUME TypeOK, LogInInv, NEW s \in Sides, QuietWc(s)
  PROVE  LogInInv'
<1>0. /\ Cli \in Sides /\ Srv \in Sides /\ Cli # Srv /\ DOMAIN cacheOpen = Sides
      /\ expects[Srv] \in {"none", "InitOpen", "OpenReq"}
  BY CliTypes DEF TypeOK, BaseTypeOK, ChanTypeOK
<1>1. /\ UNCHANGED <<expects, initChans, mdt>> /\ login' \in {login, "failed"}
      /\ cacheOpen'[Cli] = cacheOpen[Cli]
  BY <1>0 DEF QuietWc, Common, Server, DeliverOpenReq, DeliverFin, DropLateRsp, DetectError,
     OpenAnswered, OpenBroken, InitBroken, LogInFails, cliVars, srvVars
<1>2. \/ UNCHANGED net \/ (\E t : Arrives(s, t))
      \/ net' = [net EXCEPT ![Srv] = <<>>]
  BY DEF QuietWc, Common, Server, DeliverOpenReq, DeliverFin, DropLateRsp, DetectError,
     OpenAnswered, OpenBroken, InitBroken, LogInFails
<1>3. \A W : Less(net[Srv], net'[Srv], W) /\ Less(net[Cli], net'[Cli], W)
  BY <1>0, <1>2, NetLess
<1>4. Less(wq[Srv], wq'[Srv], AtSrvW) /\ Less(wq[Cli], wq'[Cli], AtCli)
  <2>1. CASE s = Srv /\ Common(DeliverOpenReq(s)) /\ expects[Srv] # "none"
    <3> DEFINE x == Head(net[Srv])
               y == [x EXCEPT !.type = expects[Srv]]
    <3>1. x \in Item /\ Post(Srv, y)
      BY <1>0, <2>1, ArrivesKeepsType DEF Common, DeliverOpenReq, TypeOK, BaseTypeOK
    <3>2. expects[Srv] \in TaskTypes
      BY <1>0, <2>1 DEF TaskTypes, MsgTypes
    <3>3. y \in Item /\ y.type = expects[Srv]
      BY <3>1, <3>2, RetypeIsItem DEF Item
    <3> HIDE DEF x, y
    <3>4. y.type \notin AtSrvW
      BY <1>0, <3>3 DEF AtSrvW
    <3> QED BY <1>0, <3>1, <3>3, <3>4, WqLess
  <2>2. CASE UNCHANGED wq
    BY <1>0, <2>2, WqLess
  <2>3. CASE \E t \in {"Fin", "Err"} : Post(s, Plain(t))
    <3>1. \A t \in {"Fin", "Err"} : Plain(t) \in Item /\ Plain(t).type \notin AtSrvW
                                                    /\ Plain(t).type \notin AtCli
      BY PlainIsItem DEF TaskTypes, MsgTypes, Plain, New, AtSrvW, AtCli, ReqTypes
    <3> QED BY <1>0, <2>3, <3>1, WqLess
  <2>4. \/ s = Srv /\ Common(DeliverOpenReq(s)) /\ expects[Srv] # "none"
        \/ UNCHANGED wq
        \/ \E t \in {"Fin", "Err"} : Post(s, Plain(t))
    BY DEF QuietWc, Common, Server, DeliverOpenReq, DeliverFin, DropLateRsp, DetectError,
       OpenAnswered, OpenBroken, InitBroken, threadVars
  <2> QED BY <2>1, <2>2, <2>3, <2>4
<1>5. login' = "ok" => login = "ok"
  BY <1>1
<1> QED BY <1>1, <1>3, <1>4, <1>5, QuietQueues

LEMMA WcStepLogIn ==
  ASSUME TypeOK, CliInv, LogInInv, NEW s \in Sides, WcStep(s)
  PROVE  LogInInv'
<1>0. Cli \in Sides /\ Srv \in Sides /\ Cli # Srv
  BY CliTypes
<1>1. CASE s = Srv /\ Server(InitAcked)
  <2>1. /\ Arrives(Srv, "OpenRsp") /\ UNCHANGED <<wq, expects>>
    BY <1>1 DEF Server, InitAcked
  <2>2. Has(net[Srv], "OpenRsp")
    <3>1. net[Srv] \in Seq(Item) /\ net[Srv] # <<>> /\ Head(net[Srv]).type = "OpenRsp"
      BY <1>0, <2>1, CliTypes DEF Arrives
    <3>2. 1 \in 1..Len(net[Srv]) /\ net[Srv][1].type = "OpenRsp"
      BY <3>1
    <3> QED BY <3>2 DEF Has
  <2>3. NInit = 0 \/ expects'[Cli] = "OpenReq"
    BY <2>1, <2>2, NInitIsNat DEF LogInInv, AfterAck, SrvPastLogIn
  <2>4. \A W : /\ Less(net[Srv], net'[Srv], W) /\ Less(net[Cli], net'[Cli], W)
               /\ Less(wq[Srv], wq'[Srv], W) /\ Less(wq[Cli], wq'[Cli], W)
    BY <1>0, <2>1, NetLess, WqLess
  <2> QED BY <2>1, <2>3, <2>4, PastKeepsLogIn
<1>2. CASE Common(DeliverLogIn(s))
  BY <1>2, DeliverLogInLogIn
<1>3. CASE s = Cli /\ Common(DeliverOpenReq(s))
  <2>1. Common(DeliverOpenReq(Cli))
    BY <1>3 DEF Common, DeliverOpenReq, Arrives, Post
  <2> QED BY <2>1, DeliverReqLogIn
<1>4. CASE QuietWc(s)
  BY <1>4, QuietWcLogIn
<1> QED BY <1>1, <1>2, <1>3, <1>4, PeerOfPeer DEF WcStep, QuietWc

-----------------------------------------------------------------------------
(* The other steps, and the theorem.                                        *)

\* Time limits, the destructor, what users decide outside of what the log-in
\* must precede, the subclass, the transport, and no step at all.
QuietRest ==
  \/ \E s \in Sides : Timeout(s) \/ DtorStep(s) \/ Common(DtorStart(s))
                      \/ Common(Call(s, "Token"))
  \/ Discard \/ SubclassStep \/ Break
  \/ Client(CallConnect) \/ Client(CliCallOpen)
  \/ Server(SrvCallInitHandlers) \/ Server(SrvOpenEmpty)
  \/ UNCHANGED vars

LEMMA QuietRestLogIn ==
  ASSUME TypeOK, LogInInv, QuietRest
  PROVE  LogInInv'
<1>0. Cli \in Sides /\ Srv \in Sides /\ Cli # Srv
  BY CliTypes
<1> USE DEF QuietRest, Timeout, DtorStep, Discard, SubclassStep, Break, Common, Client,
     Server, OpenTimeout, DtorStart, DtorGreet, DtorGoOn, DtorStop, SrvDtorStop, SubclassPosts,
     LinkFail, CallConnect, CliCallOpen, SrvCallInitHandlers, SrvOpenEmpty, CallOpen, Call
<1>1. /\ UNCHANGED <<expects, cacheOpen, initChans>>
      /\ login' \in {login, "aborted"} /\ mdt' \in {mdt, "none"}
  BY DEF vars, baseVars, chanVars, cliVars, srvVars
<1>2. UNCHANGED net \/ \E r \in Sides : net' = [net EXCEPT ![r] = <<>>]
  BY <1>0 DEF vars, baseVars, chanVars
<1> DEFINE Posts == DtorTasks \cup {"Connect", "Token", "InitHandlers"}
<1>3. \/ UNCHANGED wq
      \/ \E r \in Sides : wq' = [wq EXCEPT ![r] = <<>>]
      \/ \E r \in Sides, t \in Posts : Post(r, Plain(t))
      \/ Post(Cli, Plain("Open"))
      \/ \E n \in {"ok", "rejected"} : Post(Cli, New("Complete", 0, n))
  BY <1>0 DEF vars, baseVars, threadVars, DtorTasks
<1> HIDE DEF QuietRest
<1>4. \A W : Less(net[Srv], net'[Srv], W) /\ Less(net[Cli], net'[Cli], W)
  BY <1>0, <1>2, NetLess
<1>5. /\ \A t \in Posts : Plain(t) \in Item /\ Plain(t).type = t
                          /\ t \notin AtSrvW /\ t \notin AtCli
      /\ Plain("Open") \in Item /\ Plain("Open").type \notin AtCli
      /\ \A n \in {"ok", "rejected"} :
           New("Complete", 0, n) \in Item /\ New("Complete", 0, n).type \notin AtCli
  BY PlainIsItem, NewIsItem
     DEF DtorTasks, TaskTypes, MsgTypes, Notes, Plain, New, AtSrvW, AtCli, ReqTypes
<1> HIDE DEF Posts
<1>6. Less(wq[Srv], wq'[Srv], AtSrvW) /\ Less(wq[Cli], wq'[Cli], AtCli)
  <2>1. CASE UNCHANGED wq \/ \E r \in Sides : wq' = [wq EXCEPT ![r] = <<>>]
    BY <1>0, <2>1, WqLess
  <2>2. CASE \E r \in Sides, t \in Posts : Post(r, Plain(t))
    BY <1>0, <1>5, <2>2, WqLess
  <2>3. CASE \E x \in Item : Post(Cli, x) /\ x.type \notin AtCli
    BY <1>0, <2>3, WqLess
  <2> QED BY <1>3, <1>5, <2>1, <2>2, <2>3
<1>7. login' = "ok" => login = "ok"
  BY <1>1
<1>8. mdt' # "none" => mdt # "none"
  BY <1>1
<1> QED BY <1>1, <1>4, <1>6, <1>7, <1>8, QuietQueues

\* The server's user creates metadata, or opens a channel with it.
LEMMA SrvOpensLogIn ==
  ASSUME TypeOK, LogInInv, Server(SrvCallMdt) \/ Server(SrvCallOpen)
  PROVE  LogInInv'
<1>0. Cli \in Sides /\ Srv \in Sides
  BY CliTypes
<1>1. /\ login = "ok" \/ mdt # "none"
      /\ UNCHANGED <<expects, net>>
      /\ Post(Srv, Plain("Mdt")) \/ Post(Srv, Plain("Open"))
  BY DEF Server, SrvCallMdt, SrvCallOpen, CallOpen, Call, chanVars
<1>2. NInit = 0 \/ expects'[Cli] = "OpenReq"
  BY <1>1, NInitIsNat DEF LogInInv, AfterAck, SrvPastLogIn
<1>3. \A t \in {"Mdt", "Open"} : Plain(t) \in Item /\ Plain(t).type = t
  BY PlainIsItem DEF TaskTypes, Plain, New
<1>4. /\ Less(net[Srv], net'[Srv], {"LogInReq"}) /\ Less(net[Cli], net'[Cli], {"LogInRsp"})
      /\ Less(wq[Srv], wq'[Srv], {"LogInReq"}) /\ Less(wq[Cli], wq'[Cli], {"LogInRsp"})
  BY <1>0, <1>1, <1>3, NetLess, WqLess
<1> QED BY <1>1, <1>2, <1>4, PastKeepsLogIn

LEMMA NextLogInInv ==
  ASSUME TypeOK, CliInv, LogInInv, [Next]_vars
  PROVE  LogInInv'
<1>0. Cli \in Sides /\ Srv \in Sides
  BY CliTypes
<1>1. CASE CliTask
  BY <1>1, CliTaskLogIn
<1>2. CASE SrvTask
  BY <1>2, SrvTaskLogIn
<1>3. CASE \E s \in Sides : SharedTask(s)
  BY <1>3, SharedTaskLogIn
<1>4. CASE \E s \in Sides : WcStep(s)
  BY <1>4, WcStepLogIn
<1>5. CASE Server(SrvCallMdt) \/ Server(SrvCallOpen)
  BY <1>5, SrvOpensLogIn
<1>6. CASE QuietRest
  BY <1>6, QuietRestLogIn
<1>7. UserStep => QuietRest \/ Server(SrvCallMdt) \/ Server(SrvCallOpen)
  BY <1>0 DEF UserStep, QuietRest
<1> QED BY <1>1, <1>2, <1>3, <1>4, <1>5, <1>6, <1>7 DEF Next, QuietRest

\* The server's handlers are set for as long as its session object lives.
LEMMA HandlersStay ==
  ASSUME TypeOK, [Next]_vars, conn' = conn
  PROVE  handlers => handlers'
<1>1. ~ConnectReaches
  <2>1. conn + 1 # conn
    BY DEF TypeOK, BaseTypeOK, ChanTypeOK
  <2> QED BY <2>1 DEF ConnectReaches
<1>2. CASE CliTask
  BY <1>1, <1>2 DEF CliTask, Connect, Client, srvVars
<1>3. CASE SrvTask
  BY <1>3 DEF SrvTask, Server, AcceptFails, AcceptStarts, LogInReqRefused, LogInRspUnsent,
     LogInReqOk, LogInReqAwaitAck, LogInReqInitFails, InitHandlersAgain, InitHandlersErr,
     InitHandlersOk, EmitPreInitErr, SrvErrStale, SrvErrLogIn, SrvErrAlmostPeer, SrvErrPeer,
     SrvToken, SrvMdt, LogInFails, srvVars
<1>4. CASE \E s \in Sides : SharedTask(s) \/ Timeout(s)
  BY <1>4 DEF SharedTask, Timeout, Common, srvVars
<1>5. CASE \E s \in Sides : WcStep(s) \/ DtorStep(s)
  BY <1>5 DEF WcStep, DtorStep, Common, Server, InitAcked, InitBroken, SrvDtorStop, srvVars
<1>6. CASE UserStep \/ SubclassStep \/ Discard \/ Break \/ UNCHANGED vars
  BY <1>6 DEF UserStep, SubclassStep, Discard, Break, Common, Client, Server,
     SrvCallInitHandlers, SrvCallMdt, SrvCallOpen, SrvOpenEmpty, vars, srvVars
<1> QED BY <1>2, <1>3, <1>4, <1>5, <1>6 DEF Next

\* What the two promises rest on, from the first state on.
PeerInv == TypeOK /\ CliInv /\ LogInInv

LEMMA InitPeerInv == Init => PeerInv
<1> SUFFICES ASSUME Init PROVE PeerInv
  OBVIOUS
<1>1. TypeOK
  BY InitIsTyped
<1>2. /\ Cli \in Sides /\ Srv \in Sides /\ wq[Cli] = <<>> /\ wq[Srv] = <<>>
      /\ net[Cli] = <<>> /\ net[Srv] = <<>> /\ cacheOpen[Cli] = <<>>
      /\ user[Cli] = "idle" /\ inside[Cli] = "none" /\ dtor[Cli] = "no"
      /\ chan[Cli] = "none" /\ ~chErr[Cli] /\ expects[Cli] = "none"
      /\ cstate = "NULL" /\ subclass = "idle" /\ initChans = <<>>
      /\ login = "none" /\ mdt = "none"
  BY SidesAreSides DEF Init, BaseInit, CliInit, SrvInit
<1>3. \A q : q = <<>> => /\ NoCall(q) /\ NoLogIn(q) /\ ErrLast(q) /\ OneCallIn(q)
                         /\ ConnectLast(q) /\ \A t : ~Has(q, t) /\ ReqsAre(q, t)
  BY DEF NoCall, NoLogIn, ErrLast, OneCallIn, ConnectLast, Has, ReqsAre
<1>4. CliInv
  BY <1>2, <1>3 DEF CliInv, OneCall, NullIsClean, ErrIsLast, PastLogIn, ReqsExpected
<1>5. LogInInv
  BY <1>2, FewElements DEF LogInInv, OneLogIn, InitInOrder, AfterAck, SrvPastLogIn,
     Requested, Responded
<1> QED BY <1>1, <1>4, <1>5 DEF PeerInv

LEMMA NextPeerInv ==
  PeerInv /\ [Next]_vars => PeerInv' /\ (cstate = "PEER" => cstate' = "PEER")
BY NextKeepsType, LogInIsInOrder, NextCliInv, NextLogInInv DEF PeerInv

THEOREM PeerInvHolds == Spec => []PeerInv
BY InitPeerInv, NextPeerInv, PTL DEF Spec

\* "Once a PEER, always a PEER": no error, no late message and no destructor of
\* either side makes the client session leave PEER state, or the server session
\* forget its handlers.
THEOREM PeerIsForeverHolds == Spec => PeerIsForever
<1>1. PeerInv /\ [Next]_vars =>
        /\ cstate = "PEER" => cstate' = "PEER"
        /\ handlers /\ conn' = conn => handlers'
  <2> SUFFICES ASSUME PeerInv, [Next]_vars
               PROVE  /\ cstate = "PEER" => cstate' = "PEER"
                      /\ handlers /\ conn' = conn => handlers'
    OBVIOUS
  <2> QED BY NextPeerInv, HandlersStay DEF PeerInv
<1> QED BY <1>1, PeerInvHolds, PTL DEF Spec, PeerIsForever

-----------------------------------------------------------------------------
(* One result for each sync_connect().                                      *)

\* A sync_connect() is in W's queue, or being carried out.
Connecting == cstate = "CONNECTING" \/ Has(wq[Cli], "Connect")

Counted ==
  /\ dones <= connects
  /\ Connecting => dones < connects
  /\ cstate = "CONNECTING" => chan[Cli] = "up"

\* A step that begins or ends no connect.
SameConnect ==
  /\ UNCHANGED <<cstate, connects, dones>>
  /\ Has(wq'[Cli], "Connect") => Has(wq[Cli], "Connect")
  /\ cstate = "CONNECTING" => chan'[Cli] = chan[Cli]

LEMMA OtherStepsSameConnect ==
  ASSUME TypeOK, CliInv,
         \/ SharedTask(Cli) \/ WcStep(Cli) \/ Timeout(Cli) \/ DtorStep(Cli) \/ SubclassStep
         \/ Client(CliCallOpen) \/ Common(Call(Cli, "Token")) \/ Common(DtorStart(Cli))
  PROVE  SameConnect
<1>0. /\ Cli \in Sides /\ Srv \in Sides /\ Cli # Srv /\ DOMAIN chan = Sides
      /\ expects[Cli] \in {"none", "InitOpen", "OpenReq"}
  BY CliTypes
<1> USE DEF SharedTask, Open, OnOpenReq, OnPassiveOpen, Giving, OnFin, DtorBegin,
     DtorFin, DtorFlush, WcStep, DeliverLogIn, DeliverOpenReq, DeliverFin, DropLateRsp, DetectError,
     OpenAnswered, OpenBroken, Timeout, OpenTimeout, DtorStep, DtorGreet, DtorGoOn,
     DtorStop, SubclassStep, SubclassPosts, CliCallOpen, CallOpen, Call, DtorStart,
     Common, Client
<1>1. UNCHANGED <<cstate, connects, dones>>
  BY <1>0 DEF cliVars
<1>2. UNCHANGED chan \/ dtor[Cli] = "stopping"
  BY <1>0 DEF chanVars
<1> DEFINE Posts == DtorTasks \cup {"Fin", "Err", "Open", "Token"}
<1>3. \/ UNCHANGED wq
      \/ wq' = [wq EXCEPT ![Cli] = <<>>]
      \/ wq[Cli] # <<>> /\ Done(Cli)
      \/ \E t \in Posts : Post(Cli, Plain(t))
      \/ \E n \in {"ok", "rejected"} : Post(Cli, New("Complete", 0, n))
      \/ Post(Cli, Head(net[Cli])) /\ (Arrives(Cli, "LogInReq") \/ Arrives(Cli, "LogInRsp"))
      \/ /\ Post(Cli, [Head(net[Cli]) EXCEPT !.type = expects[Cli]])
         /\ Arrives(Cli, "OpenReq") /\ expects[Cli] # "none"
  BY <1>0 DEF threadVars, DtorTasks, Ready
<1>4. \/ UNCHANGED wq
      \/ wq' = [wq EXCEPT ![Cli] = <<>>]
      \/ wq[Cli] # <<>> /\ Done(Cli)
      \/ \E x \in Item : Post(Cli, x) /\ x.type # "Connect"
  <2>1. \A t \in Posts : Plain(t) \in Item /\ Plain(t).type # "Connect"
    BY PlainIsItem DEF DtorTasks, TaskTypes, MsgTypes, Plain, New
  <2>2. \A n \in {"ok", "rejected"} :
          New("Complete", 0, n) \in Item /\ New("Complete", 0, n).type # "Connect"
    BY NewIsItem DEF TaskTypes, Notes, New
  <2>3. \A t : Arrives(Cli, t) => Head(net[Cli]) \in Item /\ Head(net[Cli]).type = t
    BY <1>0, ArrivesKeepsType DEF Arrives, TypeOK, BaseTypeOK
  <2>4. ASSUME Arrives(Cli, "OpenReq"), expects[Cli] # "none"
        PROVE  /\ [Head(net[Cli]) EXCEPT !.type = expects[Cli]] \in Item
               /\ [Head(net[Cli]) EXCEPT !.type = expects[Cli]].type # "Connect"
    <3>1. Head(net[Cli]) \in Item /\ expects[Cli] \in TaskTypes
      BY <1>0, <2>3, <2>4 DEF TaskTypes, MsgTypes
    <3> QED BY <1>0, <3>1, RetypeIsItem DEF Item
  <2> HIDE DEF Posts
  <2> DEFINE P == \E x \in Item : Post(Cli, x) /\ x.type # "Connect"
  <2>5. CASE \E t \in Posts : Post(Cli, Plain(t))
    BY <2>1, <2>5, Zenon
  <2>6. CASE \E n \in {"ok", "rejected"} : Post(Cli, New("Complete", 0, n))
    BY <2>2, <2>6, Zenon
  <2>7. ASSUME NEW y \in Item, Post(Cli, y), y.type # "Connect"
        PROVE  P
    BY <2>7, Zenon
  <2>8. Post(Cli, Head(net[Cli])) /\ (Arrives(Cli, "LogInReq") \/ Arrives(Cli, "LogInRsp")) => P
    <3>1. Arrives(Cli, "LogInReq") \/ Arrives(Cli, "LogInRsp")
            => Head(net[Cli]) \in Item /\ Head(net[Cli]).type # "Connect"
      BY <2>3
    <3> HIDE DEF P
    <3> QED BY <2>7, <3>1, Zenon
  <2>9. /\ Post(Cli, [Head(net[Cli]) EXCEPT !.type = expects[Cli]])
        /\ Arrives(Cli, "OpenReq") /\ expects[Cli] # "none"
        => P
    <3> HIDE DEF P
    <3> QED BY <2>4, <2>7, Zenon
  <2> QED BY <1>3, <2>5, <2>6, <2>8, <2>9, Zenon
<1>5. Less(wq[Cli], wq'[Cli], {"Connect"})
  BY <1>0, <1>4, WqLess
<1>6. cstate = "CONNECTING" => chan'[Cli] = chan[Cli]
  BY <1>2 DEF CliInv, OneCall
<1> QED BY <1>1, <1>5, <1>6 DEF SameConnect, Less

\* The client's tasks: a connect that ends was going on, and its call returns.
LEMMA CliTaskCounts ==
  ASSUME TypeOK, CliInv, LogInOrder, CliTask
  PROVE  /\ connects' = connects
         /\ \/ dones' = dones
            \/ dones' = dones + 1 /\ Connecting /\ user'[Cli] = "idle"
         /\ cstate' = "CONNECTING" => Connecting
         /\ Has(wq'[Cli], "Connect") => Has(wq[Cli], "Connect")
         /\ cstate' = "CONNECTING" =>
              chan'[Cli] = "up" \/ (chan'[Cli] = chan[Cli] /\ cstate = "CONNECTING")
<1>0. /\ Cli \in Sides /\ Srv \in Sides /\ Cli # Srv
      /\ DOMAIN chan = Sides /\ DOMAIN user = Sides
  BY CliTypes
<1>1. /\ Ready(Cli, "Connect") \/ Ready(Cli, "LogInRsp") \/ Ready(Cli, "InitOpen") => Connecting
      /\ inside[Cli] = "onDone" => cstate = "CONNECTING"
  BY <1>0, ReadyHas, LogInIsConnecting DEF Connecting, CliInv, PastLogIn
<1> USE DEF CliTask, Connect, Client, ConnectRefused, ConnectFails, ConnectReaches,
     LogInRspBad, LogInRspOk, LogInRspAwaitInit, InitOpenMore, InitOpenTooLate, InitOpenLast,
     CompleteOk, CompleteBad, CompleteTooLate, CliErrStale, CliErrConnecting, CliErrPeer,
     CliToken, OnDoneOk, OnDoneToConnecting, OnDoneToNull, OnDoneReturns,
     ConnectBreaks, Connected, ConnectDone, ConnectPending, DropChannel, MayComplete
<1>2. connects' = connects
  BY DEF cliVars
<1>3. \/ dones' = dones
      \/ /\ dones' = dones + 1 /\ user'[Cli] = "idle"
         /\ \/ Ready(Cli, "Connect") \/ Ready(Cli, "LogInRsp") \/ Ready(Cli, "InitOpen")
            \/ cstate = "CONNECTING"
  BY <1>0, <1>1 DEF cliVars, Answer
<1>4. cstate' = "CONNECTING" =>
        \/ Ready(Cli, "Connect") /\ chan'[Cli] = "up"
        \/ /\ Ready(Cli, "LogInRsp") \/ Ready(Cli, "InitOpen") \/ cstate = "CONNECTING"
           /\ chan' = chan
  BY <1>0, <1>1 DEF cliVars, chanVars
<1> DEFINE fin == <<Plain("Fin")>>
<1>5. \/ \E t : /\ Ready(Cli, t)
                /\ \/ Done(Cli)
                   \/ \E e \in ReqTypes : DoneThen(Cli, Kept(Cli, e))
                   \/ DoneThen(Cli, <<>> \o <<>>)
                   \/ DoneThen(Cli, <<>> \o fin)
      \/ UNCHANGED wq
      \/ ConnectReaches
  BY DEF EmplaceFinisher, ExpectOpenReqs, ReqTypes
<1> HIDE DEF CliTask, ConnectReaches
<1>6. Has(wq'[Cli], "Connect") => Has(wq[Cli], "Connect")
  <2>1. CASE ConnectReaches
    BY <1>0, <2>1, ReadyHas DEF ConnectReaches
  <2>2. ASSUME NEW t, Ready(Cli, t), Done(Cli)
        PROVE  Less(wq[Cli], wq'[Cli], {"Connect"})
    BY <1>0, <2>2, WqLess
  <2>3. ASSUME NEW t, Ready(Cli, t), NEW ms \in Seq(Item), DoneThen(Cli, ms),
               \A i \in 1..Len(ms) : ms[i].type # "Connect"
        PROVE  Less(wq[Cli], wq'[Cli], {"Connect"})
    <3>1. \A i \in 1..Len(ms) : ms[i].type \notin {"Connect"}
      BY <2>3
    <3> QED BY <1>0, <2>3, <3>1, WqLess
  <2>4. ASSUME NEW t, Ready(Cli, t), NEW e \in ReqTypes, DoneThen(Cli, Kept(Cli, e))
        PROVE  Less(wq[Cli], wq'[Cli], {"Connect"})
    <3>1. Kept(Cli, e) \in Seq(Item) /\ \A i \in 1..Len(Kept(Cli, e)) : Kept(Cli, e)[i].type = e
      BY <2>4, KeptFollow
    <3> QED BY <2>3, <2>4, <3>1 DEF ReqTypes
  <2>5. /\ <<>> \o <<>> = <<>> /\ <<>> \o fin = fin /\ <<>> \in Seq(Item) /\ Len(<<>>) = 0
        /\ fin \in Seq(Item) /\ \A i \in 1..Len(fin) : fin[i].type = "Fin"
    <3>1. Plain("Fin") \in Item /\ Plain("Fin").type = "Fin"
      BY PlainIsItem DEF TaskTypes, MsgTypes, Plain, New
    <3> QED BY <3>1, OneMore
  <2> HIDE DEF fin
  <2>6. ASSUME NEW t, Ready(Cli, t), DoneThen(Cli, <<>> \o <<>>) \/ DoneThen(Cli, <<>> \o fin)
        PROVE  Less(wq[Cli], wq'[Cli], {"Connect"})
    <3>1. DoneThen(Cli, <<>>) \/ DoneThen(Cli, fin)
      BY <2>5, <2>6
    <3>2. /\ \A i \in 1..Len(fin) : fin[i].type # "Connect"
          /\ \A i \in 1..Len(<<>>) : <<>>[i].type # "Connect"
      BY <2>5
    <3> QED BY <2>3, <2>5, <2>6, <3>1, <3>2
  <2> QED BY <1>5, <2>1, <2>2, <2>4, <2>6 DEF Less
<1> QED BY <1>1, <1>2, <1>3, <1>4, <1>6, LogInIsConnecting DEF Connecting

LEMMA NextCounted ==
  ASSUME PeerInv, Counted, [Next]_vars
  PROVE  Counted'
<1>0. /\ TypeOK /\ CliInv /\ LogInOrder /\ CliInv' /\ dones \in Nat /\ connects \in Nat
      /\ cstate \in {"NULL", "CONNECTING", "PEER"}
  BY NextPeerInv, LogInIsInOrder DEF PeerInv, TypeOK, CliTypeOK
<1>1. user'[Cli] = "idle" => ~Connecting'
  BY <1>0 DEF CliInv, OneCall, Connecting, NoCall, Has, CallTypes
<1>2. CASE SameConnect
  BY <1>2 DEF SameConnect, Counted, Connecting
<1>3. CASE CliTask
  <2>1. Connecting' => Connecting
    BY <1>0, <1>3, CliTaskCounts DEF Connecting
  <2> QED BY <1>0, <1>1, <1>3, <2>1, CliTaskCounts DEF Counted
<1>4. CASE Client(CallConnect)
  <2>1. connects' = connects + 1 /\ UNCHANGED <<dones, cstate, chan>>
    BY <1>4 DEF Client, CallConnect, Call, chanVars
  <2> QED BY <1>0, <2>1 DEF Counted
<1>5. CASE SrvStep
  <2>1. CliViewKept
    BY <1>0, <1>5, SrvStepKeepsView
  <2> QED BY <1>2, <2>1 DEF CliViewKept, SameConnect, cliVars
<1> QED BY <1>0, <1>2, <1>3, <1>4, <1>5, NextSteps, OtherStepsSameConnect

\* Each sync_connect() gets its result once; while one is being carried out, its
\* caller waits for it and the master channel exists.
THEOREM ConnectDoneOnceHolds == Spec => []ConnectDoneOnce
<1>1. Init => Counted
  <2> SUFFICES ASSUME Init PROVE Counted
    OBVIOUS
  <2>1. dones = 0 /\ connects = 0 /\ cstate = "NULL" /\ wq[Cli] = <<>>
    BY SidesAreSides DEF Init, BaseInit, CliInit
  <2> QED BY <2>1, FewElements DEF Counted, Connecting
<1>2. PeerInv /\ Counted /\ [Next]_vars => Counted'
  BY NextCounted
<1>3. PeerInv /\ Counted => ConnectDoneOnce
  <2> SUFFICES ASSUME PeerInv, Counted PROVE ConnectDoneOnce
    OBVIOUS
  <2>1. user[Cli] \in {"idle", "call"}
    BY CliTypes DEF PeerInv, TypeOK, BaseTypeOK, ThreadTypeOK
  <2>2. cstate = "CONNECTING" => user[Cli] # "idle"
    BY DEF PeerInv, CliInv, OneCall
  <2> QED BY <2>1, <2>2 DEF Counted, Connecting, ConnectDoneOnce
<1> QED BY <1>1, <1>2, <1>3, PeerInvHolds, PTL DEF Spec
=============================================================================
