---------------------------- MODULE SessionBase ----------------------------
(***************************************************************************)
(* What the two ends of an ipc_session session have in common: the state of *)
(* Session_base and of its Graceful_finisher, the worker thread W of each   *)
(* *_session_impl, both halves of open_channel(), the destructor, and the   *)
(* session master channel that joins the two sides.                         *)
(*                                                                         *)
(* Threads, as in the source: U is the user's thread, W the worker thread   *)
(* that owns all session state (a FIFO of tasks, wq), Wc the callback thread *)
(* of the master channel, which only posts tasks onto W.  A call of the user *)
(* posts a task onto W and waits for it.                                    *)
(*                                                                         *)
(* The master channel (transport::struc::Channel) is outside src/.  It is   *)
(* modelled from the way src/ uses it: reliable FIFO delivery in each       *)
(* direction, requests with responses, messages nobody expects yet are kept, *)
(* and a channel-hosing error is emitted at most once per side, either by   *)
(* the on-error handler or by the failing call, never by both.              *)
(*                                                                         *)
(* The assertions of the code guard nothing here: they are properties.      *)
(***************************************************************************)
EXTENDS Naturals, Sequences, FiniteSets

CONSTANTS
  Cli, Srv,          \* the two sides of the session
  MaxAttempts,       \* bound: sync_connect() calls
  MaxOpens,          \* bound: open_channel() requests, by side
  NByCli, NBySrv,    \* init-channels requested by the client, by the server
  PassiveOk,         \* the sides whose user supplies a passive-open handler
  GracefulFinish,    \* S_GRACEFUL_FINISH_REQUIRED
  CancelsToNull,     \* the client's subclass may call cancel_peer_state_to_null()
  LinkMayFail,       \* the transport of the master channel may break
  ResourcesMayFail,  \* the server may fail to create a channel's resources
  LogInMayFail       \* either side may refuse the other's log-in message

ASSUME SidesDiffer == Cli # Srv
ASSUME BoundsAreNaturals ==
  MaxAttempts \in Nat /\ NByCli \in Nat /\ NBySrv \in Nat
ASSUME OpensAreBounded == MaxOpens \in [{Cli, Srv} -> Nat]
ASSUME SwitchesAreBoolean ==
  {GracefulFinish, CancelsToNull, LinkMayFail, ResourcesMayFail, LogInMayFail}
    \subseteq BOOLEAN

Sides == {Cli, Srv}
Peer(s) == IF s = Cli THEN Srv ELSE Cli

NInit == NByCli + NBySrv

VARIABLES
  \* The master channel, one connection at a time.
  conn,        \* number of the present connection; 0: none yet
  linkDown,    \* the present connection's transport has broken
  chan,        \* m_master_channel: "none" yet, "up", or "reset" (destroyed)
  chErr,       \* this side's struc::Channel has emitted its one error
  net,         \* messages on their way to this side
  expects,     \* task type posted for an open-channel request, or "none"
  cacheOpen,   \* requests received before any handler was registered
  cacheFin,    \* GracefulSessionEnd received before it was expected
  \* Thread W, thread U.
  wq,          \* tasks posted onto W
  inside,      \* what W has called and not returned from: a sync_request()
               \* ("open", "initAck"), on_done_func ("onDone"), the passive-open
               \* handler ("passive"), or "none"
  user,        \* whether U waits for a call to complete
  ret,         \* what the user's last call returned
  \* Session_base, open_channel(), Graceful_finisher, destructor.
  hosed,       \* hosed()
  onErr,       \* times the user's on-error handler has run
  opens,       \* open_channel() requests sent
  activeOpened, passiveOpened,   \* channels handed to the user
  finisher,    \* Graceful_finisher: "none", promise "pending" or "done"
  dtor         \* progress of the destructor

chanVars   == <<conn, linkDown, chan, chErr, net, expects, cacheOpen, cacheFin>>
threadVars == <<wq, inside, user, ret>>
peerVars   == <<hosed, onErr, opens, activeOpened, passiveOpened>>
endVars    == <<finisher, dtor>>
baseVars   == <<chanVars, threadVars, peerVars, endVars>>

-----------------------------------------------------------------------------
(* Messages and tasks.                                                      *)

MsgTypes == {"LogInReq", "LogInRsp", "OpenReq", "OpenRsp", "Fin"}
TaskTypes == MsgTypes \cup
  {"InitOpen", "Err", "PreInitErr", "AcceptLogIn", "Connect", "Complete",
   "InitHandlers", "Token", "Mdt", "Open", "DtorBegin", "DtorFin", "DtorFlush"}
Notes == {"none", "init", "user", "ok", "rejected", "unavailable"}
Results == Notes \cup {"true", "false", "error", "timeout", "token", "null"}

Item == [type : TaskTypes, id : Nat, note : Notes]

New(t, i, n) == [type |-> t, id |-> i, note |-> n]
Plain(t)     == New(t, 0, "none")

ChanTypeOK ==
  /\ conn \in Nat
  /\ linkDown \in BOOLEAN
  /\ chan \in [Sides -> {"none", "up", "reset"}]
  /\ chErr \in [Sides -> BOOLEAN]
  /\ net \in [Sides -> Seq(Item)]
  /\ expects \in [Sides -> {"none", "InitOpen", "OpenReq"}]
  /\ cacheOpen \in [Sides -> Seq(Item)]
  /\ cacheFin \in [Sides -> BOOLEAN]

ThreadTypeOK ==
  /\ wq \in [Sides -> Seq(Item)]
  /\ inside \in [Sides -> {"none", "open", "initAck", "onDone", "passive"}]
  /\ user \in [Sides -> {"idle", "call"}]
  /\ ret \in [Sides -> Results]

PeerTypeOK ==
  /\ hosed \in [Sides -> BOOLEAN]
  /\ onErr \in [Sides -> Nat]
  /\ opens \in [Sides -> Nat]
  /\ activeOpened \in [Sides -> SUBSET Nat]
  /\ passiveOpened \in [Sides -> SUBSET Nat]

EndTypeOK ==
  /\ finisher \in [Sides -> {"none", "pending", "done"}]
  /\ dtor \in [Sides -> {"no", "begin", "greet", "quiet", "fin", "await",
                         "flush", "stopping", "stopped"}]

BaseTypeOK == ChanTypeOK /\ ThreadTypeOK /\ PeerTypeOK /\ EndTypeOK

BaseInit ==
  /\ conn = 0
  /\ linkDown = FALSE
  /\ chan = [s \in Sides |-> "none"]
  /\ chErr = [s \in Sides |-> FALSE]
  /\ net = [s \in Sides |-> <<>>]
  /\ expects = [s \in Sides |-> "none"]
  /\ cacheOpen = [s \in Sides |-> <<>>]
  /\ cacheFin = [s \in Sides |-> FALSE]
  /\ wq = [s \in Sides |-> <<>>]
  /\ inside = [s \in Sides |-> "none"]
  /\ user = [s \in Sides |-> "idle"]
  /\ ret = [s \in Sides |-> "none"]
  /\ hosed = [s \in Sides |-> FALSE]
  /\ onErr = [s \in Sides |-> 0]
  /\ opens = [s \in Sides |-> 0]
  /\ activeOpened = [s \in Sides |-> {}]
  /\ passiveOpened = [s \in Sides |-> {}]
  /\ finisher = [s \in Sides |-> "none"]
  /\ dtor = [s \in Sides |-> "no"]

-----------------------------------------------------------------------------
(* The session master channel (external).                                   *)

\* The other end of side s's stream is closed, or the transport is broken.
Gone(s) == linkDown \/ chan[Peer(s)] = "reset"

SendOutcomes == {"false", "err", "ok"}

\* send(): "false" when the channel's error was emitted before (or the sending
\* direction was ended), "err" when this call is the one to emit it, "ok" when
\* the messages ms are queued.
Send(s, ms, out) ==
  \/ /\ out = "false" /\ (chErr[s] \/ dtor[s] = "stopping")
     /\ UNCHANGED <<net, chErr>>
  \/ /\ out = "err" /\ ~chErr[s] /\ dtor[s] # "stopping" /\ Gone(s)
     /\ chErr' = [chErr EXCEPT ![s] = TRUE]
     /\ UNCHANGED net
  \/ /\ out = "ok" /\ ~chErr[s] /\ dtor[s] # "stopping"
     /\ net' = IF Gone(s) THEN net ELSE [net EXCEPT ![Peer(s)] = @ \o ms]
     /\ UNCHANGED chErr

\* W tasks for the requests that were kept until a handler was registered.
Kept(s, t) == [i \in 1..Len(cacheOpen[s]) |-> [cacheOpen[s][i] EXCEPT !.type = t]]

\* The incoming direction of side s has ended.
EndOfStream(s) ==
  /\ chan[s] = "up" /\ ~chErr[s]
  /\ linkDown \/ (chan[Peer(s)] = "reset" /\ net[s] = <<>>)

\* The transport under the master channel breaks.
LinkFail ==
  /\ LinkMayFail /\ conn > 0 /\ ~linkDown
  /\ linkDown' = TRUE
  /\ UNCHANGED <<conn, chan, chErr, net, expects, cacheOpen, cacheFin,
                 threadVars, peerVars, endVars>>

-----------------------------------------------------------------------------
(* Threads: tasks on W, calls of the user, on-error.                        *)

\* Faulty: W serves its queue while it waits in a sync_request().
ReadyWhileWaiting(s, t) == wq[s] # <<>> /\ Head(wq[s]).type = t

\* W waits in a sync_request().
Waits(s) == inside[s] \in {"open", "initAck"}

\* W is free and its next task is of type t.
Ready(s, t) == wq[s] # <<>> /\ Head(wq[s]).type = t /\ inside[s] = "none"
Task(s)     == Head(wq[s])

Done(s)         == wq' = [wq EXCEPT ![s] = Tail(@)]
DoneThen(s, ts) == wq' = [wq EXCEPT ![s] = Tail(@) \o ts]
Post(s, t)      == wq' = [wq EXCEPT ![s] = Append(@, t)]

\* The user's call returns r.
Answer(s, r) ==
  /\ user' = [user EXCEPT ![s] = "idle"]
  /\ ret' = [ret EXCEPT ![s] = r]

\* The user may make a call.
Free(s) == user[s] = "idle" /\ dtor[s] = "no"

\* The user calls a method that posts a task of type t and waits for it.
Call(s, t) ==
  /\ Free(s)
  /\ Post(s, Plain(t))
  /\ user' = [user EXCEPT ![s] = "call"]
  /\ ret' = [ret EXCEPT ![s] = "none"]
  /\ UNCHANGED <<chanVars, inside, peerVars, endVars>>

\* hose(): remember the error, run the user's on-error handler.
Hose(s) ==
  /\ hosed' = [hosed EXCEPT ![s] = TRUE]
  /\ onErr' = [onErr EXCEPT ![s] = @ + 1]

\* Faulty: hose() without looking at hosed().
HoseAgain(s) == Hose(s)

HoseUnlessHosed(s) == IF hosed[s] THEN UNCHANGED <<hosed, onErr>> ELSE Hose(s)

-----------------------------------------------------------------------------
(* Thread Wc: handlers of the master channel, each posting onto W.          *)

Arrives(s, t) ==
  /\ chan[s] = "up" /\ ~chErr[s]
  /\ net[s] # <<>> /\ Head(net[s]).type = t
  /\ net' = [net EXCEPT ![s] = Tail(@)]

DeliverLogIn(s) ==
  /\ Arrives(s, "LogInReq") \/ Arrives(s, "LogInRsp")
  /\ Post(s, Head(net[s]))
  /\ UNCHANGED <<conn, linkDown, chan, chErr, expects, cacheOpen, cacheFin,
                 inside, user, ret, peerVars, endVars>>

\* Faulty: a request is posted although nobody expects it yet.
DeliverUnexpected(s) ==
  /\ Arrives(s, "OpenReq")
  /\ Post(s, [Head(net[s]) EXCEPT !.type = expects[s]])
  /\ UNCHANGED <<conn, linkDown, chan, chErr, expects, cacheOpen, cacheFin,
                 inside, user, ret, peerVars, endVars>>

DeliverOpenReq(s) ==
  /\ Arrives(s, "OpenReq")
  /\ IF expects[s] = "none"
       THEN /\ cacheOpen' = [cacheOpen EXCEPT ![s] = Append(@, Head(net[s]))]
            /\ UNCHANGED wq
       ELSE /\ Post(s, [Head(net[s]) EXCEPT !.type = expects[s]])
            /\ UNCHANGED cacheOpen
  /\ UNCHANGED <<conn, linkDown, chan, chErr, expects, cacheFin,
                 inside, user, ret, peerVars, endVars>>

DeliverFin(s) ==
  /\ Arrives(s, "Fin")
  /\ IF finisher[s] = "none"
       THEN cacheFin' = [cacheFin EXCEPT ![s] = TRUE] /\ UNCHANGED wq
       ELSE Post(s, Plain("Fin")) /\ UNCHANGED cacheFin
  /\ UNCHANGED <<conn, linkDown, chan, chErr, expects, cacheOpen,
                 inside, user, ret, peerVars, endVars>>

\* Response m answers the request that W waits for.
AnyAnswers(s, m) == TRUE   \* Faulty: responses are not matched with requests.
Answers(s, m)    == m.id = opens[s]

\* A response nobody waits for any more (open_channel() has timed out).
DropLateRsp(s) ==
  /\ Arrives(s, "OpenRsp")
  /\ ~Waits(s) \/ (inside[s] = "open" /\ ~Answers(s, Head(net[s])))
  /\ UNCHANGED <<conn, linkDown, chan, chErr, expects, cacheOpen, cacheFin,
                 threadVars, peerVars, endVars>>

\* The channel-hosing error is found by Wc while W is not in a sync_request().
DetectError(s) ==
  /\ EndOfStream(s) /\ ~Waits(s)
  /\ chErr' = [chErr EXCEPT ![s] = TRUE]
  /\ Post(s, Plain("Err"))
  /\ UNCHANGED <<conn, linkDown, chan, net, expects, cacheOpen, cacheFin,
                 inside, user, ret, peerVars, endVars>>

-----------------------------------------------------------------------------
(* open_channel(), active side.                                             *)

\* Faulty: the session's error is not looked at.
NeverPreempted(s) == FALSE

\* The task is preempted by an earlier session-hosing error.
Preempted(s) == hosed[s]

\* The user calls open_channel() and has a metadata builder for it.
CallOpen(s) == opens[s] < MaxOpens[s] /\ Call(s, "Open")

\* The task open_channel() runs on W, up to the point where it waits.
Open(s) ==
  /\ Ready(s, "Open")
  /\ Done(s)
  /\ \/ /\ Preempted(s)
        /\ Answer(s, "false")
        /\ UNCHANGED <<net, chErr, inside, opens, hosed, onErr>>
     \/ /\ ~Preempted(s)
        /\ opens' = [opens EXCEPT ![s] = @ + 1]
        /\ \E out \in SendOutcomes :
             /\ Send(s, <<New("OpenReq", opens[s] + 1, "user")>>, out)
             /\ IF out = "ok" THEN /\ inside' = [inside EXCEPT ![s] = "open"]
                                   /\ UNCHANGED <<user, ret>>
                              ELSE Answer(s, "false") /\ UNCHANGED inside
             /\ IF out = "err" THEN Hose(s) ELSE UNCHANGED <<hosed, onErr>>
  /\ UNCHANGED <<conn, linkDown, chan, expects, cacheOpen, cacheFin,
                 activeOpened, passiveOpened, endVars>>

\* The response has arrived in time; W goes on.
OpenAnswered(s) ==
  /\ inside[s] = "open"
  /\ Arrives(s, "OpenRsp")
  /\ Answers(s, Head(net[s]))
  /\ inside' = [inside EXCEPT ![s] = "none"]
  /\ activeOpened' = [activeOpened EXCEPT
       ![s] = IF Head(net[s]).note = "ok" THEN @ \cup {opens[s]} ELSE @]
  /\ Answer(s, Head(net[s]).note)
  /\ UNCHANGED <<conn, linkDown, chan, chErr, expects, cacheOpen, cacheFin, wq,
                 hosed, onErr, opens, passiveOpened, endVars>>

\* S_OPEN_CHANNEL_TIMEOUT has passed: an error to this call only.
OpenTimeout(s) ==
  /\ inside[s] = "open"
  /\ inside' = [inside EXCEPT ![s] = "none"]
  /\ Answer(s, "timeout")
  /\ UNCHANGED <<chanVars, wq, peerVars, endVars>>

\* The channel breaks while W waits: either sync_request() itself emits the
\* error, and open_channel() hoses the session, or the on-error handler does.
OpenBroken(s) ==
  /\ inside[s] = "open"
  /\ EndOfStream(s)
  /\ chErr' = [chErr EXCEPT ![s] = TRUE]
  /\ inside' = [inside EXCEPT ![s] = "none"]
  /\ Answer(s, "false")
  /\ \/ Hose(s) /\ UNCHANGED wq
     \/ Post(s, Plain("Err")) /\ UNCHANGED <<hosed, onErr>>
  /\ UNCHANGED <<conn, linkDown, chan, net, expects, cacheOpen, cacheFin,
                 opens, activeOpened, passiveOpened, endVars>>

(* open_channel(), passive side: on_master_channel_open_channel_req().       *)

\* What the request may be answered with; only the server creates resources.
Verdicts(s) ==
  IF s \notin PassiveOk THEN {"rejected"}
  ELSE {"ok"} \cup (IF s = Srv /\ ResourcesMayFail THEN {"unavailable"} ELSE {})

\* First the response goes out; the user's handler is called after it, by the
\* same task.  With m_master_channel null and the session not hosed the task has
\* no defined outcome: nothing is modelled that runs on W after it.
OnOpenReq(s) ==
  /\ Ready(s, "OpenReq")
  /\ \/ /\ Preempted(s)
        /\ Done(s)
        /\ UNCHANGED <<net, chErr, inside, hosed, onErr>>
     \/ /\ ~Preempted(s) /\ chan[s] = "up"
        /\ \E v \in Verdicts(s), out \in SendOutcomes :
             /\ Send(s, <<New("OpenRsp", Task(s).id, v)>>, out)
             /\ IF out = "err" THEN Hose(s) ELSE UNCHANGED <<hosed, onErr>>
             /\ IF out = "ok" /\ v = "ok"
                  THEN inside' = [inside EXCEPT ![s] = "passive"] /\ UNCHANGED wq
                  ELSE Done(s) /\ UNCHANGED inside
  /\ UNCHANGED <<conn, linkDown, chan, expects, cacheOpen, cacheFin,
                 user, ret, opens, activeOpened, passiveOpened, endVars>>

\* W of side s is in the user's passive-open handler, given channel i.
Giving(s) == inside[s] = "passive" /\ wq[s] # <<>> /\ Task(s).type = "OpenReq"
BeingGiven(s, i) == Giving(s) /\ Task(s).id = i

\* on_passive_open_func() has returned, and with it the task of the request.
OnPassiveOpen(s) ==
  /\ Giving(s)
  /\ Done(s)
  /\ inside' = [inside EXCEPT ![s] = "none"]
  /\ passiveOpened' = [passiveOpened EXCEPT ![s] = @ \cup {Task(s).id}]
  /\ UNCHANGED <<chanVars, user, ret, hosed, onErr, opens, activeOpened, endVars>>

-----------------------------------------------------------------------------
(* Graceful_finisher and the destructor, dtor_async_worker_stop().           *)

\* GracefulSessionEnd has arrived: fulfil the promise, end the session.
OnFin(s) ==
  /\ Ready(s, "Fin")
  /\ Done(s)
  /\ finisher' = [finisher EXCEPT ![s] = "done"]
  /\ HoseUnlessHosed(s)
  /\ UNCHANGED <<chanVars, inside, user, ret, opens, activeOpened,
                 passiveOpened, dtor>>

\* The tasks and the cache after Graceful_finisher's constructor, the task at
\* the head of wq being the one that creates it; ts are tasks it posts before.
EmplaceFinisher(s, ts) ==
  LET fires == cacheFin[s] /\ ~chErr[s]
  IN  /\ finisher' = [finisher EXCEPT ![s] = "pending"]
      /\ DoneThen(s, ts \o (IF fires THEN <<Plain("Fin")>> ELSE <<>>))
      /\ cacheFin' = [cacheFin EXCEPT ![s] = @ /\ ~fires]

\* U enters the destructor.
DtorStart(s) ==
  /\ Free(s)
  /\ dtor' = [dtor EXCEPT ![s] = IF GracefulFinish THEN "begin" ELSE "flush"]
  /\ Post(s, Plain(IF GracefulFinish THEN "DtorBegin" ELSE "DtorFlush"))
  /\ UNCHANGED <<chanVars, inside, user, ret, peerVars, finisher>>

\* W looks whether there is a Graceful_finisher.
DtorBegin(s) ==
  /\ Ready(s, "DtorBegin")
  /\ Done(s)
  /\ dtor' = [dtor EXCEPT ![s] = IF finisher[s] = "none" THEN "quiet" ELSE "greet"]
  /\ UNCHANGED <<chanVars, inside, user, ret, peerVars, finisher>>

\* U goes on: Graceful_finisher::on_dtor_start(), or straight to the flush.
DtorGreet(s) ==
  /\ dtor[s] = "greet"
  /\ dtor' = [dtor EXCEPT ![s] = "fin"]
  /\ Post(s, Plain("DtorFin"))
  /\ UNCHANGED <<chanVars, inside, user, ret, peerVars, finisher>>

\* Faulty: when GracefulSessionEnd cannot be sent, the wait is called off here.
DtorFinCallsOff(s) ==
  /\ Ready(s, "DtorFin")
  /\ Done(s)
  /\ \E out \in SendOutcomes :
       /\ Send(s, <<Plain("Fin")>>, out)
       /\ finisher' = IF out = "ok" THEN finisher ELSE [finisher EXCEPT ![s] = "done"]
  /\ dtor' = [dtor EXCEPT ![s] = "await"]
  /\ UNCHANGED <<conn, linkDown, chan, expects, cacheOpen, cacheFin,
                 inside, user, ret, peerVars>>

\* W sends GracefulSessionEnd; whether that works is not looked at.
DtorFin(s) ==
  /\ Ready(s, "DtorFin")
  /\ Done(s)
  /\ \E out \in SendOutcomes : Send(s, <<Plain("Fin")>>, out)
  /\ dtor' = [dtor EXCEPT ![s] = "await"]
  /\ UNCHANGED <<conn, linkDown, chan, expects, cacheOpen, cacheFin,
                 inside, user, ret, peerVars, finisher>>

\* Faulty: U does not wait for the promise.
MayFlushAtOnce(s) == dtor[s] \in {"quiet", "await"}

\* U has waited for m_opposing_session_done, if there is anything to wait for.
MayFlush(s) == dtor[s] = "quiet" \/ (dtor[s] = "await" /\ finisher[s] = "done")

DtorGoOn(s) ==
  /\ MayFlush(s)
  /\ dtor' = [dtor EXCEPT ![s] = "flush"]
  /\ Post(s, Plain("DtorFlush"))
  /\ UNCHANGED <<chanVars, inside, user, ret, peerVars, finisher>>

\* W flushes the outgoing direction, async_end_sending().
DtorFlush(s) ==
  /\ Ready(s, "DtorFlush")
  /\ Done(s)
  /\ dtor' = [dtor EXCEPT ![s] = "stopping"]
  /\ UNCHANGED <<chanVars, inside, user, ret, peerVars, finisher>>

\* U stops and joins W, whose remaining tasks never run; the channel goes too.
DtorStop(s) ==
  /\ dtor[s] = "stopping"
  /\ dtor' = [dtor EXCEPT ![s] = "stopped"]
  /\ wq' = [wq EXCEPT ![s] = <<>>]
  /\ chan' = [chan EXCEPT ![s] = "reset"]
  /\ net' = [net EXCEPT ![s] = <<>>]
  /\ ret' = [ret EXCEPT ![s] = "none"]
  /\ UNCHANGED <<conn, linkDown, chErr, expects, cacheOpen, cacheFin,
                 inside, user, peerVars, finisher>>

=============================================================================
