---------------------------- MODULE SyncIoProofs ----------------------------
(***************************************************************************)
(* The pipes and queues of the sync_io adapters: types, bytes against       *)
(* results, the one code against its reader, and the promise to the user of *)
(* the event loop, for any number of channels and calls.                    *)
(***************************************************************************)
EXTENDS SyncIo, SequenceTheorems, TLAPS

-----------------------------------------------------------------------------
(* The channels.                                                            *)

\* A result that is to be signalled is in the queue, and no wait is made while
\* the user's handler runs.
ResultsQueued ==
  /\ w = "chan" => chanQ # <<>>
  /\ u = "chan" => ~chanWait

\* What was told and what is queued, in this order, are the opened channels.
InOrder ==
  /\ Len(told) + Len(chanQ) = opened
  /\ \A i \in 1..Len(told) : told[i] = i
  /\ \A i \in 1..Len(chanQ) : chanQ[i] = Len(told) + i

\* The error is with W, in the pipe, or told.
ErrOnce == errByte + (IF w = "err" THEN 1 ELSE 0) + errTold = (IF coreErr THEN 1 ELSE 0)

ChanInv == SaTypeOK /\ BytesMatchResults /\ ResultsQueued /\ InOrder /\ ErrOnce

\* The first result of a queue, taken off it.
LEMMA Popped ==
  ASSUME NEW S, NEW q \in Seq(S), q # <<>>
  PROVE  /\ Len(q) \in Nat \ {0}
         /\ SubSeq(q, 2, Len(q)) \in Seq(S)
         /\ Len(SubSeq(q, 2, Len(q))) = Len(q) - 1
         /\ \A i \in 1..(Len(q) - 1) : SubSeq(q, 2, Len(q))[i] = q[i + 1]
         /\ SubSeq(q, 1, 1) = <<q[1]>>
         /\ q[1] \in S
<1>1. Len(q) \in Nat \ {0}
  OBVIOUS
<1>2. q[1] \in S
  BY <1>1
<1>3. SubSeq(q, 1, 1) = <<q[1]>>
  <2>1. /\ SubSeq(q, 1, 1) \in Seq(S)
        /\ Len(SubSeq(q, 1, 1)) = 1
        /\ SubSeq(q, 1, 1)[1] = q[1]
    BY <1>1, <1>2, SubSeqProperties
  <2>2. <<q[1]>> \in Seq(S)
    BY <1>2
  <2>3. Len(<<q[1]>>) = 1 /\ <<q[1]>>[1] = q[1]
    OBVIOUS
  <2>4. \A i \in 1..1 : SubSeq(q, 1, 1)[i] = <<q[1]>>[i]
    BY <2>1, <2>3
  <2> QED BY <2>1, <2>2, <2>3, <2>4, SeqEqual
<1>4. \A i \in 2..Len(q) : q[i] \in S
  BY <1>1
<1>5. /\ SubSeq(q, 2, Len(q)) \in Seq(S)
      /\ Len(SubSeq(q, 2, Len(q))) = IF 2 <= Len(q) THEN Len(q) - 2 + 1 ELSE 0
      /\ \A i \in 1..(Len(q) - 2 + 1) : SubSeq(q, 2, Len(q))[i] = q[2 + i - 1]
  BY <1>1, <1>4, SubSeqProperties
<1>6. /\ Len(SubSeq(q, 2, Len(q))) = Len(q) - 1
      /\ \A i \in 1..(Len(q) - 1) : SubSeq(q, 2, Len(q))[i] = q[i + 1]
  <2>1. Len(q) - 2 + 1 = Len(q) - 1 /\ (~(2 <= Len(q)) => Len(q) - 1 = 0)
    <3>1. \A n \in Nat \ {0} : n - 2 + 1 = n - 1 /\ (~(2 <= n) => n - 1 = 0)
      OBVIOUS
    <3> QED BY <1>1, <3>1
  <2>2. \A i \in 1..(Len(q) - 1) : 2 + i - 1 = i + 1
    BY <1>1
  <2> QED BY <1>5, <2>1, <2>2
<1> QED BY <1>1, <1>2, <1>3, <1>4, <1>5, <1>6

\* The loop serves the pipe of the channels: the next channel, in order, moves
\* from the queue to the user.
LEMMA NextIsGiven ==
  ASSUME ChanInv, OnChanEvent
  PROVE  /\ chanQ # <<>>
         /\ Len(told) < opened
         /\ told' = Append(told, Len(told) + 1)
         /\ ChanInv'
<1>t. SaTypeOK /\ chanQ \in Seq(1..MaxChans) /\ told \in Seq(1..MaxChans) /\ opened \in 0..MaxChans
      /\ chanBytes \in Nat
  BY DEF ChanInv, SaTypeOK
<1>a. /\ u = "loop" /\ chanWait /\ chanBytes > 0 /\ dtor = "no"
      /\ chanQ' = SubSeq(chanQ, 2, Len(chanQ)) /\ told' = told \o SubSeq(chanQ, 1, 1)
      /\ chanWait' = FALSE /\ u' = "chan"
      /\ UNCHANGED <<role, core, coreChan, coreErr, started, engine, onErr, onChan, inits, targetErr,
                     errByte, errWait, errTold, chanBytes, opened, w, dtor>>
  BY DEF OnChanEvent, InLoop, coreVars, funcVars, errVars
<1>i. /\ Len(told) \in Nat /\ Len(chanQ) \in Nat /\ Len(told) + Len(chanQ) = opened
      /\ \A i \in 1..Len(told) : told[i] = i
      /\ \A i \in 1..Len(chanQ) : chanQ[i] = Len(told) + i
  BY <1>t DEF ChanInv, InOrder
<1>1. chanQ # <<>>
  BY <1>t, <1>a DEF ChanInv, BytesMatchResults
<1>2. chanQ[1] = Len(told) + 1 /\ Len(told) < opened
  BY <1>t, <1>1, Popped DEF ChanInv, InOrder
<1>3. told' = Append(told, Len(told) + 1)
  BY <1>t, <1>a, <1>1, <1>2, Popped
<1>4. /\ told' \in Seq(1..MaxChans) /\ Len(told') = Len(told) + 1
      /\ \A i \in 1..Len(told) : told'[i] = told[i]
      /\ told'[Len(told) + 1] = Len(told) + 1
  <2>1. Len(told) + 1 \in 1..MaxChans
    BY <1>t, <1>1, <1>2, Popped
  <2> QED BY <1>t, <1>3, <2>1, AppendProperties
<1>5. /\ chanQ' \in Seq(1..MaxChans) /\ Len(chanQ') = Len(chanQ) - 1
      /\ \A i \in 1..(Len(chanQ) - 1) : chanQ'[i] = chanQ[i + 1]
  BY <1>t, <1>a, <1>1, Popped
<1>6. InOrder'
  <2>1. Len(told') + Len(chanQ') = opened'
    <3>1. Len(told) + 1 + (Len(chanQ) - 1) = opened
      BY <1>i
    <3> QED BY <1>a, <1>4, <1>5, <3>1
  <2>2. \A i \in 1..Len(told') : told'[i] = i
    BY <1>i, <1>4
  <2>3. \A i \in 1..Len(chanQ') : chanQ'[i] = Len(told') + i
    BY <1>i, <1>4, <1>5
  <2> QED BY <2>1, <2>2, <2>3 DEF InOrder
<1>7. BytesMatchResults'
  BY <1>t, <1>a, <1>5 DEF ChanInv, BytesMatchResults
<1>8. ResultsQueued'
  <2>1. w = "chan" => Len(chanQ) > 1
    BY <1>t, <1>i, <1>a DEF ChanInv, BytesMatchResults
  <2>2. w' = "chan" => Len(chanQ') > 0
    BY <1>i, <1>a, <1>5, <2>1
  <2>3. w' = "chan" => chanQ' # <<>>
    BY <1>5, <2>2
  <2> QED BY <1>a, <2>3 DEF ResultsQueued
<1>9. SaTypeOK'
  BY <1>t, <1>a, <1>4, <1>5 DEF SaTypeOK
<1>10. ErrOnce'
  BY <1>a DEF ChanInv, ErrOnce
<1> QED BY <1>1, <1>2, <1>3, <1>6, <1>7, <1>8, <1>9, <1>10 DEF ChanInv

\* A result joins the queue.
LEMMA NextIsQueued ==
  ASSUME ChanInv, StoreChan
  PROVE  ChanInv'
<1>t. SaTypeOK /\ chanQ \in Seq(1..MaxChans) /\ told \in Seq(1..MaxChans) /\ opened \in 0..MaxChans
      /\ chanBytes \in Nat
  BY DEF ChanInv, SaTypeOK
<1>a. /\ w = "idle" /\ w' = "chan" /\ opened < MaxChans /\ opened' = opened + 1
      /\ chanQ' = Append(chanQ, opened + 1)
      /\ UNCHANGED <<role, core, coreChan, coreErr, started, engine, onErr, onChan, inits, targetErr,
                     errByte, errWait, errTold, chanBytes, chanWait, told, u, dtor>>
  BY DEF StoreChan, CoreMayReport, coreVars, funcVars, errVars
<1>1. /\ chanQ' \in Seq(1..MaxChans) /\ Len(chanQ') = Len(chanQ) + 1
      /\ \A i \in 1..Len(chanQ) : chanQ'[i] = chanQ[i]
      /\ chanQ'[Len(chanQ) + 1] = opened + 1
  BY <1>t, <1>a, ChansIsNat
<1>2. InOrder'
  <2>1. Len(told') + Len(chanQ') = opened'
    BY <1>t, <1>a, <1>1 DEF ChanInv, InOrder
  <2>2. \A i \in 1..Len(told') : told'[i] = i
    BY <1>a DEF ChanInv, InOrder
  <2>3. \A i \in 1..Len(chanQ') : chanQ'[i] = Len(told') + i
    <3>1. opened + 1 = Len(told) + (Len(chanQ) + 1)
      BY <1>t DEF ChanInv, InOrder
    <3>2. \A i \in 1..(Len(chanQ) + 1) : i \in 1..Len(chanQ) \/ i = Len(chanQ) + 1
      BY <1>t
    <3> QED BY <1>a, <1>1, <3>1, <3>2 DEF ChanInv, InOrder
  <2> QED BY <2>1, <2>2, <2>3 DEF InOrder
<1>3. BytesMatchResults'
  BY <1>t, <1>a, <1>1 DEF ChanInv, BytesMatchResults
<1>4. ResultsQueued'
  BY <1>t, <1>a, <1>1 DEF ChanInv, ResultsQueued
<1>5. SaTypeOK'
  BY <1>t, <1>a, <1>1, ChansIsNat DEF SaTypeOK
<1>6. ErrOnce'
  BY <1>a DEF ChanInv, ErrOnce
<1> QED BY <1>2, <1>3, <1>4, <1>5, <1>6 DEF ChanInv

\* Every other step of the session, which leaves the channels in order.
LEMMA SessionStep ==
  ASSUME ChanInv,
         \/ SyncConnect \/ FillCore \/ StartOps \/ ReplaceEventWaitHandles
         \/ \E withChan \in BOOLEAN : InitHandlers(withChan)
         \/ SignalChan \/ StoreErr \/ SignalErr \/ Joined
         \/ OnErrEvent \/ OnChanHandled \/ Destroy
         \/ UNCHANGED saVars
  PROVE  ChanInv'
<1>t. /\ SaTypeOK /\ BytesMatchResults /\ ResultsQueued /\ InOrder /\ ErrOnce
      /\ chanBytes \in Nat /\ errByte \in Nat /\ errTold \in Nat /\ Len(chanQ) \in Nat
  BY DEF ChanInv, SaTypeOK
<1>1. ASSUME UNCHANGED <<chanQ, told, opened>> PROVE InOrder'
  BY <1>t, <1>1 DEF InOrder
<1>2. ASSUME UNCHANGED chanVars, u' = u, w' = w PROVE (BytesMatchResults /\ ResultsQueued /\ InOrder)'
  BY <1>t, <1>1, <1>2 DEF chanVars, BytesMatchResults, ResultsQueued
<1>3. ASSUME UNCHANGED errVars, UNCHANGED coreErr, (w' = "err") <=> (w = "err") PROVE ErrOnce'
  BY <1>t, <1>3 DEF errVars, ErrOnce
<1> USE <1>t DEF SaTypeOK, ChanInv
<1>4. CASE SyncConnect
  BY <1>2, <1>3, <1>4 DEF SyncConnect, funcVars, errVars, chanVars
<1>5. CASE FillCore
  BY <1>2, <1>3, <1>5 DEF FillCore, funcVars, errVars, chanVars
<1>6. CASE StartOps
  <2>1. (BytesMatchResults /\ ResultsQueued /\ InOrder)'
    BY <1>1, <1>6 DEF StartOps, InLoop, BytesMatchResults, ResultsQueued
  <2>2. ErrOnce'
    BY <1>6 DEF StartOps, coreVars, ErrOnce
  <2> QED BY <1>6, <2>1, <2>2 DEF StartOps, coreVars, funcVars
<1>7. CASE ReplaceEventWaitHandles
  BY <1>2, <1>3, <1>7 DEF ReplaceEventWaitHandles, coreVars, funcVars, errVars, chanVars
<1>8. ASSUME NEW withChan \in BOOLEAN, InitHandlers(withChan) PROVE ChanInv'
  <2>1. /\ UNCHANGED <<role, coreErr, started, engine, errVars, chanVars, w, u, dtor>>
        /\ core' \in {"null", "almost", "peer"} /\ coreChan' \in BOOLEAN
        /\ onErr' \in BOOLEAN /\ onChan' \in BOOLEAN /\ inits' \in 0..MaxInits
    BY <1>8, InitsIsNat DEF InitHandlers
  <2> QED BY <1>2, <1>3, <2>1 DEF errVars, chanVars
<1>9. CASE SignalChan
  <2>1. (BytesMatchResults /\ ResultsQueued)' /\ InOrder'
    BY <1>1, <1>9 DEF SignalChan, BytesMatchResults, ResultsQueued
  <2> QED BY <1>3, <1>9, <2>1 DEF SignalChan, coreVars, funcVars, errVars
<1>10. CASE StoreErr
  <2>1. (BytesMatchResults /\ ResultsQueued)' /\ InOrder'
    BY <1>1, <1>10 DEF StoreErr, CoreMayReport, chanVars, BytesMatchResults, ResultsQueued
  <2>2. ErrOnce'
    BY <1>10 DEF StoreErr, CoreMayReport, ErrOnce
  <2> QED BY <1>10, <2>1, <2>2 DEF StoreErr, funcVars, chanVars
<1>11. CASE SignalErr
  <2>1. (BytesMatchResults /\ ResultsQueued)' /\ InOrder'
    BY <1>1, <1>11 DEF SignalErr, chanVars, BytesMatchResults, ResultsQueued
  <2>2. ErrOnce'
    BY <1>11 DEF SignalErr, coreVars, ErrOnce
  <2> QED BY <1>11, <2>1, <2>2 DEF SignalErr, coreVars, funcVars, chanVars
<1>12. CASE Joined
  BY <1>2, <1>3, <1>12 DEF Joined, coreVars, funcVars, errVars, chanVars
<1>13. CASE OnErrEvent
  <2>1. ErrOnce'
    BY <1>13 DEF OnErrEvent, coreVars, ErrOnce
  <2>2. errByte' \in Nat /\ errTold' \in Nat
    BY <1>13 DEF OnErrEvent
  <2>3. (BytesMatchResults /\ ResultsQueued /\ InOrder)'
    BY <1>2, <1>13 DEF OnErrEvent
  <2>4. SaTypeOK'
    BY <1>13, <2>2 DEF OnErrEvent, coreVars, chanVars
  <2> QED BY <2>1, <2>3, <2>4
<1>14. CASE OnChanHandled
  <2>1. chanBytes - 1 \in Nat
    <3>1. w = "chan" => Len(chanQ) > 0
      BY DEF ResultsQueued
    <3> QED BY <1>14, <3>1 DEF OnChanHandled, BytesMatchResults
  <2>2. (BytesMatchResults /\ ResultsQueued)' /\ InOrder'
    BY <1>1, <1>14, <2>1 DEF OnChanHandled, BytesMatchResults, ResultsQueued
  <2> QED BY <1>3, <1>14, <2>1, <2>2 DEF OnChanHandled, coreVars, funcVars, errVars
<1>15. CASE Destroy
  BY <1>2, <1>3, <1>15 DEF Destroy, coreVars, funcVars, errVars, chanVars
<1>16. CASE UNCHANGED saVars
  BY <1>2, <1>3, <1>16 DEF saVars, errVars, chanVars
<1> QED BY <1>4, <1>5, <1>6, <1>7, <1>8, <1>9, <1>10, <1>11, <1>12, <1>13, <1>14, <1>15, <1>16

-----------------------------------------------------------------------------
(* The calls of async_accept().                                             *)

\* A call yet to be made has left no trace; a call in flight is not answered;
\* the code that is to be told is that of the session's assignment.
CallsInOrder ==
  /\ onDone <= calls
  /\ \A n \in Calls : n > calls => answers[n] = "none" /\ n \notin filled
  /\ onDone # 0 => answers[onDone] = "none"
  /\ atCore # 0 => atCore \notin filled
  /\ accByte > 0 \/ s = "stored" => (accErr = "ok" <=> onDone \in filled)

AccInv == AccTypeOK /\ OneAcceptInFlight /\ CallsInOrder /\ CodeIsOwn

LEMMA AcceptStep ==
  ASSUME AccInv,
         \/ AccStartOps \/ AsyncAccept \/ AcceptSignal \/ AcceptAborted \/ AcceptRead
         \/ AcceptHandled \/ AccDestroy \/ AccJoined \/ UNCHANGED accVars
         \/ \E result \in Results : AcceptWrite(result)
  PROVE  AccInv'
<1> USE AcceptsIsNat DEF AccInv, AccTypeOK, OneAcceptInFlight, CallsInOrder, CodeIsOwn, Calls, Results
<1>1. CASE AccStartOps
  BY <1>1 DEF AccStartOps
<1>2. CASE AsyncAccept
  BY <1>2 DEF AsyncAccept
<1>3. ASSUME NEW result \in Results, AcceptWrite(result) PROVE AccInv'
  <2>1. /\ atCore # 0 /\ onDone = atCore /\ onDone' = onDone /\ inDone' = inDone /\ calls' = calls
        /\ atCore \in Nat /\ atCore' = 0 /\ s = "idle" /\ s' = "stored" /\ accErr' = result
        /\ accByte' = accByte /\ answers' = answers
    BY <1>3 DEF AcceptWrite
  <2>2. accByte = 0
    BY <2>1
  <2>3. AccTypeOK'
    <3>1. atCore \in Calls
      BY <2>1
    <3>2. filled' \subseteq Calls
      BY <1>3, <3>1 DEF AcceptWrite
    <3>3. /\ {calls, onDone, inDone, atCore}' \subseteq 0..MaxAccepts
          /\ accErr' \in Results /\ accByte' \in Nat /\ s' \in {"idle", "stored"}
          /\ answers' \in [Calls -> {"none"} \cup Results]
      BY <2>1
    <3>4. accStarted' \in BOOLEAN /\ accWait' \in BOOLEAN /\ accDtor' \in {"no", "joining", "done"}
      BY <1>3, Zenon DEF AcceptWrite
    <3> QED BY <3>2, <3>3, <3>4
  <2>4. OneAcceptInFlight'
    BY <2>1, <2>2
  <2>5. CallsInOrder'
    BY <1>3, <2>1, <2>2 DEF AcceptWrite
  <2>6. CodeIsOwn'
    BY <2>1
  <2> QED BY <2>3, <2>4, <2>5, <2>6
<1>4. CASE AcceptSignal
  BY <1>4 DEF AcceptSignal
<1>5. CASE AcceptAborted
  BY <1>5 DEF AcceptAborted
<1>6. CASE AcceptRead
  <2>1. /\ accByte = 1 /\ s = "idle" /\ atCore = 0 /\ accByte' = 0 /\ s' = "idle"
        /\ atCore' = 0 /\ onDone' = 0 /\ onDone \in Calls /\ accErr \in Results
        /\ accWait' \in BOOLEAN
    <3>0. /\ accByte > 0 /\ accByte \in Nat /\ accByte' = accByte - 1 /\ accWait' = FALSE
          /\ onDone' = 0 /\ atCore' = atCore /\ s' = s /\ s \in {"idle", "stored"}
      BY <1>6 DEF AcceptRead
    <3>1. accByte = 1 /\ s = "idle" /\ atCore = 0
      BY <3>0
    <3>2. onDone # 0 /\ accErr # "none"
      BY <3>0, <3>1
    <3>3. onDone \in Calls
      BY <3>2
    <3>4. accErr \in Results
      BY <3>2
    <3>5. accByte' = 0
      BY <3>0, <3>1
    <3>6. accWait' \in BOOLEAN
      BY <3>0, Zenon
    <3> QED BY <3>0, <3>1, <3>3, <3>4, <3>5, <3>6
  <2>2. answers' \in [Calls -> {"none"} \cup Results]
    BY <1>6, <2>1 DEF AcceptRead
  <2>3. \A n \in Calls : n > calls => answers'[n] = "none"
    BY <1>6, <2>1 DEF AcceptRead
  <2> QED BY <1>6, <2>1, <2>2, <2>3 DEF AcceptRead
<1>7. CASE AccDestroy
  BY <1>7 DEF AccDestroy
<1>8. CASE AccJoined
  BY <1>8 DEF AccJoined
<1>9. CASE UNCHANGED accVars
  BY <1>9 DEF accVars
<1>10. CASE AcceptHandled
  BY <1>10 DEF AcceptHandled
<1> QED BY <1>1, <1>2, <1>3, <1>4, <1>5, <1>6, <1>7, <1>8, <1>9, <1>10

-----------------------------------------------------------------------------
(* The whole.                                                               *)

\* What each disjunct of Next does to either adapter.
LEMMA StepParts ==
  ASSUME [Next]_vars
  PROVE  /\ \/ SyncConnect \/ FillCore \/ StartOps \/ ReplaceEventWaitHandles
            \/ \E withChan \in BOOLEAN : InitHandlers(withChan)
            \/ SignalChan \/ StoreErr \/ SignalErr \/ Joined
            \/ OnErrEvent \/ OnChanHandled \/ Destroy
            \/ OnChanEvent \/ StoreChan
            \/ UNCHANGED saVars
         /\ \/ AccStartOps \/ AsyncAccept \/ AcceptSignal \/ AcceptAborted \/ AcceptRead
            \/ AcceptHandled \/ AccDestroy \/ AccJoined \/ UNCHANGED accVars
            \/ \E result \in Results : AcceptWrite(result)
<1>1. CASE (UserOfSession \/ LoopOfSession) /\ UNCHANGED accVars
  BY <1>1 DEF UserOfSession, LoopOfSession
<1>2. CASE Worker /\ UNCHANGED accVars
  BY <1>2 DEF Worker
<1>3. CASE UserOfServer /\ UNCHANGED saVars
  BY <1>3 DEF UserOfServer
<1>4. ASSUME NEW result \in Results, Accepted(result)
      PROVE  AcceptWrite(result) /\ (FillCore \/ UNCHANGED saVars)
  BY <1>4 DEF Accepted
<1>5. CASE (AcceptSignal \/ AcceptAborted \/ AccJoined) /\ UNCHANGED saVars
  BY <1>5
<1>6. CASE UNCHANGED vars
  BY <1>6 DEF vars, saVars, accVars
<1> QED BY <1>1, <1>2, <1>3, <1>4, <1>5, <1>6 DEF Next

LEMMA InvStep ==
  ASSUME ChanInv, AccInv, [Next]_vars
  PROVE  ChanInv' /\ AccInv'
BY StepParts, SessionStep, NextIsGiven, NextIsQueued, AcceptStep

LEMMA InvInit ==
  ASSUME Init
  PROVE  ChanInv /\ AccInv
<1>1. ChanInv
  <2>1. Len(<<>>) = 0 /\ <<>> \in Seq(1..MaxChans)
    OBVIOUS
  <2>2. SaTypeOK
    <3>1. onErr \in BOOLEAN /\ onChan \in BOOLEAN /\ role \in {"cli", "srv"}
      BY DEF Init, SaInit
    <3>2. opened \in 0..MaxChans /\ inits \in 0..MaxInits
      BY ChansIsNat, InitsIsNat DEF Init, SaInit
    <3>3. chanQ \in Seq(1..MaxChans) /\ told \in Seq(1..MaxChans)
      BY <2>1 DEF Init, SaInit
    <3> QED BY <3>1, <3>2, <3>3 DEF Init, SaInit, SaTypeOK
  <2>3. BytesMatchResults /\ ResultsQueued /\ InOrder /\ ErrOnce
    BY <2>1 DEF Init, SaInit, BytesMatchResults, ResultsQueued, InOrder, ErrOnce
  <2> QED BY <2>2, <2>3 DEF ChanInv
<1>2. AccInv
  <2>1. AccTypeOK
    <3>1. 0 \in 0..MaxAccepts /\ 0 \in Nat
      BY AcceptsIsNat
    <3>2. answers \in [Calls -> {"none"} \cup Results]
      BY DEF Init, AccInit
    <3> QED BY <3>1, <3>2 DEF Init, AccInit, AccTypeOK
  <2>2. OneAcceptInFlight
    BY DEF Init, AccInit, OneAcceptInFlight
  <2>3. CallsInOrder
    BY DEF Init, AccInit, CallsInOrder
  <2>4. CodeIsOwn
    BY DEF Init, AccInit, CodeIsOwn
  <2> QED BY <2>1, <2>2, <2>3, <2>4 DEF AccInv
<1> QED BY <1>1, <1>2

\* The invariant the other theorems follow from.
LEMMA Invariant == Spec => [](ChanInv /\ AccInv)
<1>1. Init => ChanInv /\ AccInv
  BY InvInit
<1>2. ChanInv /\ AccInv /\ [Next]_vars => (ChanInv /\ AccInv)'
  BY InvStep
<1> QED BY <1>1, <1>2, PTL DEF Spec

\* The state of both adapters keeps its types: no pipe is read that is empty.
THEOREM SyncIoTypeCorrect == Spec => []TypeOK
<1>1. ChanInv /\ AccInv => TypeOK
  BY DEF ChanInv, AccInv, TypeOK
<1> QED BY <1>1, Invariant, PTL

\* on_ev_channel_open() may trust a byte in the pipe for a result in the queue
\* (session_adapter.hpp:604), however W and the loop interleave.
THEOREM BytesAlwaysMatch == Spec => []BytesMatchResults
<1>1. ChanInv /\ AccInv => BytesMatchResults
  BY DEF ChanInv
<1> QED BY <1>1, Invariant, PTL

\* async_accept() may trust its slots to one call (session_server_adapter.hpp:345).
THEOREM OneAcceptAtATime == Spec => []OneAcceptInFlight
<1>1. ChanInv /\ AccInv => OneAcceptInFlight
  BY DEF AccInv
<1> QED BY <1>1, Invariant, PTL

\* The code accept_read() gives the handler by reference is not written under it
\* (session_server_adapter.hpp:428), unless the handler calls async_accept().
THEOREM CodeIsAlwaysOwn == Spec => []CodeIsOwn
<1>1. ChanInv /\ AccInv => CodeIsOwn
  BY DEF AccInv
<1> QED BY <1>1, Invariant, PTL

-----------------------------------------------------------------------------
(* The promise to the user of the event loop.                               *)

\* Every step of the session is one the contract allows, or none to its user.
LEMMA SessionStepAllowed ==
  ASSUME ChanInv,
         \/ SyncConnect \/ FillCore \/ StartOps \/ ReplaceEventWaitHandles
         \/ \E withChan \in BOOLEAN : InitHandlers(withChan)
         \/ SignalChan \/ StoreErr \/ SignalErr \/ Joined
         \/ OnErrEvent \/ OnChanHandled \/ Destroy
         \/ OnChanEvent \/ StoreChan
         \/ UNCHANGED saVars
  PROVE  Contract!Next \/ UNCHANGED <<opened, told, coreErr, errTold, dtor # "no">>
<1> USE DEF coreVars, funcVars, errVars, chanVars, InLoop, CoreMayReport, Contract!Next
<1>1. CASE StoreChan
  BY <1>1 DEF StoreChan, Contract!Open
<1>2. CASE OnChanEvent
  BY <1>2, NextIsGiven DEF OnChanEvent, Contract!Give
<1>3. CASE StoreErr
  BY <1>3 DEF StoreErr, Contract!Fail
<1>4. CASE OnErrEvent
  <2>1. errByte = 1 /\ errTold = 0 /\ coreErr
    BY <1>4 DEF OnErrEvent, ChanInv, ErrOnce, SaTypeOK
  <2> QED BY <1>4, <2>1 DEF OnErrEvent, Contract!Tell
<1>5. CASE Destroy
  BY <1>5 DEF Destroy, Contract!Close
<1>6. CASE SyncConnect \/ FillCore \/ StartOps \/ ReplaceEventWaitHandles
           \/ SignalChan \/ SignalErr \/ OnChanHandled \/ UNCHANGED saVars
  BY <1>6 DEF SyncConnect, FillCore, StartOps, ReplaceEventWaitHandles, SignalChan, SignalErr,
    OnChanHandled, saVars
<1>7. ASSUME NEW withChan \in BOOLEAN, InitHandlers(withChan)
      PROVE  UNCHANGED <<opened, told, coreErr, errTold, dtor # "no">>
  BY <1>7 DEF InitHandlers
<1>8. CASE Joined
  BY <1>8 DEF Joined
<1> QED BY <1>1, <1>2, <1>3, <1>4, <1>5, <1>6, <1>7, <1>8

\* A sync_io session implements AdapterContract, whatever W and the loop do:
\* channels once and in order, the error once, nothing after the destructor
\* (session_adapter.hpp:587).
THEOREM SessionKeepsContract == Spec => KeepsContract
<1>1. Init => Contract!Init
  BY DEF Init, SaInit, Contract!Init
<1>2. ChanInv /\ [Next]_vars => [Contract!Next]_<<opened, told, coreErr, errTold, dtor # "no">>
  BY StepParts, SessionStepAllowed
<1> QED BY <1>1, <1>2, Invariant, PTL DEF Spec, KeepsContract, Contract!Spec

-----------------------------------------------------------------------------
(* The promise of async_accept().                                           *)

\* What AcceptContract calls the state of a call and the sessions given.
Call(n) == IF n > calls THEN "unmade" ELSE IF answers[n] = "none" THEN "made" ELSE answers[n]
Mapped == [n \in Calls |-> Call(n)]
Given == {n \in filled : answers[n] # "none"}

\* The handler of a call runs: the contract's Invoke of that call.
LEMMA ReadIsInvoke ==
  ASSUME AccInv, AcceptRead
  PROVE  \E r \in Calls, a \in Results : Acceptance!Invoke(r, a)
<1>t. /\ answers \in [Calls -> {"none"} \cup Results] /\ filled \subseteq Calls /\ accByte \in Nat
      /\ onDone \in 0..MaxAccepts /\ calls \in 0..MaxAccepts /\ accErr \in {"none"} \cup Results
      /\ s \in {"idle", "stored"}
  BY DEF AccInv, AccTypeOK
<1>a. /\ accDtor = "no" /\ accByte > 0 /\ answers' = [answers EXCEPT ![onDone] = accErr]
      /\ UNCHANGED <<calls, filled, accDtor>>
  BY DEF AcceptRead
<1>1. accByte = 1 /\ s = "idle"
  BY <1>t, <1>a DEF AccInv, OneAcceptInFlight
<1>2. onDone # 0 /\ accErr # "none"
  BY <1>1 DEF AccInv, OneAcceptInFlight
<1>3. onDone \in Calls /\ accErr \in Results
  BY <1>t, <1>2, AcceptsIsNat DEF Calls
<1>4. answers[onDone] = "none" /\ onDone <= calls /\ (accErr = "ok" <=> onDone \in filled)
  BY <1>a, <1>2 DEF AccInv, CallsInOrder
<1>5. Mapped[onDone] = "made"
  BY <1>t, <1>3, <1>4 DEF Mapped, Call, Calls
<1>6. Mapped' = [Mapped EXCEPT ![onDone] = accErr]
  <2>1. answers'[onDone] = accErr /\ ~(onDone > calls) /\ accErr # "none"
    BY <1>t, <1>a, <1>2, <1>3, <1>4 DEF Calls
  <2>2. \A n \in Calls : n # onDone => answers'[n] = answers[n]
    BY <1>t, <1>a
  <2>3. \A n \in Calls : Call(n)' = IF n = onDone THEN accErr ELSE Call(n)
    BY <1>a, <2>1, <2>2 DEF Call
  <2> QED BY <2>3 DEF Mapped
<1>7. Given' = IF accErr = "ok" THEN Given \cup {onDone} ELSE Given
  BY <1>t, <1>a, <1>2, <1>3, <1>4 DEF Given
<1>8. PICK r \in Calls, a \in Results : r = onDone /\ a = accErr
  BY <1>3
<1> QED BY <1>a, <1>5, <1>6, <1>7, <1>8 DEF Acceptance!Invoke, Mapped, Call, Given, Results

\* A call is made: the contract's Make.
LEMMA CallIsMake ==
  ASSUME AccInv, AsyncAccept
  PROVE  \E r \in Calls : Acceptance!Make(r)
<1>t. answers \in [Calls -> {"none"} \cup Results] /\ calls \in 0..MaxAccepts
  BY DEF AccInv, AccTypeOK
<1>a. /\ accDtor = "no" /\ calls < MaxAccepts /\ calls' = calls + 1
      /\ UNCHANGED <<answers, filled, accDtor>>
  BY DEF AsyncAccept
<1>1. calls + 1 \in Calls /\ answers[calls + 1] = "none"
  BY <1>t, <1>a, AcceptsIsNat DEF AccInv, CallsInOrder, Calls
<1>2. Mapped[calls + 1] = "unmade"
  BY <1>t, <1>1 DEF Mapped, Call
<1>3. Mapped' = [Mapped EXCEPT ![calls + 1] = "made"]
  <2>1. \A n \in Calls : Call(n)' = IF n = calls + 1 THEN "made" ELSE Call(n)
    BY <1>t, <1>a, <1>1, AcceptsIsNat DEF Call, Calls
  <2> QED BY <2>1 DEF Mapped
<1>4. PICK r \in Calls : r = calls + 1
  BY <1>1
<1> QED BY <1>a, <1>2, <1>3, <1>4 DEF Acceptance!Make, Mapped, Call

\* Session_server_adapter implements AcceptContract, for those calls that the
\* destructor does not cut off (session_server_adapter.hpp:403): one answer to
\* each call, and a session with success only.
THEOREM AdapterKeepsAcceptContract == Spec => KeepsAcceptContract
<1> DEFINE cvars == <<accDtor # "no", Mapped, Given>>
<1>1. Init => Acceptance!Init
  BY DEF Init, AccInit, Acceptance!Init, Calls
<1>2. AccInv /\ [Next]_vars => Acceptance!Next \/ UNCHANGED cvars
  <2> SUFFICES ASSUME AccInv, [Next]_vars PROVE Acceptance!Next \/ UNCHANGED cvars
    OBVIOUS
  <2>1. CASE AcceptRead
    BY <2>1, ReadIsInvoke DEF Acceptance!Next, Acceptance!Answers, Results
  <2>2. CASE AsyncAccept
    BY <2>2, CallIsMake DEF Acceptance!Next
  <2>3. CASE AccDestroy
    BY <2>3 DEF AccDestroy, Acceptance!Next, Acceptance!Close
  <2>4. CASE AccStartOps \/ AcceptSignal \/ AcceptAborted \/ AcceptHandled \/ AccJoined
            \/ UNCHANGED accVars
    BY <2>4 DEF AccStartOps, AcceptSignal, AcceptHandled, AcceptAborted, AccJoined, accVars, Mapped, Call, Given
  <2>5. ASSUME NEW result \in Results, AcceptWrite(result) PROVE UNCHANGED cvars
    <3>1. atCore # 0 /\ answers[atCore] = "none"
      BY <2>5 DEF AcceptWrite, AccInv, OneAcceptInFlight, CallsInOrder
    <3>2. Given' = Given
      BY <2>5, <3>1 DEF AcceptWrite, Given
    <3>3. Mapped' = Mapped /\ accDtor' = accDtor
      BY <2>5 DEF AcceptWrite, Mapped, Call
    <3> QED BY <3>2, <3>3
  <2> QED BY StepParts, <2>1, <2>2, <2>3, <2>4, <2>5
<1>3. ChanInv /\ AccInv => AccInv
  OBVIOUS
<1>4. UNCHANGED cvars <=> UNCHANGED <<accDtor # "no", [n \in Calls |->
        IF n > calls THEN "unmade" ELSE IF answers[n] = "none" THEN "made" ELSE answers[n]],
        {n \in filled : answers[n] # "none"}>>
  BY DEF Mapped, Call, Given
<1> HIDE DEF cvars
<1> QED BY <1>1, <1>2, <1>3, <1>4, Invariant, PTL DEF Spec, KeepsAcceptContract, Acceptance!Spec
=============================================================================
