------------------------- MODULE SessionServerProofs -------------------------
(***************************************************************************)
(* Types of SessionServer and the ownership of its sessions; SessionServer   *)
(* implements AcceptContract, and m_incomplete_sessions is the set it should *)
(* be: for any set of async_accept() calls and either way of constructing    *)
(* the server.                                                              *)
(*                                                                         *)
(* What makes the last two hold: the calls that have no session yet are      *)
(* queued in one of two places, once, and a call moves through its stages in *)
(* one direction; its handler runs at the last of them.                     *)
(***************************************************************************)
EXTENDS SessionServer, SequenceTheorems, TLAPS

-----------------------------------------------------------------------------
(* Types and ownership.                                                     *)

\* The cancelled calls, as GraveyardGone queues them.
LEMMA CancelledTypes ==
  ASSUME TypeOK
  PROVE  waQ \o [i \in 1..Len(acceptQ) |-> [req |-> acceptQ[i], err |-> "cancelled"]]
           \in Seq(Handlers)
<1> DEFINE c == [i \in 1..Len(acceptQ) |-> [req |-> acceptQ[i], err |-> "cancelled"]]
<1>1. \A i \in 1..Len(acceptQ) : acceptQ[i] \in Reqs
  BY DEF TypeOK
<1>2. c \in Seq(Handlers)
  <2>1. Len(acceptQ) \in Nat
    BY DEF TypeOK
  <2>2. \A i \in 1..Len(acceptQ) : [req |-> acceptQ[i], err |-> "cancelled"] \in Handlers
    BY <1>1 DEF Handlers
  <2> QED BY <2>1, <2>2
<1>3. waQ \in Seq(Handlers)
  BY DEF TypeOK
<1> HIDE DEF c
<1>4. waQ \o c \in Seq(Handlers)
  BY <1>2, <1>3
<1> QED BY <1>4 DEF c

\* The handler that Wa runs next, and the rest of them.
LEMMA NextHandler ==
  ASSUME TypeOK, waQ # <<>>
  PROVE  /\ Head(waQ) \in Handlers /\ Tail(waQ) \in Seq(Handlers)
         /\ Head(waQ).req \in Reqs
         /\ Head(waQ).err \in {"none", "error", "cancelled"}
<1>1. waQ \in Seq(Handlers)
  BY DEF TypeOK
<1>2. Head(waQ) \in Handlers /\ Tail(waQ) \in Seq(Handlers)
  BY <1>1
<1> QED BY <1>2 DEF Handlers

\* The user's handler is told one of the answers.
LEMMA Told ==
  ASSUME TypeOK, NEW r \in Reqs, NEW a \in {"ok", "error", "aborted"}, RunHandler(r, a)
  PROVE  /\ runs' \in [Reqs -> Nat]
         /\ answer' \in [Reqs -> {"none", "ok", "error", "aborted"}]
BY DEF TypeOK, RunHandler

\* A thread that is lost changes misuse alone.
LEMMA LostTypes ==
  ASSUME TypeOK, NEW w \in SUBSET {"mutex", "graveyard", "sessions", "observer", "self"},
         Misuse(w)
  PROVE  TypeOK'
BY DEF TypeOK, Misuse

\* The head of the graveyard leaves it, or nothing does.
LEMMA UnearthTypes ==
  ASSUME TypeOK, NEW r \in Reqs
  PROVE  Unearth(r) \in Seq(Reqs)
BY DEF TypeOK, Unearth

\* Every step keeps the types.
LEMMA TypeStep ==
  ASSUME TypeOK, [Next]_vars
  PROVE  TypeOK'
<1> USE DEF TypeOK
<1>1. CASE UNCHANGED vars
  BY <1>1 DEF vars
<1>2. ASSUME NEW r \in Reqs, AsyncAccept(r) PROVE TypeOK'
  BY <1>2 DEF AsyncAccept
<1>3. CASE AcceptorServes
  BY <1>3 DEF AcceptorServes, Handlers
<1>4. CASE WaFailed
  <2>1. PICK h \in Handlers : h = Head(waQ)
    BY <1>4, NextHandler DEF WaFailed
  <2>2. h.req \in Reqs /\ Code(h.err) \in {"error", "aborted"} /\ Tail(waQ) \in Seq(Handlers)
    BY <1>4, <2>1, NextHandler DEF WaFailed, Code
  <2>3. RunHandler(h.req, Code(h.err)) /\ waQ' = Tail(waQ)
    BY <1>4, <2>1 DEF WaFailed
  <2> QED BY <1>4, <2>2, <2>3, Told DEF WaFailed
<1>5. CASE WaAccepted
  <2>1. CASE EarlyMembersGone
    BY <1>5, <2>1, LostTypes DEF WaAccepted
  <2>2. CASE ~EarlyMembersGone
    <3>1. PICK r \in Reqs : r = Head(waQ).req
      BY <1>5, NextHandler DEF WaAccepted
    <3>2. Tail(waQ) \in Seq(Handlers)
      BY <1>5, NextHandler DEF WaAccepted
    <3>3. /\ incomplete' = incomplete \cup {r} /\ waQ' = Tail(waQ)
          /\ sess' = [sess EXCEPT ![r] = "alive"] /\ ws' = [ws EXCEPT ![r] = "login"]
          /\ UNCHANGED <<asked, acceptQ, graveQ, outcome, runs, answer, dtor, misuse>>
      BY <1>5, <2>2, <3>1 DEF WaAccepted
    <3> QED BY <3>1, <3>2, <3>3 DEF WsPlaces
  <2> QED BY <2>1, <2>2
<1>6. ASSUME NEW r \in Reqs, LogInFails(r) \/ SetUp(r) \/ SetUpEnds(r) \/ LogInSucceeds(r)
      PROVE  TypeOK'
  <2>1. CASE LogInFails(r)
    BY <2>1 DEF LogInFails, Ws, WsPlaces
  <2>2. CASE SetUp(r) /\ r \in incomplete
    BY <2>2 DEF SetUp, Ws, WsPlaces
  <2>3. CASE (SetUp(r) \/ SetUpEnds(r)) /\ r \notin incomplete
    <3>1. Misuse({"observer"}) \/ Misuse({"self"})
      BY <2>3 DEF SetUp, SetUpEnds
    <3> HIDE DEF TypeOK
    <3> QED BY <3>1, LostTypes
  <2>5. CASE SetUpEnds(r) /\ r \in incomplete
    <3>1. PICK t \in WsPlaces : ws' = [ws EXCEPT ![r] = t]
      BY <2>5 DEF SetUpEnds, Ws, WsPlaces
    <3>2. ws' \in [Reqs -> WsPlaces]
      BY <3>1
    <3>3. outcome' \in [Reqs -> {"none", "ok", "error"}]
      BY <2>5 DEF SetUpEnds
    <3>4. /\ UNCHANGED <<asked, acceptQ, waQ, incomplete, graveQ, sess, runs>>
          /\ UNCHANGED <<answer, dtor, misuse>>
      BY <2>5 DEF SetUpEnds
    <3> QED BY <3>2, <3>3, <3>4
  <2>4. CASE LogInSucceeds(r)
    BY <2>4 DEF LogInSucceeds, Ws, WsPlaces
  <2> QED BY <1>6, <2>1, <2>2, <2>3, <2>4, <2>5
<1>7. ASSUME NEW r \in Reqs, WsStep(r) PROVE TypeOK'
  <2>1. CASE Lock(r)
    BY <2>1 DEF Lock, Ws, WsPlaces
  <2>2. CASE Erase(r)
    <3>1. CASE EarlyMembersGone
      BY <2>2, <3>1, LostTypes DEF Erase
    <3>2. CASE ~EarlyMembersGone
      BY <2>2, <3>2 DEF Erase, Ws, WsPlaces
    <3> QED BY <3>1, <3>2
  <2>3. CASE Bury(r)
    <3>1. CASE EarlyMembersGone
      BY <2>3, <3>1, LostTypes DEF Bury
    <3>2. CASE ~EarlyMembersGone
      <4>1. Append(graveQ, r) \in Seq(Reqs)
        OBVIOUS
      <4>2. ws' \in [Reqs -> WsPlaces]
        BY <2>3, <3>2 DEF Bury, Ws, WsPlaces
      <4> QED BY <2>3, <3>2, <4>1, <4>2 DEF Bury
    <3> QED BY <3>1, <3>2
  <2>4. CASE Report(r)
    <3>1. ws' \in [Reqs -> WsPlaces]
      BY <2>4 DEF Report, Ws, WsPlaces
    <3> QED BY <2>4, <3>1, Told DEF Report
  <2>5. CASE Give(r)
    <3>1. ws' \in [Reqs -> WsPlaces]
      BY <2>5 DEF Give, Ws, WsPlaces
    <3> QED BY <2>5, <3>1, Told DEF Give
  <2>6. CASE GiveNothing(r)
    BY <2>6, LostTypes DEF GiveNothing
  <2> QED BY <1>7, <2>1, <2>2, <2>3, <2>4, <2>5, <2>6 DEF WsStep
<1>8. ASSUME NEW r \in Reqs, Dies(r) PROVE TypeOK'
  <2>1. /\ runs' \in [Reqs -> Nat]
        /\ answer' \in [Reqs -> {"none", "ok", "error", "aborted"}]
    BY <1>8, Told DEF Dies
  <2>2. ws' \in [Reqs -> WsPlaces] /\ graveQ' \in Seq(Reqs)
    BY <1>8, UnearthTypes DEF Dies, WsPlaces
  <2> QED BY <1>8, <2>1, <2>2 DEF Dies
<1>9. CASE Dig \/ DtorStart
  BY <1>9 DEF Dig, DtorStart
<1>10. CASE GraveyardGone
  BY <1>10, CancelledTypes DEF GraveyardGone
<1>11. ASSUME NEW r \in Reqs, Drop(r) PROVE TypeOK'
  BY <1>11 DEF Drop
<1>12. CASE AcceptorGone \/ DtorEnds
  BY <1>12 DEF AcceptorGone, DtorEnds
<1> QED BY <1>1, <1>2, <1>3, <1>4, <1>5, <1>6, <1>7, <1>8, <1>9, <1>10, <1>11, <1>12
        DEF Next, Step, WaStep, DtorStep

\* TypeOK: the types of the server's state hold throughout, whatever the
\* threads Wa, Ws and the destructor interleave.
THEOREM ServerTypeCorrect == Spec => []TypeOK
<1>1. Init => TypeOK
  BY DEF Init, TypeOK, WsPlaces
<1> QED BY <1>1, TypeStep, PTL DEF Spec

-----------------------------------------------------------------------------
(* Who owns a session.                                                       *)

\* A step that leaves sessions, set, graveyard and the holding of references
\* alone takes no owner away.
LEMMA SameOwners ==
  ASSUME OwnedBySomebody, UNCHANGED <<sess, incomplete, graveQ>>,
         \A r \in Reqs : Holds(r) => Holds(r)'
  PROVE  OwnedBySomebody'
BY DEF OwnedBySomebody

\* A thread that is lost takes no owner away.
LEMMA LostOwners ==
  ASSUME OwnedBySomebody, NEW w, Misuse(w)
  PROVE  OwnedBySomebody'
BY DEF OwnedBySomebody, Misuse, Holds

\* What follows the first session of the graveyard is still there without it.
LEMMA UnearthKeeps ==
  ASSUME TypeOK, NEW r \in Reqs, NEW q \in Reqs, q # r,
         \E i \in DOMAIN graveQ : graveQ[i] = q
  PROVE  \E i \in DOMAIN Unearth(r) : Unearth(r)[i] = q
<1>1. PICK i \in 1..Len(graveQ) : graveQ[i] = q
  BY DEF TypeOK
<1>2. CASE graveQ # <<>> /\ Head(graveQ) = r
  <2>1. i # 1 /\ i - 1 \in 1..Len(Tail(graveQ)) /\ Tail(graveQ)[i - 1] = q
    BY <1>1, <1>2 DEF TypeOK
  <2>2. Tail(graveQ) \in Seq(Reqs)
    BY <1>2 DEF TypeOK
  <2>3. DOMAIN Tail(graveQ) = 1..Len(Tail(graveQ))
    BY <2>2
  <2>4. Unearth(r) = Tail(graveQ)
    BY <1>2 DEF Unearth
  <2> QED BY <2>1, <2>3, <2>4
<1>3. CASE ~(graveQ # <<>> /\ Head(graveQ) = r)
  BY <1>1, <1>3 DEF Unearth, TypeOK
<1> QED BY <1>2, <1>3

\* What is in the graveyard stays there when another session is added.
LEMMA AppendKeeps ==
  ASSUME TypeOK, NEW r \in Reqs, NEW q \in Reqs,
         q = r \/ \E i \in DOMAIN graveQ : graveQ[i] = q
  PROVE  \E i \in DOMAIN Append(graveQ, r) : Append(graveQ, r)[i] = q
<1>1. CASE q = r
  <2>1. /\ Len(graveQ) + 1 \in 1..Len(Append(graveQ, r))
        /\ Append(graveQ, r)[Len(graveQ) + 1] = r
    BY DEF TypeOK
  <2>2. DOMAIN Append(graveQ, r) = 1..Len(Append(graveQ, r))
    BY DEF TypeOK
  <2> QED BY <1>1, <2>1, <2>2
<1>2. CASE \E i \in DOMAIN graveQ : graveQ[i] = q
  <2>1. PICK i \in 1..Len(graveQ) : graveQ[i] = q
    BY <1>2 DEF TypeOK
  <2>2. i \in 1..Len(Append(graveQ, r)) /\ Append(graveQ, r)[i] = q
    BY <2>1 DEF TypeOK
  <2>3. DOMAIN Append(graveQ, r) = 1..Len(Append(graveQ, r))
    BY DEF TypeOK
  <2> QED BY <2>2, <2>3
<1> QED BY <1>1, <1>2

\* Every step keeps the owners.
LEMMA OwnedStep ==
  ASSUME TypeOK, OwnedBySomebody, [Next]_vars
  PROVE  OwnedBySomebody'
<1>1. CASE UNCHANGED vars
  BY <1>1, SameOwners DEF vars, Holds
<1>2. ASSUME NEW r \in Reqs, AsyncAccept(r) PROVE OwnedBySomebody'
  BY <1>2, SameOwners DEF AsyncAccept, Holds
<1>3. CASE AcceptorServes \/ WaFailed \/ DtorStart \/ AcceptorGone \/ DtorEnds
  BY <1>3, SameOwners DEF AcceptorServes, WaFailed, DtorStart, AcceptorGone, DtorEnds, Holds
<1>4. CASE WaAccepted
  <2>1. CASE EarlyMembersGone
    BY <1>4, <2>1, LostOwners DEF WaAccepted
  <2>2. CASE ~EarlyMembersGone
    <3>1. PICK r \in Reqs : r = Head(waQ).req
      BY <1>4, NextHandler DEF WaAccepted
    <3>2. /\ incomplete' = incomplete \cup {r} /\ graveQ' = graveQ
          /\ sess' = [sess EXCEPT ![r] = "alive"] /\ ws' = [ws EXCEPT ![r] = "login"]
      BY <1>4, <2>2, <3>1 DEF WaAccepted
    <3> QED BY <3>1, <3>2 DEF OwnedBySomebody, Holds, TypeOK
  <2> QED BY <2>1, <2>2
<1>5. ASSUME NEW r \in Reqs, LogInFails(r) \/ SetUp(r) \/ SetUpEnds(r) \/ LogInSucceeds(r)
      PROVE  OwnedBySomebody'
  <2>1. CASE (SetUp(r) \/ SetUpEnds(r)) /\ r \notin incomplete
    BY <2>1, LostOwners DEF SetUp, SetUpEnds
  <2>2. CASE LogInFails(r) \/ LogInSucceeds(r) \/ (SetUp(r) /\ r \in incomplete)
    <3>1. /\ ws[r] \in {"login", "acking"} /\ \E t : ws' = [ws EXCEPT ![r] = t]
          /\ UNCHANGED <<sess, incomplete, graveQ>>
      BY <2>2 DEF LogInFails, LogInSucceeds, SetUp, Ws
    <3> QED BY <3>1, SameOwners DEF Holds, TypeOK
  <2>3. CASE SetUpEnds(r) /\ r \in incomplete
    <3>1. /\ \E t : ws' = [ws EXCEPT ![r] = t]
          /\ UNCHANGED <<sess, incomplete, graveQ>>
      BY <2>3 DEF SetUpEnds, Ws
    <3>2. \A q \in Reqs : q # r => ws'[q] = ws[q]
      BY <3>1 DEF TypeOK
    <3>3. ASSUME NEW q \in Reqs, sess'[q] = "alive"
          PROVE  q \in incomplete' \/ Holds(q)' \/ \E i \in DOMAIN graveQ' : graveQ'[i] = q
      BY <2>3, <3>1, <3>2, <3>3 DEF OwnedBySomebody, Holds
    <3> QED BY <3>3 DEF OwnedBySomebody
  <2> QED BY <1>5, <2>1, <2>2, <2>3
<1>6. ASSUME NEW r \in Reqs, Lock(r) \/ Report(r) PROVE OwnedBySomebody'
  <2>1. /\ ws[r] \in {"handler", "buried", "expired"} /\ \E t : ws' = [ws EXCEPT ![r] = t]
        /\ UNCHANGED <<sess, incomplete, graveQ>>
    BY <1>6 DEF Lock, Report, Ws
  <2> QED BY <2>1, SameOwners DEF Holds, TypeOK
<1>7. ASSUME NEW r \in Reqs, Erase(r) PROVE OwnedBySomebody'
  <2>1. CASE EarlyMembersGone
    BY <1>7, <2>1, LostOwners DEF Erase
  <2>2. CASE ~EarlyMembersGone
    <3>1. /\ ws' = [ws EXCEPT ![r] = "erased"] /\ incomplete' = incomplete \ {r}
          /\ UNCHANGED <<sess, graveQ>>
      BY <1>7, <2>2 DEF Erase, Ws
    <3>2. ws'[r] = "erased" /\ \A q \in Reqs : q # r => ws'[q] = ws[q]
      BY <3>1 DEF TypeOK
    <3>3. ASSUME NEW q \in Reqs, sess[q] = "alive"
          PROVE  q \in incomplete' \/ Holds(q)' \/ \E i \in DOMAIN graveQ' : graveQ'[i] = q
      BY <3>1, <3>2, <3>3 DEF OwnedBySomebody, Holds
    <3> QED BY <3>1, <3>3 DEF OwnedBySomebody
  <2> QED BY <2>1, <2>2
<1>8. ASSUME NEW r \in Reqs, Bury(r) PROVE OwnedBySomebody'
  <2>1. CASE EarlyMembersGone
    BY <1>8, <2>1, LostOwners DEF Bury
  <2>2. CASE ~EarlyMembersGone
    <3>1. /\ ws' = [ws EXCEPT ![r] = "buried"] /\ graveQ' = Append(graveQ, r)
          /\ UNCHANGED <<sess, incomplete>>
      BY <1>8, <2>2 DEF Bury, Ws
    <3>2. ASSUME NEW q \in Reqs, sess[q] = "alive"
          PROVE  q \in incomplete' \/ Holds(q)' \/ \E i \in DOMAIN graveQ' : graveQ'[i] = q
      <4>1. CASE q = r \/ \E i \in DOMAIN graveQ : graveQ[i] = q
        BY <3>1, <4>1, AppendKeeps
      <4>2. CASE q # r /\ (q \in incomplete \/ Holds(q))
        BY <3>1, <4>2 DEF Holds, TypeOK
      <4> QED BY <3>2, <4>1, <4>2 DEF OwnedBySomebody
    <3> QED BY <3>1, <3>2 DEF OwnedBySomebody
  <2> QED BY <2>1, <2>2
<1>9. ASSUME NEW r \in Reqs, Give(r) PROVE OwnedBySomebody'
  BY <1>9 DEF Give, Ws, OwnedBySomebody, Holds, TypeOK
<1>10. ASSUME NEW r \in Reqs, GiveNothing(r) PROVE OwnedBySomebody'
  BY <1>10, LostOwners DEF GiveNothing
<1>11. ASSUME NEW r \in Reqs, Dies(r) PROVE OwnedBySomebody'
  <2>1. /\ sess' = [sess EXCEPT ![r] = "dead"] /\ ws' = [ws EXCEPT ![r] = "idle"]
        /\ graveQ' = Unearth(r) /\ incomplete' = incomplete
    BY <1>11 DEF Dies
  <2>2. ASSUME NEW q \in Reqs, sess'[q] = "alive"
        PROVE  q \in incomplete' \/ Holds(q)' \/ \E i \in DOMAIN graveQ' : graveQ'[i] = q
    <3>1. q # r /\ sess[q] = "alive" /\ ws'[q] = ws[q]
      BY <2>1, <2>2 DEF TypeOK
    <3>2. CASE \E i \in DOMAIN graveQ : graveQ[i] = q
      BY <2>1, <3>1, <3>2, UnearthKeeps
    <3>3. CASE q \in incomplete \/ Holds(q)
      BY <2>1, <3>1, <3>3 DEF Holds
    <3> QED BY <3>1, <3>2, <3>3 DEF OwnedBySomebody
  <2> QED BY <2>2 DEF OwnedBySomebody
<1>12. CASE Dig
  <2>1. /\ UNCHANGED <<incomplete, graveQ, ws>>
        /\ \E q : sess' = [sess EXCEPT ![q] = "dying"]
    BY <1>12 DEF Dig
  <2> QED BY <2>1 DEF OwnedBySomebody, Holds, TypeOK
<1>13. CASE GraveyardGone
  BY <1>13 DEF GraveyardGone, OwnedBySomebody, Holds
<1>14. ASSUME NEW r \in Reqs, Drop(r) PROVE OwnedBySomebody'
  BY <1>14 DEF Drop, OwnedBySomebody, Holds, TypeOK
<1> QED BY <1>1, <1>2, <1>3, <1>4, <1>5, <1>6, <1>7, <1>8, <1>9, <1>10, <1>11, <1>12,
           <1>13, <1>14
        DEF Next, Step, WaStep, WsStep, DtorStep

\* OwnedBySomebody: a living session that async_accept() has not given to the
\* user always belongs to m_incomplete_sessions, to the graveyard or to its own
\* thread in the handler or in pre_rsp_setup_func(), so that somebody will destroy it or give it away.
THEOREM OwnedHolds == Spec => []OwnedBySomebody
<1>1. Init => OwnedBySomebody
  BY DEF Init, OwnedBySomebody
<1> QED BY <1>1, OwnedStep, ServerTypeCorrect, PTL DEF Spec

-----------------------------------------------------------------------------
(* The invariant.                                                           *)

\* The calls without a session: those Wa will come to first, then those the
\* acceptor has.
Waiting == Len(waQ) + Len(acceptQ)
Call(i) == IF i <= Len(waQ) THEN waQ[i].req ELSE acceptQ[i - Len(waQ)]

WaitingOnce ==
  /\ \A i \in 1..Waiting : Call(i) \in asked /\ ws[Call(i)] = "none" /\ runs[Call(i)] = 0
  /\ \A i, j \in 1..Waiting : Call(i) = Call(j) => i = j

Outstanding == {"login", "setup", "acking", "handler", "locked"}

\* The user's handler has not run before the end of the log-in's handler.
HandlerIsLast ==
  /\ \A r \in Reqs : r \notin asked => ws[r] = "none" /\ runs[r] = 0
  /\ \A r \in Reqs : ws[r] \in Outstanding \cup {"erased", "buried", "expired"} => runs[r] = 0
  /\ \A r \in Reqs : ws[r] = "none" => sess[r] = "none"

IncompleteLive ==
  \A r \in incomplete : sess[r] = "alive" /\ ws[r] \in Outstanding

\* Until the destructor comes to the set, what dies was in the graveyard.
GraveyardIsPast ==
  /\ \A i \in 1..Len(graveQ) : ws[graveQ[i]] \in {"buried", "idle"}
  /\ dtor \in {"no", "graveyard", "acceptor"} =>
       \A r \in Reqs : sess[r] = "dying" => ws[r] \in {"buried", "idle"}

CancelledWhenClosing ==
  dtor = "no" => \A i \in 1..Len(waQ) : waQ[i].err # "cancelled"

ServerInv ==
  /\ WaitingOnce /\ HandlerIsLast /\ IncompleteLive /\ IncompleteIsOutstanding
  /\ GraveyardIsPast /\ CancelledWhenClosing

-----------------------------------------------------------------------------
(* The queue of the calls without a session.                                *)

\* Numbers of the two queues' elements, and what the calls are.
LEMMA WaitingTypes ==
  ASSUME TypeOK
  PROVE  /\ Len(waQ) \in Nat /\ Len(acceptQ) \in Nat /\ Waiting \in Nat
         /\ \A i \in 1..Len(waQ) : waQ[i] \in Handlers /\ waQ[i].req \in Reqs
         /\ \A i \in 1..Len(acceptQ) : acceptQ[i] \in Reqs
         /\ \A i \in 1..Waiting : Call(i) \in Reqs
<1>1. Len(waQ) \in Nat /\ Len(acceptQ) \in Nat /\ Waiting \in Nat
  BY DEF TypeOK, Waiting
<1>2. \A i \in 1..Len(waQ) : waQ[i] \in Handlers
  BY DEF TypeOK
<1>3. \A i \in 1..Len(waQ) : waQ[i].req \in Reqs
  BY <1>2 DEF Handlers
<1>4. \A i \in 1..Len(acceptQ) : acceptQ[i] \in Reqs
  BY DEF TypeOK
<1>5. ASSUME NEW i \in 1..Waiting PROVE Call(i) \in Reqs
  <2>1. CASE i <= Len(waQ)
    BY <1>1, <1>3, <2>1 DEF Call
  <2>2. CASE ~(i <= Len(waQ))
    <3>1. i - Len(waQ) \in 1..Len(acceptQ)
      BY <1>1, <2>2 DEF Waiting
    <3> QED BY <1>4, <2>2, <3>1 DEF Call
  <2> QED BY <2>1, <2>2
<1> QED BY <1>1, <1>2, <1>3, <1>4, <1>5

\* async_accept() puts its call last.
LEMMA AskedIsLast ==
  ASSUME TypeOK, NEW r \in Reqs, AsyncAccept(r)
  PROVE  /\ Waiting' = Waiting + 1
         /\ \A i \in 1..Waiting : Call(i)' = Call(i)
         /\ Call(Waiting)' = r
<1>1. /\ waQ' = waQ /\ acceptQ' = Append(acceptQ, r)
      /\ Len(waQ) \in Nat /\ Len(acceptQ) \in Nat
  BY WaitingTypes DEF AsyncAccept
<1>2. /\ Len(acceptQ') = Len(acceptQ) + 1
      /\ \A i \in 1..Len(acceptQ) : acceptQ'[i] = acceptQ[i]
      /\ acceptQ'[Len(acceptQ) + 1] = r
  BY <1>1 DEF TypeOK
<1>3. Waiting' = Waiting + 1
  BY <1>1, <1>2 DEF Waiting
<1>4. ASSUME NEW i \in 1..Waiting PROVE Call(i)' = Call(i)
  <2>1. CASE i <= Len(waQ)
    BY <1>1, <2>1 DEF Call
  <2>2. CASE ~(i <= Len(waQ))
    <3>1. i - Len(waQ) \in 1..Len(acceptQ)
      BY <1>1, <2>2 DEF Waiting
    <3> QED BY <1>1, <1>2, <2>2, <3>1 DEF Call
  <2> QED BY <2>1, <2>2
<1>5. Call(Waiting)' = r
  <2> DEFINE n == Len(waQ) + Len(acceptQ)
  <2>1. Waiting' = n + 1 /\ ~(n + 1 <= Len(waQ)) /\ (n + 1) - Len(waQ) = Len(acceptQ) + 1
    BY <1>1, <1>3 DEF Waiting
  <2> QED BY <1>1, <1>2, <2>1 DEF Call
<1> QED BY <1>3, <1>4, <1>5

\* The acceptor serves its first call, or cancels all it has: none loses its
\* place.
LEMMA PlacesKept ==
  ASSUME TypeOK, AcceptorServes \/ GraveyardGone
  PROVE  /\ Waiting' = Waiting
         /\ \A i \in 1..Waiting : Call(i)' = Call(i)
<1>0. Len(waQ) \in Nat /\ Len(acceptQ) \in Nat
  BY WaitingTypes
<1>1. CASE AcceptorServes
  <2>1. PICK h : /\ waQ' = Append(waQ, h) /\ h.req = Head(acceptQ)
                 /\ acceptQ # <<>> /\ acceptQ' = Tail(acceptQ)
    BY <1>1 DEF AcceptorServes
  <2>2. /\ Len(waQ') = Len(waQ) + 1
        /\ \A i \in 1..Len(waQ) : waQ'[i] = waQ[i]
        /\ waQ'[Len(waQ) + 1] = h
    BY <2>1, AppendProperties DEF TypeOK
  <2>3. /\ Len(acceptQ) # 0 /\ Len(acceptQ') = Len(acceptQ) - 1
        /\ \A i \in 1..Len(acceptQ) - 1 : acceptQ'[i] = acceptQ[i + 1]
        /\ Head(acceptQ) = acceptQ[1]
    BY <2>1 DEF TypeOK
  <2>4. Waiting' = Waiting
    BY <1>0, <2>2, <2>3 DEF Waiting
  <2>5. ASSUME NEW i \in 1..Waiting PROVE Call(i)' = Call(i)
    <3>1. CASE i <= Len(waQ)
      BY <1>0, <2>2, <3>1 DEF Call
    <3>2. CASE i = Len(waQ) + 1
      BY <1>0, <2>1, <2>2, <2>3, <3>2 DEF Call
    <3>3. CASE i > Len(waQ) + 1
      <4>1. i - (Len(waQ) + 1) \in 1..Len(acceptQ) - 1
        BY <1>0, <3>3 DEF Waiting
      <4>2. (i - (Len(waQ) + 1)) + 1 = i - Len(waQ)
        BY <1>0
      <4>3. /\ ~(i <= Len(waQ)) /\ ~(i <= Len(waQ'))
            /\ i - Len(waQ') = i - (Len(waQ) + 1)
        BY <1>0, <2>2, <3>3
      <4>4. acceptQ'[i - (Len(waQ) + 1)] = acceptQ[(i - (Len(waQ) + 1)) + 1]
        BY <2>3, <4>1
      <4> QED BY <4>2, <4>3, <4>4 DEF Call
    <3> QED BY <1>0, <3>1, <3>2, <3>3
  <2> QED BY <2>4, <2>5
<1>2. CASE GraveyardGone
  <2> DEFINE c == [i \in 1..Len(acceptQ) |-> [req |-> acceptQ[i], err |-> "cancelled"]]
  <2>1. waQ' = waQ \o c /\ acceptQ' = <<>>
    BY <1>2 DEF GraveyardGone
  <2>2. /\ c \in Seq(Handlers) /\ Len(c) = Len(acceptQ)
        /\ \A i \in 1..Len(acceptQ) : c[i].req = acceptQ[i]
    <3>1. \A i \in 1..Len(acceptQ) : [req |-> acceptQ[i], err |-> "cancelled"] \in Handlers
      BY WaitingTypes DEF Handlers
    <3> QED BY <1>0, <3>1
  <2> HIDE DEF c
  <2>3. /\ Len(waQ') = Len(waQ) + Len(acceptQ)
        /\ \A i \in 1..Len(waQ) + Len(acceptQ) :
             waQ'[i] = IF i <= Len(waQ) THEN waQ[i] ELSE c[i - Len(waQ)]
    <3>1. waQ \in Seq(Handlers)
      BY DEF TypeOK
    <3>2. /\ Len(waQ \o c) = Len(waQ) + Len(c)
          /\ \A i \in 1..Len(waQ) + Len(c) :
               (waQ \o c)[i] = IF i <= Len(waQ) THEN waQ[i] ELSE c[i - Len(waQ)]
      BY <2>2, <3>1, ConcatProperties, Zenon
    <3> QED BY <2>1, <2>2, <3>2
  <2>4. Len(acceptQ') = 0
    BY <2>1
  <2>5. Waiting' = Waiting
    BY <1>0, <2>3, <2>4 DEF Waiting
  <2>6. ASSUME NEW i \in 1..Waiting PROVE Call(i)' = Call(i)
    <3>1. i \in 1..Len(waQ) + Len(acceptQ) /\ i <= Len(waQ')
      BY <1>0, <2>3 DEF Waiting
    <3>2. CASE i <= Len(waQ)
      BY <2>3, <3>1, <3>2 DEF Call
    <3>3. CASE ~(i <= Len(waQ))
      <4>1. i - Len(waQ) \in 1..Len(acceptQ)
        BY <1>0, <3>1, <3>3
      <4> QED BY <2>2, <2>3, <3>1, <3>3, <4>1 DEF Call
    <3> QED BY <3>2, <3>3
  <2> QED BY <2>5, <2>6
<1> QED BY <1>1, <1>2

\* Wa takes the first call.
LEMMA FirstIsTaken ==
  ASSUME TypeOK, waQ # <<>>, waQ' = Tail(waQ), acceptQ' = acceptQ
  PROVE  /\ Waiting \in Nat /\ Waiting # 0 /\ Waiting' = Waiting - 1
         /\ Call(1) = Head(waQ).req
         /\ \A i \in 1..Waiting - 1 : Call(i)' = Call(i + 1)
<1>1. Len(waQ) \in Nat /\ Len(acceptQ) \in Nat
  BY WaitingTypes
<1>2. /\ Len(waQ) # 0 /\ Len(waQ') = Len(waQ) - 1 /\ Head(waQ) = waQ[1]
      /\ \A i \in 1..Len(waQ) - 1 : waQ'[i] = waQ[i + 1]
  BY DEF TypeOK
<1>3. Waiting \in Nat /\ Waiting # 0 /\ Waiting' = Waiting - 1 /\ Call(1) = Head(waQ).req
  BY <1>1, <1>2 DEF Waiting, Call
<1>4. ASSUME NEW i \in 1..Waiting - 1 PROVE Call(i)' = Call(i + 1)
  <2>1. CASE i <= Len(waQ) - 1
    BY <1>1, <1>2, <2>1 DEF Call
  <2>2. CASE ~(i <= Len(waQ) - 1)
    <3>1. i - (Len(waQ) - 1) = (i + 1) - Len(waQ)
      BY <1>1
    <3> QED BY <1>1, <1>2, <2>2, <3>1 DEF Call
  <2> QED BY <2>1, <2>2
<1> QED BY <1>3, <1>4

-----------------------------------------------------------------------------
(* The steps keep the invariant.                                            *)

\* A thread that is lost changes nothing of it.
LEMMA LostKeeps ==
  ASSUME ServerInv, NEW w, Misuse(w)
  PROVE  ServerInv'
BY DEF ServerInv, Misuse, WaitingOnce, Waiting, Call, HandlerIsLast, IncompleteLive,
       IncompleteIsOutstanding, GraveyardIsPast, CancelledWhenClosing

\* The calls without a session are as before when a step concerns one that has
\* one.
LEMMA OthersWait ==
  ASSUME TypeOK, WaitingOnce, NEW r \in Reqs, ws[r] # "none",
         \A q \in Reqs : q # r => ws'[q] = ws[q] /\ runs'[q] = runs[q],
         UNCHANGED <<asked, waQ, acceptQ>>
  PROVE  WaitingOnce'
<1>1. Waiting' = Waiting /\ \A i \in 1..Waiting : Call(i)' = Call(i)
  BY DEF Waiting, Call
<1>2. ASSUME NEW i \in 1..Waiting
      PROVE  Call(i) \in asked /\ ws'[Call(i)] = "none" /\ runs'[Call(i)] = 0
  <2>1. Call(i) \in Reqs
    BY WaitingTypes
  <2>2. Call(i) \in asked /\ ws[Call(i)] = "none" /\ runs[Call(i)] = 0
    BY DEF WaitingOnce
  <2> QED BY <2>1, <2>2
<1> QED BY <1>1, <1>2 DEF WaitingOnce

\* The graveyard's sessions stay past their handlers' touching them when no step
\* takes one back and no other session starts to die.
LEMMA PastStays ==
  ASSUME TypeOK, GraveyardIsPast, graveQ' = graveQ,
         \A q \in Reqs : ws[q] \in {"buried", "idle"} => ws'[q] \in {"buried", "idle"},
         dtor' \in {"no", "graveyard", "acceptor"} =>
           /\ dtor \in {"no", "graveyard", "acceptor"}
           /\ \A q \in Reqs : sess'[q] = "dying" =>
                sess[q] = "dying" \/ ws'[q] \in {"buried", "idle"}
  PROVE  GraveyardIsPast'
<1>1. \A i \in 1..Len(graveQ) : graveQ[i] \in Reqs
  BY DEF TypeOK
<1>2. \A i \in 1..Len(graveQ') : ws'[graveQ'[i]] \in {"buried", "idle"}
  BY <1>1 DEF GraveyardIsPast
<1> QED BY <1>2 DEF GraveyardIsPast

\* async_accept() makes a call that no session and no queue has.
LEMMA AskKeeps ==
  ASSUME TypeOK, ServerInv, NEW r \in Reqs, AsyncAccept(r)
  PROVE  ServerInv'
<1>1. /\ r \notin asked /\ asked' = asked \cup {r} /\ dtor = "no"
      /\ UNCHANGED <<waQ, incomplete, graveQ, sess, ws, runs, dtor>>
  BY DEF AsyncAccept
<1>2. /\ Waiting' = Waiting + 1 /\ Call(Waiting)' = r /\ Waiting \in Nat
      /\ \A i \in 1..Waiting : Call(i)' = Call(i)
  BY AskedIsLast, WaitingTypes
<1>3. ws[r] = "none" /\ runs[r] = 0
  BY <1>1 DEF ServerInv, HandlerIsLast
<1>4. WaitingOnce'
  <2>1. \A i \in 1..Waiting : Call(i)' \in asked /\ ws[Call(i)'] = "none" /\ runs[Call(i)'] = 0
    BY <1>2 DEF ServerInv, WaitingOnce
  <2>2. \A i, j \in 1..Waiting : Call(i)' = Call(j)' => i = j
    BY <1>2 DEF ServerInv, WaitingOnce
  <2>3. \A i \in 1..(Waiting + 1) : i = Waiting + 1 => Call(i)' = r
    BY <1>2
  <2>4. \A i \in 1..(Waiting + 1) : i \in 1..Waiting \/ i = Waiting + 1
    BY <1>2
  <2>5. \A i \in 1..(Waiting + 1) :
          Call(i)' \in asked' /\ ws'[Call(i)'] = "none" /\ runs'[Call(i)'] = 0
    BY <1>1, <1>3, <2>1, <2>3, <2>4
  <2>6. \A i, j \in 1..(Waiting + 1) : Call(i)' = Call(j)' => i = j
    BY <1>1, <2>1, <2>2, <2>3, <2>4
  <2> QED BY <1>2, <2>5, <2>6 DEF WaitingOnce
<1>5. HandlerIsLast'
  BY <1>1, <1>3 DEF ServerInv, HandlerIsLast
<1> QED BY <1>1, <1>4, <1>5
        DEF ServerInv, IncompleteLive, IncompleteIsOutstanding, GraveyardIsPast,
            CancelledWhenClosing

\* The acceptor serves a call, or has cancelled all.
LEMMA ServeKeeps ==
  ASSUME TypeOK, ServerInv, AcceptorServes \/ GraveyardGone
  PROVE  ServerInv'
<1>1. UNCHANGED <<asked, incomplete, graveQ, sess, ws, runs>>
  BY DEF AcceptorServes, GraveyardGone
<1>2. WaitingOnce'
  <2>1. Waiting' = Waiting /\ \A i \in 1..Waiting : Call(i)' = Call(i)
    BY PlacesKept
  <2> QED BY <1>1, <2>1 DEF ServerInv, WaitingOnce
<1>3. /\ dtor' \in {"no", "graveyard", "acceptor"} => dtor \in {"no", "graveyard", "acceptor"}
      /\ GraveyardGone => dtor' # "no"
  BY DEF AcceptorServes, GraveyardGone
<1>4. ASSUME AcceptorServes, dtor = "no", NEW i \in 1..Len(waQ') PROVE waQ'[i].err # "cancelled"
  <2>1. PICK e \in {"none", "error"} :
          waQ' = Append(waQ, [req |-> Head(acceptQ), err |-> e])
    BY <1>4 DEF AcceptorServes
  <2>2. CASE i <= Len(waQ)
    BY <1>4, <2>1, <2>2 DEF ServerInv, CancelledWhenClosing, TypeOK
  <2>3. CASE ~(i <= Len(waQ))
    BY <1>4, <2>1, <2>3 DEF TypeOK
  <2> QED BY <2>2, <2>3
<1>5. CancelledWhenClosing'
  BY <1>3, <1>4 DEF AcceptorServes, CancelledWhenClosing
<1> QED BY <1>1, <1>2, <1>3, <1>5
        DEF ServerInv, HandlerIsLast, IncompleteLive, IncompleteIsOutstanding, GraveyardIsPast

\* Wa's handler takes the first call; the others are as they were.
LEMMA FirstLeaves ==
  ASSUME TypeOK, WaitingOnce, waQ # <<>>, waQ' = Tail(waQ), UNCHANGED <<acceptQ, asked>>,
         NEW r, r = Head(waQ).req,
         \A q \in Reqs : q # r => ws'[q] = ws[q] /\ runs'[q] = runs[q]
  PROVE  WaitingOnce' /\ r \in Reqs /\ r \in asked /\ ws[r] = "none" /\ runs[r] = 0
<1>1. /\ Waiting \in Nat /\ Waiting # 0 /\ Waiting' = Waiting - 1 /\ Call(1) = r
      /\ \A i \in 1..Waiting - 1 : Call(i)' = Call(i + 1)
  BY FirstIsTaken
<1>2. r \in Reqs /\ r \in asked /\ ws[r] = "none" /\ runs[r] = 0
  BY <1>1, WaitingTypes DEF WaitingOnce
<1>3. ASSUME NEW i \in 1..Waiting - 1
      PROVE  Call(i)' \in asked /\ ws'[Call(i)'] = "none" /\ runs'[Call(i)'] = 0
  <2>1. i + 1 \in 1..Waiting /\ 1 \in 1..Waiting /\ i + 1 # 1
    BY <1>1
  <2>2. /\ Call(i + 1) \in Reqs /\ Call(i + 1) # r /\ Call(i + 1) \in asked
        /\ ws[Call(i + 1)] = "none" /\ runs[Call(i + 1)] = 0
    BY <1>1, <2>1, WaitingTypes DEF WaitingOnce
  <2> QED BY <1>1, <2>2
<1>4. ASSUME NEW i \in 1..Waiting - 1, NEW j \in 1..Waiting - 1, Call(i)' = Call(j)'
      PROVE  i = j
  <2>1. i + 1 \in 1..Waiting /\ j + 1 \in 1..Waiting /\ Call(i + 1) = Call(j + 1)
    BY <1>1, <1>4
  <2>2. i + 1 = j + 1
    BY <2>1 DEF WaitingOnce
  <2> QED BY <2>2
<1>5. WaitingOnce'
  BY <1>1, <1>3, <1>4 DEF WaitingOnce
<1> QED BY <1>2, <1>5

\* What is left of Wa's handlers is as it was.
LEMMA RestOfHandlers ==
  ASSUME TypeOK, CancelledWhenClosing, waQ # <<>>, waQ' = Tail(waQ), dtor' = dtor
  PROVE  CancelledWhenClosing'
<1>1. /\ Len(waQ') = Len(waQ) - 1 /\ Len(waQ) \in Nat
      /\ \A i \in 1..Len(waQ) - 1 : waQ'[i] = waQ[i + 1]
  BY DEF TypeOK
<1>2. \A i \in 1..Len(waQ) - 1 : i + 1 \in 1..Len(waQ)
  BY <1>1
<1> QED BY <1>1, <1>2 DEF CancelledWhenClosing

\* The accept has failed: the call has been answered and has no session.
LEMMA FailedKeeps ==
  ASSUME TypeOK, ServerInv, WaFailed
  PROVE  ServerInv'
<1> DEFINE r == Head(waQ).req
<1>1. /\ waQ # <<>> /\ waQ' = Tail(waQ) /\ r \in Reqs
      /\ UNCHANGED <<asked, acceptQ, incomplete, graveQ, sess, ws, dtor>>
      /\ runs' = [runs EXCEPT ![r] = @ + 1]
  BY NextHandler DEF WaFailed, RunHandler
<1> HIDE DEF r
<1>2. /\ \A q \in Reqs : q # r => ws'[q] = ws[q] /\ runs'[q] = runs[q]
      /\ ws[r] = "none" => HandlerIsLast' \/ r \notin asked
  BY <1>1 DEF ServerInv, HandlerIsLast, TypeOK, Outstanding
<1>3. WaitingOnce' /\ r \in asked /\ ws[r] = "none"
  BY <1>1, <1>2, FirstLeaves DEF r, ServerInv
<1>4. CancelledWhenClosing'
  BY <1>1, RestOfHandlers DEF ServerInv
<1> QED BY <1>1, <1>2, <1>3, <1>4
        DEF ServerInv, IncompleteLive, IncompleteIsOutstanding, GraveyardIsPast

\* A connection: a session that is incomplete.
LEMMA AcceptedKeeps ==
  ASSUME TypeOK, ServerInv, WaAccepted
  PROVE  ServerInv'
<1>1. CASE EarlyMembersGone
  BY <1>1, LostKeeps DEF WaAccepted
<1>2. CASE ~EarlyMembersGone
  <2> DEFINE r == Head(waQ).req
  <2>1. /\ waQ # <<>> /\ waQ' = Tail(waQ) /\ r \in Reqs
        /\ incomplete' = incomplete \cup {r}
        /\ sess' = [sess EXCEPT ![r] = "alive"] /\ ws' = [ws EXCEPT ![r] = "login"]
        /\ UNCHANGED <<asked, acceptQ, graveQ, runs, dtor>>
    BY <1>2, NextHandler DEF WaAccepted
  <2> HIDE DEF r
  <2>2. \A q \in Reqs : q # r => ws'[q] = ws[q] /\ sess'[q] = sess[q] /\ runs'[q] = runs[q]
    BY <2>1 DEF TypeOK
  <2>3. WaitingOnce' /\ r \in asked /\ ws[r] = "none" /\ runs[r] = 0
    BY <2>1, <2>2, FirstLeaves DEF r, ServerInv
  <2>4. CancelledWhenClosing'
    BY <2>1, RestOfHandlers DEF ServerInv
  <2>5. ws'[r] = "login" /\ sess'[r] = "alive" /\ runs'[r] = 0
    BY <2>1, <2>3 DEF TypeOK
  <2>6. HandlerIsLast' /\ IncompleteLive' /\ IncompleteIsOutstanding'
    BY <2>1, <2>2, <2>3, <2>5 DEF ServerInv, HandlerIsLast, IncompleteLive,
       IncompleteIsOutstanding, Outstanding, TypeOK
  <2>7. GraveyardIsPast'
    BY <2>1, <2>2, <2>3, <2>5, PastStays DEF ServerInv
  <2> QED BY <2>3, <2>4, <2>6, <2>7 DEF ServerInv
<1> QED BY <1>1, <1>2

\* Ws(r) goes on within the stages of an outstanding log-in.
LEMMA LogInKeeps ==
  ASSUME TypeOK, ServerInv, NEW r \in Reqs,
         LogInFails(r) \/ SetUp(r) \/ SetUpEnds(r) \/ LogInSucceeds(r) \/ Lock(r)
  PROVE  ServerInv'
<1>1. CASE (SetUp(r) \/ SetUpEnds(r)) /\ r \notin incomplete
  BY <1>1, LostKeeps DEF SetUp, SetUpEnds
<1>2. CASE ~((SetUp(r) \/ SetUpEnds(r)) /\ r \notin incomplete)
  <2>1. PICK t \in {"setup", "acking", "handler", "locked", "expired"} :
          /\ ws' = [ws EXCEPT ![r] = t] /\ ws[r] \in Outstanding
          /\ t = "expired" => r \notin incomplete
          /\ UNCHANGED <<asked, acceptQ, waQ, incomplete, graveQ, sess, runs, dtor>>
    BY <1>2 DEF LogInFails, SetUp, SetUpEnds, LogInSucceeds, Lock, Ws, Outstanding
  <2>2. ws'[r] = t /\ \A q \in Reqs : q # r => ws'[q] = ws[q]
    BY <2>1 DEF TypeOK
  <2>3. WaitingOnce'
    BY <2>1, <2>2, OthersWait DEF ServerInv, Outstanding
  <2>4. HandlerIsLast' /\ IncompleteLive'
    BY <2>1, <2>2 DEF ServerInv, HandlerIsLast, IncompleteLive, Outstanding, TypeOK
  <2>5. IncompleteIsOutstanding'
    BY <2>1, <2>2 DEF ServerInv, IncompleteIsOutstanding, Outstanding, TypeOK
  <2>6. GraveyardIsPast'
    BY <2>1, <2>2, PastStays DEF ServerInv, Outstanding
  <2> QED BY <2>1, <2>3, <2>4, <2>5, <2>6 DEF ServerInv, CancelledWhenClosing
<1> QED BY <1>1, <1>2

\* The session leaves the set.
LEMMA EraseKeeps ==
  ASSUME TypeOK, ServerInv, NEW r \in Reqs, Erase(r)
  PROVE  ServerInv'
<1>1. CASE EarlyMembersGone
  BY <1>1, LostKeeps DEF Erase
<1>2. CASE ~EarlyMembersGone
  <2>1. /\ ws[r] = "locked" /\ ws' = [ws EXCEPT ![r] = "erased"]
        /\ incomplete' = incomplete \ {r}
        /\ UNCHANGED <<asked, acceptQ, waQ, graveQ, sess, runs, dtor>>
    BY <1>2 DEF Erase, Ws
  <2>2. ws'[r] = "erased" /\ \A q \in Reqs : q # r => ws'[q] = ws[q]
    BY <2>1 DEF TypeOK
  <2>3. WaitingOnce'
    BY <2>1, <2>2, OthersWait DEF ServerInv
  <2>4. HandlerIsLast' /\ IncompleteLive'
    BY <2>1, <2>2 DEF ServerInv, HandlerIsLast, IncompleteLive, Outstanding, TypeOK
  <2>5. IncompleteIsOutstanding'
    BY <2>1, <2>2 DEF ServerInv, IncompleteIsOutstanding, TypeOK
  <2>6. GraveyardIsPast'
    BY <2>1, <2>2, PastStays DEF ServerInv
  <2> QED BY <2>1, <2>3, <2>4, <2>5, <2>6 DEF ServerInv, CancelledWhenClosing
<1> QED BY <1>1, <1>2

\* It goes to the graveyard, its handler being past it.
LEMMA BuryKeeps ==
  ASSUME TypeOK, ServerInv, NEW r \in Reqs, Bury(r)
  PROVE  ServerInv'
<1>1. CASE EarlyMembersGone
  BY <1>1, LostKeeps DEF Bury
<1>2. CASE ~EarlyMembersGone
  <2>1. /\ ws[r] = "erased" /\ ws' = [ws EXCEPT ![r] = "buried"]
        /\ graveQ' = Append(graveQ, r)
        /\ UNCHANGED <<asked, acceptQ, waQ, incomplete, sess, runs, dtor>>
    BY <1>2 DEF Bury, Ws
  <2>2. ws'[r] = "buried" /\ \A q \in Reqs : q # r => ws'[q] = ws[q]
    BY <2>1 DEF TypeOK
  <2>3. WaitingOnce'
    BY <2>1, <2>2, OthersWait DEF ServerInv
  <2>4. HandlerIsLast' /\ IncompleteLive'
    BY <2>1, <2>2 DEF ServerInv, HandlerIsLast, IncompleteLive, Outstanding, TypeOK
  <2>5. IncompleteIsOutstanding'
    BY <2>1, <2>2 DEF ServerInv, IncompleteIsOutstanding, TypeOK
  <2>6. GraveyardIsPast'
    <3>1. /\ Len(graveQ') = Len(graveQ) + 1 /\ graveQ'[Len(graveQ) + 1] = r
          /\ Len(graveQ) \in Nat
          /\ \A i \in 1..Len(graveQ) : graveQ'[i] = graveQ[i] /\ graveQ[i] \in Reqs
      BY <2>1 DEF TypeOK
    <3>2. \A q \in Reqs : ws[q] \in {"buried", "idle"} => ws'[q] \in {"buried", "idle"}
      BY <2>1, <2>2
    <3>3. \A i \in 1..Len(graveQ) : ws'[graveQ'[i]] \in {"buried", "idle"}
      BY <3>1, <3>2 DEF ServerInv, GraveyardIsPast
    <3>4. \A i \in 1..Len(graveQ') : ws'[graveQ'[i]] \in {"buried", "idle"}
      BY <2>2, <3>1, <3>3
    <3> QED BY <2>1, <3>2, <3>4 DEF ServerInv, GraveyardIsPast
  <2> QED BY <2>1, <2>3, <2>4, <2>5, <2>6 DEF ServerInv, CancelledWhenClosing
<1> QED BY <1>1, <1>2

\* The user's handler runs, the last of the log-in.
LEMMA AnswerKeeps ==
  ASSUME TypeOK, ServerInv, NEW r \in Reqs, Report(r) \/ Give(r)
  PROVE  ServerInv'
<1>1. /\ ws[r] \in {"buried", "expired", "erased"} /\ ws' = [ws EXCEPT ![r] = "idle"]
      /\ runs' = [runs EXCEPT ![r] = @ + 1]
      /\ sess' = sess \/ sess' = [sess EXCEPT ![r] = "given"]
      /\ UNCHANGED <<asked, acceptQ, waQ, incomplete, graveQ, dtor>>
  BY DEF Report, Give, Ws, RunHandler
<1>2. /\ ws'[r] = "idle"
      /\ \A q \in Reqs : q # r => ws'[q] = ws[q] /\ runs'[q] = runs[q] /\ sess'[q] = sess[q]
      /\ sess'[r] \in {sess[r], "given"}
  BY <1>1 DEF TypeOK
<1>3. WaitingOnce'
  BY <1>1, <1>2, OthersWait DEF ServerInv
<1>4. HandlerIsLast' /\ IncompleteLive'
  BY <1>1, <1>2 DEF ServerInv, HandlerIsLast, IncompleteLive, Outstanding, TypeOK
<1>5. IncompleteIsOutstanding'
  BY <1>1, <1>2 DEF ServerInv, IncompleteIsOutstanding, TypeOK
<1>6. GraveyardIsPast'
  BY <1>1, <1>2, PastStays DEF ServerInv
<1> QED BY <1>1, <1>3, <1>4, <1>5, <1>6 DEF ServerInv, CancelledWhenClosing

\* A session is dead: it was out of the set.
LEMMA DeathKeeps ==
  ASSUME TypeOK, ServerInv, NEW r \in Reqs, Dies(r)
  PROVE  ServerInv'
<1>1. /\ sess[r] = "dying" /\ ws[r] \in {"login", "idle"}
      /\ ws' = [ws EXCEPT ![r] = "idle"] /\ sess' = [sess EXCEPT ![r] = "dead"]
      /\ runs' = runs \/ runs' = [runs EXCEPT ![r] = @ + 1]
      /\ graveQ' = Unearth(r)
      /\ UNCHANGED <<asked, acceptQ, waQ, incomplete, dtor>>
  BY DEF Dies, RunHandler
<1>2. /\ ws'[r] = "idle" /\ sess'[r] = "dead"
      /\ \A q \in Reqs : q # r => ws'[q] = ws[q] /\ runs'[q] = runs[q] /\ sess'[q] = sess[q]
  BY <1>1 DEF TypeOK
<1>3. WaitingOnce'
  BY <1>1, <1>2, OthersWait DEF ServerInv
<1>4. r \notin incomplete
  BY <1>1 DEF ServerInv, IncompleteLive
<1>5. HandlerIsLast'
  BY <1>1, <1>2 DEF ServerInv, HandlerIsLast, Outstanding
<1>6. IncompleteLive' /\ IncompleteIsOutstanding'
  BY <1>1, <1>2, <1>4
     DEF ServerInv, IncompleteLive, IncompleteIsOutstanding, TypeOK
<1>7. GraveyardIsPast'
  <2>1. \A q \in Reqs : ws[q] \in {"buried", "idle"} => ws'[q] \in {"buried", "idle"}
    BY <1>1, <1>2
  <2>2. ASSUME NEW i \in 1..Len(graveQ') PROVE ws'[graveQ'[i]] \in {"buried", "idle"}
    <3>1. \E j \in 1..Len(graveQ) : graveQ'[i] = graveQ[j]
      BY <1>1 DEF Unearth, TypeOK
    <3>2. PICK j \in 1..Len(graveQ) : graveQ'[i] = graveQ[j]
      BY <3>1
    <3>3. graveQ[j] \in Reqs /\ ws[graveQ[j]] \in {"buried", "idle"}
      BY DEF ServerInv, GraveyardIsPast, TypeOK
    <3> QED BY <2>1, <3>2, <3>3
  <2> QED BY <1>1, <1>2, <2>1, <2>2 DEF ServerInv, GraveyardIsPast
<1> QED BY <1>1, <1>3, <1>5, <1>6, <1>7 DEF ServerInv, CancelledWhenClosing

\* The graveyard's first session starts to die, or the destructor drops one.
LEMMA DyingKeeps ==
  ASSUME TypeOK, ServerInv, Dig \/ \E r \in Reqs : Drop(r)
  PROVE  ServerInv'
<1>1. PICK r \in Reqs :
        /\ \/ sess' = [sess EXCEPT ![r] = "dying"]
           \/ sess' = sess
        /\ sess[r] # "none"
        /\ r \notin incomplete'
        /\ incomplete' = incomplete \/ (incomplete' = incomplete \ {r} /\ dtor = "sessions")
        /\ dtor = "sessions" \/ ws[r] \in {"buried", "idle"}
  <2>1. CASE Dig
    <3>1. graveQ # <<>> /\ sess[Head(graveQ)] = "alive" /\ incomplete' = incomplete
          /\ sess' = [sess EXCEPT ![Head(graveQ)] = "dying"]
      BY <2>1 DEF Dig
    <3>2. Head(graveQ) \in Reqs /\ ws[Head(graveQ)] \in {"buried", "idle"}
      BY <3>1 DEF ServerInv, GraveyardIsPast, TypeOK
    <3>3. Head(graveQ) \notin incomplete
      BY <3>2 DEF ServerInv, IncompleteLive, Outstanding
    <3> QED BY <3>1, <3>2, <3>3
  <2>2. ASSUME NEW r \in Reqs, Drop(r)
        PROVE  /\ sess' = [sess EXCEPT ![r] = "dying"] \/ sess' = sess
               /\ sess[r] # "none"
               /\ incomplete' = incomplete \ {r} /\ dtor = "sessions"
    BY <2>2 DEF Drop, ServerInv, IncompleteLive
  <2> QED BY <2>1, <2>2
<1>2. UNCHANGED <<asked, acceptQ, waQ, graveQ, ws, runs, dtor>>
  BY DEF Dig, Drop
<1>3. WaitingOnce' /\ CancelledWhenClosing'
  BY <1>2 DEF ServerInv, WaitingOnce, Waiting, Call, CancelledWhenClosing
<1>4. \A q \in Reqs : q # r => sess'[q] = sess[q]
  BY <1>1 DEF TypeOK
<1>5. HandlerIsLast'
  BY <1>1, <1>2, <1>4 DEF ServerInv, HandlerIsLast
<1>6. IncompleteLive' /\ IncompleteIsOutstanding'
  BY <1>1, <1>2, <1>4 DEF ServerInv, IncompleteLive, IncompleteIsOutstanding, TypeOK
<1>7. GraveyardIsPast'
  BY <1>1, <1>2, <1>4, PastStays DEF ServerInv
<1> QED BY <1>3, <1>5, <1>6, <1>7 DEF ServerInv

\* The destructor goes to its next member.
LEMMA DtorKeeps ==
  ASSUME TypeOK, ServerInv, DtorStart \/ AcceptorGone \/ DtorEnds
  PROVE  ServerInv'
<1>1. /\ UNCHANGED <<asked, acceptQ, waQ, incomplete, graveQ, sess, ws, runs>>
      /\ dtor' # "no"
      /\ dtor' \in {"no", "graveyard", "acceptor"} => dtor \in {"no", "graveyard", "acceptor"}
  BY DEF DtorStart, AcceptorGone, DtorEnds
<1> QED BY <1>1 DEF ServerInv, WaitingOnce, Waiting, Call, HandlerIsLast, IncompleteLive,
        IncompleteIsOutstanding, GraveyardIsPast, CancelledWhenClosing

\* Every step keeps the invariant.
LEMMA ServerStep ==
  ASSUME TypeOK, ServerInv, [Next]_vars
  PROVE  ServerInv'
<1>1. CASE UNCHANGED vars
  BY <1>1 DEF vars, ServerInv, WaitingOnce, Waiting, Call, HandlerIsLast, IncompleteLive,
     IncompleteIsOutstanding, GraveyardIsPast, CancelledWhenClosing
<1>2. ASSUME NEW r \in Reqs, GiveNothing(r) PROVE ServerInv'
  BY <1>2, LostKeeps DEF GiveNothing
<1> QED BY <1>1, <1>2, AskKeeps, ServeKeeps, FailedKeeps, AcceptedKeeps, LogInKeeps,
           EraseKeeps, BuryKeeps, AnswerKeeps, DeathKeeps, DyingKeeps, DtorKeeps
        DEF Next, Step, WaStep, WsStep, DtorStep

\* IncompleteIsOutstanding: until the destructor comes to m_incomplete_sessions,
\* the set that Wa, the sessions' workers and the user's thread change is that
\* of the sessions whose log-in's handler has not come to erase them.
THEOREM IncompleteHolds == Spec => []IncompleteIsOutstanding
<1>1. Init => ServerInv
  BY DEF Init, ServerInv, WaitingOnce, Waiting, Call, HandlerIsLast, IncompleteLive,
     IncompleteIsOutstanding, GraveyardIsPast, CancelledWhenClosing, Outstanding
<1>2. ServerInv => IncompleteIsOutstanding
  BY DEF ServerInv
<1> QED BY <1>1, <1>2, ServerStep, ServerTypeCorrect, PTL DEF Spec

-----------------------------------------------------------------------------
(* SessionServer implements AcceptContract.                                 *)

Calls == [r \in Reqs |-> CallOf(r)]
Given == {r \in Reqs : sess[r] = "given"}

\* A step that tells nobody and gives nothing is none of the contract's.
LEMMA NothingTold ==
  ASSUME UNCHANGED <<asked, runs, answer>>, dtor' = dtor \/ (dtor # "no" /\ dtor' # "no"),
         Given' = Given
  PROVE  UNCHANGED <<dtor # "no", Calls, Given>>
BY DEF Calls, CallOf

\* Sessions change, none becomes the user's and none was.
LEMMA SameGiven ==
  ASSUME TypeOK, NEW r \in Reqs, NEW s, sess' = [sess EXCEPT ![r] = s],
         s # "given", sess[r] # "given"
  PROVE  Given' = Given
BY DEF TypeOK, Given

\* The handler of a call that has been made and not answered is invoked.
LEMMA ToldIsInvoke ==
  ASSUME TypeOK, NEW r \in Reqs, NEW a \in {"ok", "error", "aborted"},
         r \in asked, runs[r] = 0, RunHandler(r, a), asked' = asked, dtor' = dtor,
         a = "aborted" => dtor # "no",
         Given' = IF a = "ok" THEN Given \cup {r} ELSE Given
  PROVE  Contract!Next
<1>1. /\ runs'[r] = 1 /\ answer'[r] = a
      /\ \A q \in Reqs : q # r => runs'[q] = runs[q] /\ answer'[q] = answer[q]
  BY DEF RunHandler, TypeOK
<1>2. Calls[r] = "made"
  BY DEF Calls, CallOf
<1>3. CallOf(r)' = a /\ \A q \in Reqs : q # r => CallOf(q)' = CallOf(q)
  BY <1>1 DEF CallOf
<1>4. Calls' = [Calls EXCEPT ![r] = a]
  BY <1>3 DEF Calls
<1>5. Contract!Invoke(r, a)
  BY <1>2, <1>4 DEF Contract!Invoke, Calls, Given
<1> QED BY <1>5 DEF Contract!Next, Contract!Answers

\* async_accept() is the contract's Make.
LEMMA AskIsMake ==
  ASSUME TypeOK, ServerInv, NEW r \in Reqs, AsyncAccept(r)
  PROVE  Contract!Next
<1>1. /\ r \notin asked /\ asked' = asked \cup {r} /\ dtor = "no"
      /\ UNCHANGED <<runs, answer, sess, dtor>>
  BY DEF AsyncAccept
<1>2. CallOf(r) = "unmade" /\ CallOf(r)' = "made"
  BY <1>1 DEF CallOf, ServerInv, HandlerIsLast
<1>3. \A q \in Reqs : q # r => CallOf(q)' = CallOf(q)
  BY <1>1 DEF CallOf
<1>4. Calls' = [Calls EXCEPT ![r] = "made"]
  BY <1>2, <1>3 DEF Calls
<1>5. Contract!Make(r)
  BY <1>1, <1>2, <1>4 DEF Contract!Make, Calls
<1> QED BY <1>5 DEF Contract!Next

\* Wa's telling of a failed accept: aborted only because the destructor was
\* called.
LEMMA FailedIsInvoke ==
  ASSUME TypeOK, ServerInv, WaFailed
  PROVE  Contract!Next
<1> DEFINE r == Head(waQ).req
           a == Code(Head(waQ).err)
<1>1. /\ waQ # <<>> /\ waQ' = Tail(waQ) /\ r \in Reqs /\ RunHandler(r, a)
      /\ a \in {"error", "aborted"}
      /\ a = "aborted" => Head(waQ).err = "cancelled"
      /\ UNCHANGED <<asked, acceptQ, sess, ws, dtor>>
  BY NextHandler DEF WaFailed, Code
<1>2. a = "aborted" => dtor # "no"
  BY <1>1 DEF ServerInv, CancelledWhenClosing, TypeOK
<1>3. r \in asked /\ runs[r] = 0
  <2>1. Waiting \in Nat /\ Waiting # 0 /\ Call(1) = r
    BY <1>1, FirstIsTaken
  <2> QED BY <2>1 DEF ServerInv, WaitingOnce
<1>4. Given' = Given
  BY <1>1 DEF Given
<1> HIDE DEF r, a
<1> QED BY <1>1, <1>2, <1>3, <1>4, ToldIsInvoke

\* The end of a log-in's handler is the contract's Invoke.
LEMMA AnswerIsInvoke ==
  ASSUME TypeOK, ServerInv, NEW r \in Reqs, Report(r) \/ Give(r)
  PROVE  Contract!Next
<1>1. /\ ws[r] \in {"buried", "expired", "erased"}
      /\ asked' = asked /\ dtor' = dtor
  BY DEF Report, Give, Ws
<1>2. r \in asked /\ runs[r] = 0
  BY <1>1 DEF ServerInv, HandlerIsLast
<1>3. CASE Report(r)
  <2>1. RunHandler(r, "error") /\ Given' = Given
    BY <1>3 DEF Report, Given
  <2> QED BY <1>1, <1>2, <2>1, ToldIsInvoke
<1>4. CASE Give(r)
  <2>1. RunHandler(r, "ok") /\ Given' = Given \cup {r}
    BY <1>4 DEF Give, Given, TypeOK
  <2> QED BY <1>1, <1>2, <2>1, ToldIsInvoke
<1> QED BY <1>3, <1>4

\* A session dies; the handler of one that was logging in is told, which only
\* the server's destructor brings about.
LEMMA DeathIsInvoke ==
  ASSUME TypeOK, ServerInv, NEW r \in Reqs, Dies(r)
  PROVE  Contract!Next \/ UNCHANGED <<dtor # "no", Calls, Given>>
<1>1. /\ sess[r] = "dying" /\ sess' = [sess EXCEPT ![r] = "dead"]
      /\ asked' = asked /\ dtor' = dtor
  BY DEF Dies
<1>2. Given' = Given
  BY <1>1, SameGiven
<1>3. CASE ws[r] = "login"
  <2>1. r \in asked /\ runs[r] = 0
    BY <1>3 DEF ServerInv, HandlerIsLast, Outstanding
  <2>2. dtor # "no"
    BY <1>1, <1>3 DEF ServerInv, GraveyardIsPast
  <2>3. RunHandler(r, "aborted")
    BY <1>3 DEF Dies
  <2> QED BY <1>1, <1>2, <2>1, <2>2, <2>3, ToldIsInvoke
<1>4. CASE ws[r] # "login"
  <2>1. UNCHANGED <<runs, answer>>
    BY <1>4 DEF Dies
  <2> QED BY <1>1, <1>2, <2>1, NothingTold
<1> QED BY <1>3, <1>4

\* The steps inside the server tell nobody.
LEMMA InnerStutters ==
  ASSUME TypeOK, ServerInv,
         \/ AcceptorServes \/ WaAccepted \/ Dig \/ DtorStep
         \/ \E r \in Reqs : \/ LogInFails(r) \/ SetUp(r) \/ SetUpEnds(r) \/ LogInSucceeds(r)
                            \/ Lock(r) \/ Erase(r) \/ Bury(r) \/ GiveNothing(r)
  PROVE  UNCHANGED <<dtor # "no", Calls, Given>>
<1>1. UNCHANGED <<asked, runs, answer>>
  BY DEF AcceptorServes, WaAccepted, Dig, DtorStep, GraveyardGone, AcceptorGone, DtorEnds,
     Drop, LogInFails, SetUp, SetUpEnds, LogInSucceeds, Lock, Erase, Bury,
     GiveNothing, Misuse
<1>2. dtor' = dtor \/ (dtor # "no" /\ dtor' # "no")
  BY DEF AcceptorServes, WaAccepted, Dig, DtorStep, GraveyardGone, AcceptorGone, DtorEnds,
     Drop, LogInFails, SetUp, SetUpEnds, LogInSucceeds, Lock, Erase, Bury,
     GiveNothing, Misuse
<1>3. Given' = Given
  <2>1. CASE WaAccepted /\ sess' # sess
    <3> DEFINE r == Head(waQ).req
    <3>1. waQ # <<>> /\ waQ' = Tail(waQ) /\ acceptQ' = acceptQ /\ r \in Reqs
          /\ sess' = [sess EXCEPT ![r] = "alive"]
      BY <2>1, NextHandler DEF WaAccepted, Misuse
    <3>2. Waiting \in Nat /\ Waiting # 0 /\ Call(1) = r
      BY <3>1, FirstIsTaken
    <3>3. sess[r] = "none"
      BY <3>1, <3>2 DEF ServerInv, WaitingOnce, HandlerIsLast
    <3> HIDE DEF r
    <3> QED BY <3>1, <3>3, SameGiven
  <2>2. CASE Dig
    <3>1. /\ Head(graveQ) \in Reqs /\ sess[Head(graveQ)] = "alive"
          /\ sess' = [sess EXCEPT ![Head(graveQ)] = "dying"]
      BY <2>2 DEF Dig, TypeOK
    <3> QED BY <3>1, SameGiven
  <2>3. ASSUME NEW r \in Reqs, Drop(r) PROVE Given' = Given
    <3>1. sess[r] = "alive" /\ (sess' = sess \/ sess' = [sess EXCEPT ![r] = "dying"])
      BY <2>3 DEF Drop, ServerInv, IncompleteLive
    <3>2. CASE sess' = sess
      BY <3>2 DEF Given
    <3>3. CASE sess' = [sess EXCEPT ![r] = "dying"]
      BY <3>1, <3>3, SameGiven
    <3> QED BY <3>1, <3>2, <3>3
  <2>4. CASE sess' = sess
    BY <2>4 DEF Given
  <2>5. \/ WaAccepted /\ sess' # sess
        \/ Dig \/ sess' = sess
        \/ \E r \in Reqs : Drop(r)
    BY DEF AcceptorServes, DtorStep, GraveyardGone, AcceptorGone, DtorEnds,
       LogInFails, SetUp, SetUpEnds, LogInSucceeds, Lock, Erase, Bury,
     GiveNothing, Misuse
  <2> QED BY <2>1, <2>2, <2>3, <2>4, <2>5
<1> QED BY <1>1, <1>2, <1>3, NothingTold

\* ImplementsContract: each async_accept() handler is invoked once; with
\* operation-aborted only after the destructor was called, although the acceptor,
\* the graveyard and two destructors may each want to run it; and a session is
\* given with success and only then.
THEOREM ServerImplementsContract == Spec => ImplementsContract
<1> DEFINE cvars == <<dtor # "no", Calls, Given>>
<1>1. Init => Contract!Init /\ ServerInv
  BY DEF Init, Contract!Init, CallOf, ServerInv, WaitingOnce, Waiting, Call, HandlerIsLast,
     IncompleteLive, IncompleteIsOutstanding, GraveyardIsPast, CancelledWhenClosing, Outstanding
<1>2. TypeOK /\ ServerInv /\ [Next]_vars => Contract!Next \/ UNCHANGED cvars
  <2> SUFFICES ASSUME TypeOK, ServerInv, [Next]_vars
               PROVE  Contract!Next \/ UNCHANGED cvars
    OBVIOUS
  <2>1. CASE DtorStart
    <3>1. ~(dtor # "no") /\ dtor' # "no" /\ Calls' = Calls /\ Given' = Given
      BY <2>1 DEF DtorStart, Calls, CallOf, Given
    <3>2. Contract!Close
      BY <3>1 DEF Contract!Close, Calls, Given
    <3> QED BY <3>2 DEF Contract!Next
  <2>2. CASE UNCHANGED vars
    BY <2>2 DEF vars, Calls, CallOf, Given
  <2> HIDE DEF cvars
  <2>3. \/ AcceptorServes \/ WaAccepted \/ Dig \/ DtorStep
        \/ \E r \in Reqs : \/ LogInFails(r) \/ SetUp(r) \/ SetUpEnds(r) \/ LogInSucceeds(r)
                           \/ Lock(r) \/ Erase(r) \/ Bury(r) \/ GiveNothing(r)
        => UNCHANGED cvars
    BY InnerStutters DEF cvars
  <2>4. ASSUME NEW r \in Reqs, Dies(r) PROVE Contract!Next \/ UNCHANGED cvars
    BY <2>4, DeathIsInvoke DEF cvars
  <2> QED BY <2>1, <2>2, <2>3, <2>4, AskIsMake, FailedIsInvoke, AnswerIsInvoke
          DEF Next, Step, WaStep, WsStep
<1>3. UNCHANGED cvars => UNCHANGED <<dtor # "no", [r \in Reqs |-> CallOf(r)],
                                     {r \in Reqs : sess[r] = "given"}>>
  BY DEF Calls, Given
<1> HIDE DEF cvars
<1> QED BY <1>1, <1>2, <1>3, ServerStep, ServerTypeCorrect, PTL
        DEF Spec, ImplementsContract, Contract!Spec
=============================================================================
