---------------------------- MODULE SessionServer ----------------------------
(***************************************************************************)
(* Session_server_impl: async_accept(), the sessions whose log-in is        *)
(* outstanding, the graveyard of those whose log-in has failed, and the     *)
(* destructor.                                                              *)
(*                                                                         *)
(* Threads, as in the source: U is the user's; Wa runs the handlers of the  *)
(* socket acceptor one after another; each session r has its own worker     *)
(* Ws(r), which runs the handler of its log-in; G is the graveyard's.  A    *)
(* session and the call of async_accept() it comes from are both named r.   *)
(*                                                                         *)
(* The destructor destroys the members of State one by one: the graveyard   *)
(* and m_mutex, the acceptor, m_incomplete_sessions.  A thread that uses    *)
(* what is gone has no defined outcome: that is recorded in misuse and      *)
(* nothing is modelled after it.  (m_state is an optional whose reset()     *)
(* destroys it in place: a member not yet destroyed still serves a thread   *)
(* that reaches it through m_state.)  Assertions guard nothing.             *)
(*                                                                         *)
(* External: the acceptor (Native_socket_stream_acceptor), modelled from    *)
(* its use in src/; the log-in itself is in ServerSession, here it is its   *)
(* outcome.                                                                 *)
(***************************************************************************)
EXTENDS Naturals, Sequences, FiniteSets

CONSTANTS
  Reqs,          \* the async_accept() calls the user may make
  GivesErrCode   \* the constructor was given an err_code to fill

ASSUME GivesErrCodeIsBoolean == GivesErrCode \in BOOLEAN

VARIABLES
  asked,       \* calls made
  acceptQ,     \* calls the acceptor has not served yet, in order
  waQ,         \* the acceptor's handlers that Wa has to run
  incomplete,  \* m_incomplete_sessions
  graveQ,      \* sessions handed to the graveyard, the first perhaps dying
  sess,        \* session: "none" yet, "alive", "dying" (in its destructor),
               \* "dead", "given" to the user
  ws,          \* where Ws(r) is in the handler of the log-in
  outcome,     \* how the log-in ended
  runs,        \* times the user's handler has run
  answer,      \* what it was told
  dtor,        \* the member the destructor is at, "no" or "done"
  misuse       \* what a thread used although it was gone

vars == <<asked, acceptQ, waQ, incomplete, graveQ, sess, ws, outcome, runs,
          answer, dtor, misuse>>

Handlers == [req : Reqs, err : {"none", "error", "cancelled"}]
WsPlaces == {"none", "login", "setup", "acking", "handler", "locked", "erased",
             "buried", "expired", "idle"}

TypeOK ==
  /\ asked \subseteq Reqs
  /\ acceptQ \in Seq(Reqs) /\ waQ \in Seq(Handlers)
  /\ incomplete \subseteq Reqs /\ graveQ \in Seq(Reqs)
  /\ sess \in [Reqs -> {"none", "alive", "dying", "dead", "given"}]
  /\ ws \in [Reqs -> WsPlaces]
  /\ outcome \in [Reqs -> {"none", "ok", "error"}]
  /\ runs \in [Reqs -> Nat]
  /\ answer \in [Reqs -> {"none", "ok", "error", "aborted"}]
  /\ dtor \in {"no", "graveyard", "acceptor", "sessions", "done"}
  /\ misuse \subseteq {"mutex", "graveyard", "sessions", "observer", "self"}

\* The constructor has succeeded and the acceptor listens.
Init ==
  /\ asked = {} /\ acceptQ = <<>> /\ waQ = <<>>
  /\ incomplete = {} /\ graveQ = <<>>
  /\ sess = [r \in Reqs |-> "none"]
  /\ ws = [r \in Reqs |-> "none"]
  /\ outcome = [r \in Reqs |-> "none"]
  /\ runs = [r \in Reqs |-> 0]
  /\ answer = [r \in Reqs |-> "none"]
  /\ dtor = "no"
  /\ misuse = {}

-----------------------------------------------------------------------------
(* Shared by the steps below.                                               *)

\* The graveyard and the mutex are destroyed before the acceptor is.
EarlyMembersGone == dtor \in {"acceptor", "sessions", "done"}

\* The thread is lost in what is gone.
Misuse(what) ==
  /\ misuse' = what
  /\ UNCHANGED <<asked, acceptQ, waQ, incomplete, graveQ, sess, ws, outcome,
                 runs, answer, dtor>>

\* on_done_func(): the user's handler for call r runs.
RunHandler(r, a) ==
  /\ runs' = [runs EXCEPT ![r] = @ + 1]
  /\ answer' = [answer EXCEPT ![r] = a]

Ws(r, from, to) == ws[r] = from /\ ws' = [ws EXCEPT ![r] = to]

\* Ws(r) has a strong reference to its own session.
Holds(r) == ws[r] \in {"setup", "locked", "erased"}

-----------------------------------------------------------------------------
(* async_accept() and thread Wa.                                            *)

AsyncAccept(r) ==
  /\ dtor = "no" /\ r \notin asked
  /\ asked' = asked \cup {r}
  /\ acceptQ' = Append(acceptQ, r)
  /\ UNCHANGED <<waQ, incomplete, graveQ, sess, ws, outcome, runs, answer,
                 dtor, misuse>>

\* The acceptor serves its first call: with a connection, or with an error.
AcceptorServes ==
  /\ dtor \in {"no", "graveyard"} /\ acceptQ # <<>>
  /\ acceptQ' = Tail(acceptQ)
  /\ \E e \in {"none", "error"} : waQ' = Append(waQ, [req |-> Head(acceptQ), err |-> e])
  /\ UNCHANGED <<asked, incomplete, graveQ, sess, ws, outcome, runs, answer,
                 dtor, misuse>>

\* Faulty: transport's code for a cancelled accept is passed on as it is.
CodeAsIs(e) == e

\* transport's operation-aborted becomes session's.
Code(e) == IF e = "cancelled" THEN "aborted" ELSE e

\* The accept has failed or has been cancelled; the user is told.
WaFailed ==
  /\ waQ # <<>> /\ Head(waQ).err # "none"
  /\ waQ' = Tail(waQ)
  /\ RunHandler(Head(waQ).req, Code(Head(waQ).err))
  /\ UNCHANGED <<asked, acceptQ, incomplete, graveQ, sess, ws, outcome, dtor, misuse>>

\* Faulty: the session is not saved and belongs to nobody.
WaForgets ==
  /\ waQ # <<>> /\ Head(waQ).err = "none"
  /\ LET r == Head(waQ).req
     IN  /\ sess' = [sess EXCEPT ![r] = "alive"]
         /\ ws' = [ws EXCEPT ![r] = "login"]
  /\ waQ' = Tail(waQ)
  /\ UNCHANGED <<asked, acceptQ, incomplete, graveQ, outcome, runs, answer, dtor, misuse>>

\* A connection: a new session, saved in m_incomplete_sessions, logs in.
WaAccepted ==
  /\ waQ # <<>> /\ Head(waQ).err = "none"
  /\ IF EarlyMembersGone
       THEN Misuse({"mutex"})
       ELSE LET r == Head(waQ).req
            IN  /\ incomplete' = incomplete \cup {r}
                /\ sess' = [sess EXCEPT ![r] = "alive"]
                /\ ws' = [ws EXCEPT ![r] = "login"]
                /\ waQ' = Tail(waQ)
                /\ UNCHANGED <<asked, acceptQ, graveQ, outcome, runs, answer,
                               dtor, misuse>>

-----------------------------------------------------------------------------
(* Thread Ws(r): the log-in ends, the handler async_accept() gave it runs.  *)

\* The log-in request is refused, or the master channel fails, here or while
\* the init-channels are made and acknowledged.
LogInFails(r) ==
  /\ Ws(r, "login", "handler") \/ Ws(r, "acking", "handler")
  /\ outcome' = [outcome EXCEPT ![r] = "error"]
  /\ UNCHANGED <<asked, acceptQ, waQ, incomplete, graveQ, sess, runs, answer,
                 dtor, misuse>>

\* The client is known: pre_rsp_setup_func() locks the observer and calls
\* m_per_app_setup_func().
SetUp(r) ==
  /\ ws[r] = "login"
  /\ IF r \notin incomplete
       THEN Misuse({"observer"})
       ELSE /\ Ws(r, "login", "setup")
            /\ UNCHANGED <<asked, acceptQ, waQ, incomplete, graveQ, sess, outcome,
                           runs, answer, dtor, misuse>>

\* m_per_app_setup_func() has returned and pre_rsp_setup_func() releases its
\* reference.  If it is the last, Ws(r) destroys its own session, and is to join
\* itself.  Otherwise the log-in response goes out and Ws(r) waits for the
\* init-channels' acknowledgement, or the set-up has failed and so the log-in.
SetUpEnds(r) ==
  /\ ws[r] = "setup"
  /\ IF r \notin incomplete
       THEN Misuse({"self"})
       ELSE /\ \/ Ws(r, "setup", "acking") /\ UNCHANGED outcome
               \/ /\ Ws(r, "setup", "handler")
                  /\ outcome' = [outcome EXCEPT ![r] = "error"]
            /\ UNCHANGED <<asked, acceptQ, waQ, incomplete, graveQ, sess, runs,
                           answer, dtor, misuse>>

LogInSucceeds(r) ==
  /\ Ws(r, "acking", "handler")
  /\ outcome' = [outcome EXCEPT ![r] = "ok"]
  /\ UNCHANGED <<asked, acceptQ, waQ, incomplete, graveQ, sess, runs, answer,
                 dtor, misuse>>

\* incomplete_session_observer.lock().
Lock(r) ==
  /\ Ws(r, "handler", IF r \in incomplete THEN "locked" ELSE "expired")
  /\ UNCHANGED <<asked, acceptQ, waQ, incomplete, graveQ, sess, outcome, runs,
                 answer, dtor, misuse>>

\* Faulty: a session whose log-in has failed stays in the set.
EraseIfOk(r) ==
  /\ Ws(r, "locked", "erased")
  /\ incomplete' = IF outcome[r] = "ok" THEN incomplete \ {r} ELSE incomplete
  /\ UNCHANGED <<asked, acceptQ, waQ, graveQ, sess, outcome, runs,
                 answer, dtor, misuse>>

\* No longer incomplete.  m_mutex protects the set from the other threads, not
\* from the destructor.
Erase(r) ==
  /\ ws[r] = "locked"
  /\ IF EarlyMembersGone
       THEN Misuse({"mutex"} \cup (IF dtor = "acceptor" THEN {} ELSE {"sessions"}))
       ELSE /\ Ws(r, "locked", "erased")
            /\ incomplete' = incomplete \ {r}
            /\ UNCHANGED <<asked, acceptQ, waQ, graveQ, sess, outcome, runs,
                           answer, dtor, misuse>>

\* Faulty: the last reference is dropped here; Ws(r) is to join itself.
BuryHere(r) ==
  /\ ws[r] = "erased" /\ outcome[r] = "error" /\ sess[r] = "alive"
  /\ sess' = [sess EXCEPT ![r] = "dying"]
  /\ UNCHANGED <<asked, acceptQ, waQ, incomplete, graveQ, ws, outcome, runs,
                 answer, dtor, misuse>>

\* The log-in has failed: the last reference goes to the graveyard.
Bury(r) ==
  /\ ws[r] = "erased" /\ outcome[r] = "error"
  /\ IF EarlyMembersGone
       THEN Misuse({"graveyard"})
       ELSE /\ Ws(r, "erased", "buried")
            /\ graveQ' = Append(graveQ, r)
            /\ UNCHANGED <<asked, acceptQ, waQ, incomplete, sess, outcome, runs,
                           answer, dtor, misuse>>

\* The user is told of the failure, the session having been buried or being
\* destroyed right now by the destructor.
Report(r) ==
  /\ outcome[r] = "error"
  /\ Ws(r, "buried", "idle") \/ Ws(r, "expired", "idle")
  /\ RunHandler(r, "error")
  /\ UNCHANGED <<asked, acceptQ, waQ, incomplete, graveQ, sess, outcome, dtor, misuse>>

\* The log-in has succeeded: the session is moved to *target_session.
Give(r) ==
  /\ outcome[r] = "ok"
  /\ Ws(r, "erased", "idle")
  /\ sess' = [sess EXCEPT ![r] = "given"]
  /\ RunHandler(r, "ok")
  /\ UNCHANGED <<asked, acceptQ, waQ, incomplete, graveQ, outcome, dtor, misuse>>

\* It has succeeded but the session is being destroyed: a null pointer is used.
GiveNothing(r) ==
  /\ ws[r] = "expired" /\ outcome[r] = "ok"
  /\ Misuse({"observer"})

-----------------------------------------------------------------------------
(* Destroying sessions; the graveyard's thread G; the destructor in U.      *)

Dying == {r \in Reqs : sess[r] = "dying"}

\* The first session of the graveyard leaves it once it is dead.
Unearth(r) == IF graveQ # <<>> /\ Head(graveQ) = r THEN Tail(graveQ) ELSE graveQ

\* ~Server_session_impl() has joined Ws(r), which it cannot while Ws(r) waits for
\* the acknowledgement or is in the handler; the log-in's handler, if it has
\* not run, runs now, finds the observer expired and tells the user.
DiesTwiceTold(r) ==   \* Faulty: it runs whether or not it has run.
  /\ sess[r] = "dying" /\ ws[r] \in {"login", "idle"}
  /\ sess' = [sess EXCEPT ![r] = "dead"]
  /\ ws' = [ws EXCEPT ![r] = "idle"]
  /\ RunHandler(r, "aborted")
  /\ graveQ' = Unearth(r)
  /\ UNCHANGED <<asked, acceptQ, waQ, incomplete, outcome, dtor, misuse>>

Dies(r) ==
  /\ sess[r] = "dying" /\ ws[r] \in {"login", "idle"}
  /\ sess' = [sess EXCEPT ![r] = "dead"]
  /\ ws' = [ws EXCEPT ![r] = "idle"]
  /\ IF ws[r] = "login" THEN RunHandler(r, "aborted") ELSE UNCHANGED <<runs, answer>>
  /\ graveQ' = Unearth(r)
  /\ UNCHANGED <<asked, acceptQ, waQ, incomplete, outcome, dtor, misuse>>

\* Faulty: what is left when the graveyard is shut down is left.
DigOnTime ==
  /\ graveQ # <<>> /\ sess[Head(graveQ)] = "alive"
  /\ GivesErrCode /\ dtor = "no"
  /\ sess' = [sess EXCEPT ![Head(graveQ)] = "dying"]
  /\ UNCHANGED <<asked, acceptQ, waQ, incomplete, graveQ, ws, outcome, runs,
                 answer, dtor, misuse>>

\* G destroys what is handed to it, if it was started; the destructor of the
\* graveyard destroys what is left.
Dig ==
  /\ graveQ # <<>> /\ sess[Head(graveQ)] = "alive"
  /\ GivesErrCode \/ dtor = "graveyard"
  /\ sess' = [sess EXCEPT ![Head(graveQ)] = "dying"]
  /\ UNCHANGED <<asked, acceptQ, waQ, incomplete, graveQ, ws, outcome, runs,
                 answer, dtor, misuse>>

DtorStart ==
  /\ dtor = "no"
  /\ dtor' = "graveyard"
  /\ UNCHANGED <<asked, acceptQ, waQ, incomplete, graveQ, sess, ws, outcome,
                 runs, answer, misuse>>

\* The graveyard is gone, then the mutex; the acceptor's destructor cancels
\* the calls it has not served.
GraveyardGone ==
  /\ dtor = "graveyard" /\ graveQ = <<>>
  /\ dtor' = "acceptor"
  /\ waQ' = waQ \o [i \in 1..Len(acceptQ) |-> [req |-> acceptQ[i], err |-> "cancelled"]]
  /\ acceptQ' = <<>>
  /\ UNCHANGED <<asked, incomplete, graveQ, sess, ws, outcome, runs, answer, misuse>>

\* Faulty: the acceptor goes without waiting for its handlers.
AcceptorGoneEarly ==
  /\ dtor = "acceptor"
  /\ dtor' = "sessions"
  /\ waQ' = <<>>
  /\ UNCHANGED <<asked, acceptQ, incomplete, graveQ, sess, ws, outcome,
                 runs, answer, misuse>>

\* Wa has run the last handler and is joined.
AcceptorGone ==
  /\ dtor = "acceptor" /\ waQ = <<>>
  /\ dtor' = "sessions"
  /\ UNCHANGED <<asked, acceptQ, waQ, incomplete, graveQ, sess, ws, outcome,
                 runs, answer, misuse>>

\* m_incomplete_sessions drops its sessions one by one; the one that Ws(r) has
\* a reference to does not die of it.
Drop(r) ==
  /\ dtor = "sessions" /\ r \in incomplete /\ Dying = {}
  /\ incomplete' = incomplete \ {r}
  /\ sess' = IF Holds(r) THEN sess ELSE [sess EXCEPT ![r] = "dying"]
  /\ UNCHANGED <<asked, acceptQ, waQ, graveQ, ws, outcome, runs, answer, dtor, misuse>>

DtorEnds ==
  /\ dtor = "sessions" /\ incomplete = {} /\ Dying = {}
  /\ dtor' = "done"
  /\ UNCHANGED <<asked, acceptQ, waQ, incomplete, graveQ, sess, ws, outcome,
                 runs, answer, misuse>>

-----------------------------------------------------------------------------

WaStep    == WaFailed \/ WaAccepted
WsStep(r) == Lock(r) \/ Erase(r) \/ Bury(r) \/ Report(r) \/ Give(r) \/ GiveNothing(r)
WsGoesOn(r) == SetUpEnds(r) \/ WsStep(r)
AckEnds(r) == ws[r] = "acking" /\ (LogInSucceeds(r) \/ LogInFails(r))
DtorStep  == GraveyardGone \/ AcceptorGone \/ DtorEnds \/ \E r \in Reqs : Drop(r)

Step ==
  \/ \E r \in Reqs : AsyncAccept(r)
  \/ AcceptorServes
  \/ WaStep
  \/ \E r \in Reqs : LogInFails(r)
  \/ \E r \in Reqs : SetUp(r)
  \/ \E r \in Reqs : SetUpEnds(r)
  \/ \E r \in Reqs : LogInSucceeds(r)
  \/ \E r \in Reqs : WsStep(r)
  \/ \E r \in Reqs : Dies(r)
  \/ Dig
  \/ DtorStart
  \/ DtorStep

Next == misuse = {} /\ Step

\* Threads go on, m_per_app_setup_func() returns, and destructors come to their
\* ends as far as they can; the wait for the acknowledgement ends, be it by the
\* master channel's idle timer.  No client has to connect or to ask for a log-in,
\* no user to call anything.
Fairness ==
  /\ WF_vars(misuse = {} /\ WaStep)
  /\ WF_vars(misuse = {} /\ Dig)
  /\ WF_vars(misuse = {} /\ DtorStep)
  /\ \A r \in Reqs : /\ WF_vars(misuse = {} /\ WsGoesOn(r))
                     /\ WF_vars(misuse = {} /\ AckEnds(r))
                     /\ WF_vars(misuse = {} /\ Dies(r))

Spec     == Init /\ [][Next]_vars
FairSpec == Spec /\ Fairness

-----------------------------------------------------------------------------
(* Properties.                                                              *)

CallOf(r) ==
  IF r \notin asked THEN "unmade"
  ELSE CASE runs[r] = 0 -> "made"
         [] runs[r] = 1 -> answer[r]
         [] OTHER -> "again"

Contract == INSTANCE AcceptContract WITH
  closing <- dtor # "no",
  call <- [r \in Reqs |-> CallOf(r)],
  given <- {r \in Reqs : sess[r] = "given"}

\* async_accept() keeps its promise whatever races with what: a handler never
\* runs twice although the log-in, the acceptor and two destructors may each
\* want to run it, operation-aborted means the destructor was called, and a
\* session is given with success only.
ImplementsContract == Contract!Spec

\* Until the destructor comes to it, m_incomplete_sessions, which several
\* threads change, is the set of the sessions whose log-in's handler has not
\* come to erase them.
IncompleteIsOutstanding ==
  dtor \in {"no", "graveyard", "acceptor"} =>
    incomplete = {r \in Reqs : ws[r] \in {"login", "setup", "acking", "handler", "locked"}}

\* A living session that is not the user's yet has an owner who will destroy
\* it or give it away: the set, the graveyard, or its own thread in passing, in
\* the handler or while it sets up what the client's application needs.
OwnedBySomebody ==
  \A r \in Reqs : sess[r] = "alive" =>
    r \in incomplete \/ Holds(r) \/ \E i \in DOMAIN graveQ : graveQ[i] = r

\* The session of a failed log-in is destroyed, and not by its own thread.
FailedSessionsDie ==
  \A r \in Reqs : outcome[r] = "error" ~> sess[r] = "dead" \/ misuse # {}

\* Once the destructor is called, every handler runs, if no thread is lost.
AllAreAnswered ==
  dtor # "no" ~> (\A r \in asked : runs[r] = 1) \/ misuse # {}

\* The destructor returns, if no thread is lost.
DtorReturns == dtor # "no" ~> dtor = "done" \/ misuse # {}

-----------------------------------------------------------------------------
(* What the sources say of themselves and the code does not keep.           *)

\* "There is zero danger of concurrent access to m_incomplete_sessions" when
\* the destructor destroys it.
SetDestroyedAlone == "sessions" \notin misuse

\* The contract "to never destroy Server_session from its own handler", which
\* the graveyard is there to keep; pre_rsp_setup_func() relies on the
\* Session_server being there as long as the session is.
NotDestroyedByItself == "self" \notin misuse

\* A handler runs "exactly once eventually, from dtor at the latest".
AnsweredByDtor == dtor = "done" => \A r \in asked : runs[r] = 1

=============================================================================
