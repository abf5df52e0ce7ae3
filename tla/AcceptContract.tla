--------------------------- MODULE AcceptContract ---------------------------
(***************************************************************************)
(* What Session_server::async_accept() promises its user, as session_server *)
(* .hpp words it: the handler of each call is invoked once, with success,   *)
(* with an error, or, because the destructor has been called, with          *)
(* operation-aborted; a session is given with success and only then.        *)
(***************************************************************************)
CONSTANT Reqs   \* async_accept() calls

VARIABLES
  closing,   \* the destructor has been called
  call,      \* what became of each call
  given      \* the calls whose target_session has been assigned a session

Answers == {"ok", "error", "aborted"}

TypeOK ==
  /\ closing \in BOOLEAN
  /\ call \in [Reqs -> {"unmade", "made"} \cup Answers]
  /\ given \subseteq Reqs

Init ==
  /\ closing = FALSE
  /\ call = [r \in Reqs |-> "unmade"]
  /\ given = {}

Make(r) ==
  /\ call[r] = "unmade" /\ ~closing
  /\ call' = [call EXCEPT ![r] = "made"]
  /\ UNCHANGED <<closing, given>>

Invoke(r, a) ==
  /\ call[r] = "made"
  /\ a = "aborted" => closing
  /\ call' = [call EXCEPT ![r] = a]
  /\ given' = IF a = "ok" THEN given \cup {r} ELSE given
  /\ UNCHANGED closing

Close ==
  /\ ~closing
  /\ closing' = TRUE
  /\ UNCHANGED <<call, given>>

Next ==
  \/ Close
  \/ \E r \in Reqs : Make(r)
  \/ \E r \in Reqs, a \in Answers : Invoke(r, a)

Spec == Init /\ [][Next]_<<closing, call, given>>
=============================================================================
