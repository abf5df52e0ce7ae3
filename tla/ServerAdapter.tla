---------------------------- MODULE ServerAdapter ----------------------------
(***************************************************************************)
(* sync_io Session_server_adapter: async_accept() in an event loop.  Its    *)
(* core is an asynchronous Session_server, which invokes the handler of     *)
(* each of its async_accept() calls once (AcceptContract); here that is     *)
(* accept_write(), in a thread S of the core.  It stores the code and       *)
(* signals it with a byte; the loop, in thread U, runs accept_read().       *)
(* One async_accept() is outstanding at a time, and a wait is made by the   *)
(* call, not by start_ops().                                                *)
(***************************************************************************)
EXTENDS Naturals

CONSTANT MaxAccepts   \* bound on the async_accept() calls that are not ignored

ASSUME AcceptsIsNat == MaxAccepts \in Nat

VARIABLES
  accStarted,   \* m_ev_wait_func is set
  calls,        \* calls made so far: 1 .. calls
  onDone,       \* whose handler m_on_done_func_or_empty is, 0: empty
  inDone,       \* the call whose handler U runs, 0: none
  atCore,       \* the call the core has yet to answer, 0: none
  accErr,       \* m_target_err_code
  accByte,      \* bytes in the pipe
  accWait,      \* the loop waits for it
  s,            \* S is "idle" or has stored a result to signal
  answers,      \* what the user's handler of each call was told
  filled,       \* calls whose target_session the core has assigned
  accDtor       \* "no", "joining" the core's threads, "done"

accVars == <<accStarted, calls, onDone, inDone, atCore, accErr, accByte, accWait,
             s, answers, filled, accDtor>>

Calls == 1..MaxAccepts
Results == {"ok", "error"}

AccTypeOK ==
  /\ accStarted \in BOOLEAN /\ accWait \in BOOLEAN
  /\ {calls, onDone, inDone, atCore} \subseteq 0..MaxAccepts
  /\ accErr \in {"none"} \cup Results /\ accByte \in Nat
  /\ s \in {"idle", "stored"}
  /\ answers \in [Calls -> {"none"} \cup Results] /\ filled \subseteq Calls
  /\ accDtor \in {"no", "joining", "done"}

AccInit ==
  /\ accStarted = FALSE /\ calls = 0 /\ onDone = 0 /\ inDone = 0 /\ atCore = 0
  /\ accErr = "none" /\ accByte = 0 /\ accWait = FALSE /\ s = "idle"
  /\ answers = [n \in Calls |-> "none"] /\ filled = {}
  /\ accDtor = "no"

\* start_ops(), when it returns true.
AccStartOps ==
  /\ accDtor = "no" /\ ~accStarted
  /\ accStarted' = TRUE
  /\ UNCHANGED <<calls, onDone, inDone, atCore, accErr, accByte, accWait, s,
                 answers, filled, accDtor>>

\* Faulty: one call is not kept from stepping on another.
AsyncAcceptAnyway ==
  /\ accDtor = "no" /\ calls < MaxAccepts
  /\ calls' = calls + 1
  /\ onDone' = calls + 1 /\ atCore' = calls + 1
  /\ accWait' = accStarted
  /\ UNCHANGED <<accStarted, inDone, accErr, accByte, s, answers, filled, accDtor>>

\* Either form of async_accept(), unless another is outstanding.  Before
\* start_ops() the empty m_ev_wait_func throws, when the core has already been
\* asked and m_on_done_func_or_empty set.
AsyncAccept ==
  /\ accDtor = "no" /\ onDone = 0 /\ calls < MaxAccepts
  /\ calls' = calls + 1
  /\ onDone' = calls + 1 /\ atCore' = calls + 1
  /\ accWait' = accStarted
  /\ UNCHANGED <<accStarted, inDone, accErr, accByte, s, answers, filled, accDtor>>

\* Faulty: a success leaves the code of an earlier call where it is.
AcceptWriteErrOnly(result) ==
  /\ atCore # 0 /\ s = "idle" /\ accDtor # "done"
  /\ atCore' = 0
  /\ filled' = IF result = "ok" THEN filled \cup {atCore} ELSE filled
  /\ accErr' = IF accErr = "error" THEN accErr ELSE result
  /\ s' = "stored"
  /\ UNCHANGED <<accStarted, calls, onDone, inDone, accByte, accWait, answers, accDtor>>

\* Faulty: every error is taken for the destructor's.
AcceptWriteOkOnly(result) ==
  /\ atCore # 0 /\ s = "idle" /\ accDtor # "done"
  /\ atCore' = 0
  /\ filled' = IF result = "ok" THEN filled \cup {atCore} ELSE filled
  /\ accErr' = result
  /\ s' = IF result = "ok" THEN "stored" ELSE "idle"
  /\ UNCHANGED <<accStarted, calls, onDone, inDone, accByte, accWait, answers, accDtor>>

\* The core answers: it assigns the target session on success, and calls
\* accept_write(), which stores the code ...
AcceptWrite(result) ==
  /\ atCore # 0 /\ s = "idle" /\ accDtor # "done"
  /\ atCore' = 0
  /\ filled' = IF result = "ok" THEN filled \cup {atCore} ELSE filled
  /\ accErr' = result
  /\ s' = "stored"
  /\ UNCHANGED <<accStarted, calls, onDone, inDone, accByte, accWait, answers, accDtor>>

\* ... and signals it.
AcceptSignal ==
  /\ s = "stored" /\ s' = "idle"
  /\ accByte' = accByte + 1
  /\ UNCHANGED <<accStarted, calls, onDone, inDone, atCore, accErr, accWait, answers,
                 filled, accDtor>>

\* The core is being destroyed and answers operation-aborted: ignored.
AcceptAborted ==
  /\ atCore # 0 /\ s = "idle" /\ accDtor = "joining"
  /\ atCore' = 0
  /\ UNCHANGED <<accStarted, calls, onDone, inDone, accErr, accByte, accWait, s, answers,
                 filled, accDtor>>

\* accept_read(): the byte is consumed, the handler taken out and called.  It is
\* given the code by reference, and may call async_accept() ...
AcceptRead ==
  /\ accDtor = "no" /\ inDone = 0 /\ accWait /\ accByte > 0
  /\ accByte' = accByte - 1 /\ accWait' = FALSE
  /\ onDone' = 0 /\ inDone' = onDone
  /\ answers' = [answers EXCEPT ![onDone] = accErr]
  /\ UNCHANGED <<accStarted, calls, atCore, accErr, s, filled, accDtor>>

\* ... and returns.
AcceptHandled ==
  /\ inDone # 0 /\ inDone' = 0
  /\ UNCHANGED <<accStarted, calls, onDone, atCore, accErr, accByte, accWait, s,
                 answers, filled, accDtor>>

\* The destructor; m_async_io goes first and takes its threads with it.
AccDestroy ==
  /\ accDtor = "no" /\ inDone = 0
  /\ accDtor' = "joining"
  /\ UNCHANGED <<accStarted, calls, onDone, inDone, atCore, accErr, accByte, accWait, s,
                 answers, filled>>

AccJoined ==
  /\ accDtor = "joining" /\ atCore = 0 /\ s = "idle"
  /\ accDtor' = "done"
  /\ UNCHANGED <<accStarted, calls, onDone, inDone, atCore, accErr, accByte, accWait, s,
                 answers, filled>>
=============================================================================
