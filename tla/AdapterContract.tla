--------------------------- MODULE AdapterContract ---------------------------
(***************************************************************************)
(* What a sync_io session promises the user of its event loop, as           *)
(* session.hpp words it for the handlers: each passively opened channel is  *)
(* given to the passive-open handler once and in the order of opening, the  *)
(* session-hosing error to the on-error handler once, no channel is opened  *)
(* after that error has occurred, and neither handler runs once the         *)
(* destructor has been called.                                              *)
(***************************************************************************)
EXTENDS Naturals, Sequences

VARIABLES
  opened,    \* channels the session has opened passively: 1 .. opened
  told,      \* those the passive-open handler was given
  failed,    \* the session-hosing error has occurred
  errTold,   \* times the on-error handler has run
  closing    \* the destructor has been called

Init ==
  /\ opened = 0 /\ told = <<>>
  /\ failed = FALSE /\ errTold = 0
  /\ closing = FALSE

Open ==
  /\ ~failed
  /\ opened' = opened + 1
  /\ UNCHANGED <<told, failed, errTold, closing>>

Give ==
  /\ ~closing /\ Len(told) < opened
  /\ told' = Append(told, Len(told) + 1)
  /\ UNCHANGED <<opened, failed, errTold, closing>>

Fail ==
  /\ ~failed
  /\ failed' = TRUE
  /\ UNCHANGED <<opened, told, errTold, closing>>

Tell ==
  /\ ~closing /\ failed /\ errTold = 0
  /\ errTold' = 1
  /\ UNCHANGED <<opened, told, failed, closing>>

Close ==
  /\ ~closing
  /\ closing' = TRUE
  /\ UNCHANGED <<opened, told, failed, errTold>>

Next == Open \/ Give \/ Fail \/ Tell \/ Close

Spec == Init /\ [][Next]_<<opened, told, failed, errTold, closing>>
=============================================================================
