---------------------------- MODULE MCSessionPair ----------------------------
(***************************************************************************)
(* Instances of SessionPair for TLC: the sets of sides whose user supplies  *)
(* a passive-open handler, and the bounds on their open_channel() calls.    *)
(***************************************************************************)
EXTENDS SessionPair

BothSides  == {Cli, Srv}
OnlyClient == {Cli}

\* Bounds on open_channel() requests.
Opens(m, n) == [x \in {Cli, Srv} |-> IF x = Cli THEN m ELSE n]
NoOpens     == Opens(0, 0)
OneEach     == Opens(1, 1)
ServerOnce  == Opens(0, 1)
ClientTwice == Opens(2, 1)
=============================================================================
