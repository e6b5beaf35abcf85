---------------------------- MODULE MCScormRuntime ----------------------------
(***************************************************************************)
(* ScormRuntime on a small instance: one postback handler and one pull at a  *)
(* time, which is what it takes for two answers to race.                      *)
(***************************************************************************)
EXTENDS ScormRuntime

CONSTANTS h1, p1, l1

MCHooks   == {h1}
MCPulls   == {p1}
MCLessons == {l1}
=============================================================================
