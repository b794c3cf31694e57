------------------------------- MODULE WSSSearch -------------------------------
(***************************************************************************)
(* The search for the smallest memory limit a benchmark runs with:         *)
(* wss_test() of WSS.py.  From 1 byte up the limit is doubled until the    *)
(* benchmark succeeds, then the interval between the last limit that       *)
(* failed and the last that succeeded is halved, until a limit follows     *)
(* itself.                                                                 *)
(*                                                                         *)
(* The benchmark is external.  It fails below the size it needs and may    *)
(* fail for another reason ("failures in the benchmark execution treated   *)
(* as a wrong wss size") with less than Slack bytes more than that.        *)
(***************************************************************************)
EXTENDS Integers

CONSTANTS
  Sizes,  \* sizes, in bytes, a benchmark may need
  Slack   \* from this much above its size on, a benchmark never fails

ASSUME WSSAssumption == Sizes \subseteq Nat \ {0} /\ Slack \in Nat

VARIABLES
  needed,           \* the size the benchmark needs
  current_wss,      \* the limit to try
  last_wss,         \* the limit tried last, 0 for none
  wss_lower_bound,  \* the last limit that failed, or 1
  wss_upper_bound   \* the last limit that succeeded, 0 for none

wssVars == <<needed, current_wss, last_wss, wss_lower_bound, wss_upper_bound>>

WSSTypeOK ==
  /\ needed \in Sizes
  /\ {current_wss, last_wss, wss_lower_bound, wss_upper_bound} \subseteq Nat

WSSInit ==
  /\ needed \in Sizes
  /\ current_wss = 1 /\ last_wss = 0
  /\ wss_lower_bound = 1 /\ wss_upper_bound = 0

WSSRestart ==
  /\ needed' \in Sizes
  /\ current_wss' = 1 /\ last_wss' = 0
  /\ wss_lower_bound' = 1 /\ wss_upper_bound' = 0

Searching_ToBounds == wss_lower_bound # wss_upper_bound  \* mutant
Searching == current_wss # last_wss

(* How the benchmark may end with the limit m.                             *)
Outcome(m) == IF m < needed THEN {FALSE} ELSE IF m >= needed + Slack THEN {TRUE} ELSE BOOLEAN

NextLimit(lower, upper) ==
  IF upper > 0 THEN (lower + upper) \div 2 ELSE current_wss * 2

(* One pass of the loop, with the benchmark's success.                     *)
Probe_KeepsLower(ok) ==  \* mutant
  /\ ok \in Outcome(current_wss)
  /\ UNCHANGED wss_lower_bound
  /\ wss_upper_bound' = IF ok THEN current_wss ELSE wss_upper_bound
  /\ last_wss' = current_wss
  /\ current_wss' = NextLimit(wss_lower_bound', wss_upper_bound')
  /\ UNCHANGED needed
Probe(ok) ==
  /\ ok \in Outcome(current_wss)
  /\ wss_lower_bound' = IF ok THEN wss_lower_bound ELSE current_wss
  /\ wss_upper_bound' = IF ok THEN current_wss ELSE wss_upper_bound
  /\ last_wss' = current_wss
  /\ current_wss' = NextLimit(wss_lower_bound', wss_upper_bound')
  /\ UNCHANGED needed

WSSNext == Searching /\ \E ok \in BOOLEAN : Probe(ok)

WSSSpec == WSSInit /\ [][WSSNext]_wssVars

-----------------------------------------------------------------------------
(* When the search ends (WSS.py:183), its upper bound is a limit the       *)
(* benchmark ran with, the very smallest one if it fails for lack of       *)
(* memory only, and what is returned (WSS.py:238) is that bound or one     *)
(* byte less: the lower bound, with which the benchmark failed.            *)
WSSBracket ==
  ~ Searching =>
    /\ wss_upper_bound \in {current_wss, current_wss + 1}
    /\ wss_upper_bound \in needed .. needed + Slack
=============================================================================
