---------------------------- MODULE MCAlertEngine ----------------------------
(* Small instances of AlertEngine for TLC.                                 *)
EXTENDS AlertEngine

Setting(rules, n, m, k, c) ==
  [rules |-> rules, failCount |-> 1, window |-> n, trigger |-> m,
   recovery |-> k, cooldown |-> c]

(* What an administrator switches between: the second takes a threshold    *)
(* away and has a shorter window.  Both are Selective, like the defaults   *)
(* (window 5, trigger 3, recovery 3).                                      *)
Switching == {Setting({"latency", Fail}, 3, 2, 2, 2), Setting({"latency"}, 2, 1, 2, 1)}
ASSUME SelectiveSettings == Configs = Switching /\ Selective
=============================================================================
