---------------------------- MODULE MCLifecycle ----------------------------
(* ClientLifecycle with a main thread and another, for TLC.                *)
EXTENDS LifecycleProperties

CONSTANTS main, other

TwoThreads == {main, other}
AllCalls == {"track", "flush", "pending", "shutdown", "shutdown_by", "exit", "signal", "fork"}
=============================================================================
