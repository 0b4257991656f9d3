----------------------------- MODULE MCWatcher -----------------------------
(* Values for the constants of Watcher.                                     *)
EXTENDS Watcher

\* every operation takes one second
Brisk == [o \in {"connect", "list", "call", "idle"} |-> {1}]
=============================================================================
