------------------------------- MODULE MCCli -------------------------------
(* Values for the constants of Cli.                                         *)
EXTENDS Cli

Delivered == [u \in Uid |-> {200}]
=============================================================================
