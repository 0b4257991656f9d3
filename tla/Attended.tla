------------------------------ MODULE Attended ------------------------------
(***************************************************************************)
(* The whole system with its operator: the list, retry and mark-failed     *)
(* commands of cli.py work on the INBOX that the watcher lists and the     *)
(* service empties, and none of the three knows of the others but by what  *)
(* it reads there.  (A "sync" by hand is one more process of Forwarder.)   *)
(***************************************************************************)
EXTENDS System, Cli

attendedVars == <<systemVars, cliVars>>

AttendedInit == SystemInit /\ CliInit

(* A command runs in a process of its own, at any time.                     *)
Operator == CliStep /\ UNCHANGED <<handler, watcher, calls>>

AttendedNext ==
    \/ SystemNext /\ UNCHANGED cliVars
    \/ Operator

AttendedSpec == AttendedInit /\ [][AttendedNext]_attendedVars

(* The operator may do anything or nothing at all.                          *)
FairAttended ==
    /\ AttendedSpec
    /\ WF_attendedVars(Watcher /\ UNCHANGED cliVars)
    /\ \A p \in Proc : WF_attendedVars(Serve(p) /\ UNCHANGED cliVars)

---------------------------------------------------------------------------
(* "It will be picked up by the next run" (cli.py:103): mail the operator   *)
(* has put back does not stay in the queue, although nobody calls the       *)
(* forwarder for him, and although the watcher may have reported the same   *)
(* uid before and not listed the INBOX while it was quarantined.            *)
RequeuedMailIsPickedUp == \A u \in Uid : Good(u) => (Queued(u) ~> ~Queued(u))

=============================================================================
