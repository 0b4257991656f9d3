----------------------------- MODULE Messages ------------------------------
(* The messages every component of the system talks about.  A message is    *)
(* the uid its INBOX gave it: a positive integer, larger for later mail.    *)
EXTENDS Naturals

CONSTANT Uid     \* the uids of the messages that may reach the INBOX

ASSUME UidAssumption == Uid \subseteq Nat \ {0}

NoUid == 0       \* no message

=============================================================================
