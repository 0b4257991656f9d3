---------------------------- MODULE MCSettings -----------------------------
(* Values for the constants of Settings.                                    *)
EXTENDS Settings, TLC

\* keywords in one or two spellings, one a client uses, and no atom at all
Spellings == {"ins", "INS", "fail", "FAIL", "unv", "unv2", "$junk", "$Junk", "a b"}
InLowerCase == [k \in Spellings |-> CASE k = "INS"   -> "ins"
                                      [] k = "FAIL"  -> "fail"
                                      [] k = "$Junk" -> "$junk"
                                      [] OTHER       -> k]
ReservedByClients == {"$junk"}
Atoms == Spellings \ {"a b"}

Complete(i, f, u) == [inserted |-> i, failed |-> f, unverified |-> u, mode |-> TRUE,
                      password |-> TRUE, imapNumbers |-> TRUE, oauth |-> "json",
                      keys |-> Key, otherNumbers |-> TRUE]
Plain == Complete("ins", "fail", "unv")
Environments ==
    {Plain, Complete("INS", "FAIL", "unv"),
     \* a keyword is renamed
     Complete("ins", "fail", "unv2"),
     \* clashes, reserved keywords, no atom
     Complete("ins", "fail", "FAIL"), Complete("fail", "FAIL", "unv"), Complete("FAIL", "ins", "INS"),
     Complete("$Junk", "fail", "unv"), Complete("ins", "fail", "$Junk"), Complete("a b", "fail", "unv"),
     \* what else may be wrong
     [Plain EXCEPT !.mode = FALSE], [Plain EXCEPT !.password = FALSE],
     [Plain EXCEPT !.imapNumbers = FALSE], [Plain EXCEPT !.oauth = "unset"],
     [Plain EXCEPT !.oauth = "text"], [Plain EXCEPT !.keys = @ \ {"client_id"}],
     [Plain EXCEPT !.keys = @ \ {"refresh_token"}], [Plain EXCEPT !.otherNumbers = FALSE]}

\* 0 stands for every character outside credentials; the JSON text contains two
\* credentials, and the password happens to begin like one of them
Common == {0}
MaskCharacter == 9
ThePassword == <<1, 2>>
TheSecret == <<1, 2, 3>>
TheToken == <<4, 5>>
TheJson == <<0, 1, 2, 3, 0, 4, 5, 0>>
=============================================================================
