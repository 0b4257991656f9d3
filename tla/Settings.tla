------------------------------ MODULE Settings ------------------------------
(***************************************************************************)
(* mailtransporter/config.py and runtime.py: the forwarder is started, and *)
(* started again, with other environments, while the keywords of earlier   *)
(* starts are still on the mail.  The state is one message, the settings   *)
(* of the forwarder, and what it has told its caller.                      *)
(***************************************************************************)
EXTENDS Secrets

CONSTANTS
    Keyword,     \* the spellings of a keyword that occur
    Lower,       \* Lower[k]: k in lower case; IMAP flags are the same if these are
    Atom,        \* the ones that are plain ASCII IMAP atoms
    Reserved,    \* RESERVED_KEYWORDS: what mail clients set themselves
    Env,         \* the environments the forwarder is started with
    Password, OAuthJson, ClientSecret, RefreshToken,    \* texts
    Ordinary     \* characters of texts that give nothing away

Kind == {"inserted", "failed", "unverified"}

(* The credentials in GMAIL_OAUTH_JSON, by their keys; client_id is none.   *)
Credential == [client_secret |-> ClientSecret, refresh_token |-> RefreshToken]
Key == DOMAIN Credential \union {"client_id"}

(* An environment: the three keywords (their defaults, if unset), whether   *)
(* QUARANTINE_MODE is one of the two and ICLOUD_USER is set, the password   *)
(* is set, IMAP_PORT and IMAP_TIMEOUT are numbers, GMAIL_OAUTH_JSON is set  *)
(* and is JSON, the keys found in it (one may be misspelt), and whether the *)
(* other numbers are numbers.                                               *)
Environment == [inserted : Keyword, failed : Keyword, unverified : Keyword,
                mode : BOOLEAN, password : BOOLEAN, imapNumbers : BOOLEAN,
                oauth : {"unset", "text", "json"}, keys : SUBSET Key,
                otherNumbers : BOOLEAN]

Down == [k \in Kind |-> "none"]      \* no settings: every call is answered 500

(* keyword_from_env                                                         *)
Valid(k) == k \in Atom /\ Lower[k] \notin Reserved

(* keywords_from_env, with the check of quarantine_keywords_from_env in it  *)
DistinctSpellings(e) == \A k, l \in Kind : e[k] = e[l] => k = l      \* mutant: case counts
Distinct(e) == \A k, l \in Kind : Lower[e[k]] = Lower[e[l]] => k = l
KeywordsOK(e) == Distinct(e) /\ \A k \in Kind : Valid(e[k])

ASSUME SettingsAssumption ==
    /\ "none" \notin Keyword
    /\ Atom \subseteq Keyword
    /\ Lower \in [Keyword -> STRING]
    /\ Env \subseteq Environment

VARIABLES
    forwarder,   \* the keywords of the running forwarder
    flags,       \* the keywords on the message, as they were spelt
    inInbox,     \* the message is in the INBOX (otherwise it is in the Trash)
    inGmail,     \* Gmail has a copy
    resent,      \* history: the message was sent although Gmail had a copy
    names,       \* history: the names each keyword had in the forwarders so far
    exposed,     \* the credentials an exception of the forwarder may echo
    known,       \* _SECRET_VALUES of the forwarder
    said         \* the error text of its last answer

message == <<flags, inInbox, inGmail, resent>>
settingsVars == <<forwarder, names, exposed, known, said, message>>

SettingsInit ==
    /\ forwarder = Down
    /\ flags = {}
    /\ inInbox = TRUE
    /\ inGmail = FALSE
    /\ resent = FALSE
    /\ names = [k \in Kind |-> {}]
    /\ exposed = {}
    /\ known = {}
    /\ said = << >>

(* ForwarderSettings.from_env reads in this order, and stops at the first   *)
(* thing it cannot use.                                                     *)
ReachesPassword(e) == KeywordsOK(e) /\ e.mode
ReachesGmail(e)    == ReachesPassword(e) /\ e.password /\ e.imapNumbers
ReadsJson(e)       == ReachesGmail(e) /\ e.oauth # "unset"
HasAllKeys(e)      == ReachesGmail(e) /\ e.oauth = "json" /\ e.keys = Key
Accepts(e)         == HasAllKeys(e) /\ e.otherNumbers

(* What resolve_secret_env returns, and what json.loads finds in it.        *)
Resolves(e) ==
    (IF ReachesPassword(e) /\ e.password THEN {Password} ELSE {})
    \union (IF ReadsJson(e) THEN {OAuthJson} ELSE {})
Parses(e) ==
    IF ReadsJson(e) /\ e.oauth = "json" THEN {Credential[k] : k \in e.keys \ {"client_id"}}
                                        ELSE {}

(* register_secret: of a secret as soon as it is resolved, of what is       *)
(* parsed only when no key is missing.                                      *)
RegistersIfAccepted(e) ==                \* mutant: at the very end
    IF Accepts(e) THEN Resolves(e) \union Parses(e) ELSE {}
Registers(e) == Resolves(e) \union (IF HasAllKeys(e) THEN Parses(e) ELSE {})

(* What an exception may echo.  A library echoes what it was given: all of  *)
(* it, once the forwarder is built; before, only json.loads has been given  *)
(* anything.  A ConfigError names settings and keys, and never the value    *)
(* of one that is secret.                                                   *)
ExposesWhatItFound(e) ==                 \* mutant: it shows the JSON it has parsed
    IF Accepts(e) THEN Resolves(e) \union Parses(e)
    ELSE Parses(e) \union (IF ReadsJson(e) THEN {OAuthJson} ELSE {})
Exposes(e) ==
    IF Accepts(e) THEN Resolves(e) \union Parses(e)
    ELSE IF ReadsJson(e) THEN {OAuthJson} ELSE {}

KeywordsOf(e) == [k \in Kind |-> e[k]]

(* No operator gives a name that has been one keyword to another: the       *)
(* program could not tell what it means on older mail.                      *)
NotReused(e) == \A k, l \in Kind : Lower[e[k]] \in names[l] => k = l

(* The instance is started; its first request builds the forwarder.         *)
StartForwarder(e) ==
    /\ NotReused(e)
    /\ \/ /\ Accepts(e)
          /\ forwarder' = KeywordsOf(e)
          /\ names' = [k \in Kind |-> names[k] \union {Lower[e[k]]}]
       \/ /\ ~Accepts(e)
          /\ forwarder' = Down
          /\ UNCHANGED names
    /\ exposed' = Exposes(e)
    /\ known' = RegisterSecrets({}, Registers(e))
    /\ said' = << >>
    /\ UNCHANGED message

(* has_keyword, and the SEARCH of the server: in any case                   *)
CarriesAsSpelt(keyword) == keyword \in flags      \* mutant: the case must match
Carries(keyword) == \E f \in flags : Lower[f] = Lower[keyword]

Mark(k) == flags' = flags \union {forwarder[k]}

(* A run of the forwarder, as far as the keywords decide: it lists what is  *)
(* not quarantined, trashes what is marked as inserted, sends the rest.     *)
(* (What may fail between sending and marking is the subject of Forwarder.) *)
RunForwarder ==
    /\ forwarder # Down
    /\ inInbox
    /\ ~Carries(forwarder["failed"]) /\ ~Carries(forwarder["unverified"])
    /\ \/ /\ Carries(forwarder["inserted"])
          /\ inInbox' = FALSE
          /\ UNCHANGED <<flags, inGmail, resent>>
       \/ /\ ~Carries(forwarder["inserted"])
          /\ \/ /\ inGmail' = TRUE
                /\ Mark("inserted") \/ Mark("unverified")
                /\ resent' = (resent \/ inGmail)
             \/ Mark("failed") /\ UNCHANGED <<inGmail, resent>>
          /\ UNCHANGED inInbox
    /\ UNCHANGED <<forwarder, names, exposed, known, said>>

(* A mail client sets a keyword of its own.                                 *)
ClientMarks(k) ==
    /\ Lower[k] \in Reserved
    /\ flags' = flags \union {k}
    /\ UNCHANGED <<forwarder, names, exposed, known, said, inInbox, inGmail, resent>>

(* An exception echoes a credential somewhere in the text sync() answers    *)
(* with, be it of a run or of a start that failed.                          *)
Padding(n) == [i \in 1 .. n |-> CHOOSE c \in Ordinary : TRUE]
AnswerError(v, before, after) ==
    /\ v \in exposed
    /\ said' = ErrorText(Padding(before) \o v \o Padding(after), known)
    /\ UNCHANGED <<forwarder, names, exposed, known, message>>

Secret == {Password, OAuthJson, ClientSecret, RefreshToken}

SettingsNext ==
    \/ \E e \in Env : StartForwarder(e)
    \/ RunForwarder
    \/ \E k \in Keyword : ClientMarks(k)
    \/ \E v \in Secret, before, after \in 0 .. TextLimit : AnswerError(v, before, after)

SettingsSpec == SettingsInit /\ [][SettingsNext]_settingsVars

---------------------------------------------------------------------------
(* What a keyword says of a message stays true over any sequence of starts  *)
(* with other settings: mail goes to the Trash unsent neither because of a  *)
(* keyword a client has set (config.py:27-30) nor because two markers are   *)
(* the same but for their case (config.py:91).                              *)
TrashIsStillInGmail == ~inInbox => inGmail
UnverifiedIsStillInGmail ==
    forwarder # Down /\ Carries(forwarder["unverified"]) => inGmail
KeywordsKeepTheirMeaning == TrashIsStillInGmail /\ UnverifiedIsStillInGmail

(* A message that is in Gmail is not sent again after a new start, unless   *)
(* the operator has renamed the keyword that says so; another spelling of   *)
(* the same name is no renaming (imap_client.py:42).                        *)
Renamed == \E k \in {"inserted", "unverified"} : \E m, n \in names[k] : m # n
SentOnce == resent => Renamed

(* "Library exception text can carry echoed credentials, so it is scrubbed  *)
(* and truncated" (server.py:107): nothing that belongs to a credential is  *)
(* left of it, not even a piece, whichever other credential it contains,    *)
(* wherever the text is cut, and wherever the start of the forwarder has    *)
(* failed: the credentials of an incomplete GMAIL_OAUTH_JSON are read but   *)
(* never registered (config.py:137-142), so that nothing may show them.     *)
NothingLeaks == \A i \in 1 .. Len(said) : said[i] \in Ordinary \union {Mask}

=============================================================================
