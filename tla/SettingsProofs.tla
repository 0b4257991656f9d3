--------------------------- MODULE SettingsProofs ---------------------------
(***************************************************************************)
(* Proof that the keywords keep their meaning over any sequence of starts, *)
(* for every set of keywords and environments.                             *)
(***************************************************************************)
EXTENDS Settings, TLAPS

(* Every keyword on the message is a client's or has been a name of one of  *)
(* the three, names do not overlap, and only a message that is in Gmail     *)
(* carries a name of "inserted" or "unverified".                            *)
NamesTypeOK ==
    /\ names \in [Kind -> SUBSET STRING]
    /\ flags \subseteq Keyword
    /\ forwarder = Down \/ forwarder \in [Kind -> Keyword]

NamesAreApart ==
    /\ \A k \in Kind : names[k] \cap Reserved = {}
    /\ \A k, l \in Kind : \A n \in names[k] : n \in names[l] => k = l

FlagsAreNamed ==
    \A f \in flags : Lower[f] \in Reserved \/ \E k \in Kind : Lower[f] \in names[k]

NamesAreTrue ==
    /\ forwarder # Down => \A k \in Kind : Lower[forwarder[k]] \in names[k]
    /\ \A f \in flags : \A k \in {"inserted", "unverified"} : Lower[f] \in names[k] => inGmail
    /\ ~inInbox => inGmail

(* What is in Gmail says so, under one of the names.                        *)
GmailIsNamed ==
    /\ inGmail => \E f \in flags, k \in {"inserted", "unverified"} : Lower[f] \in names[k]
    /\ SentOnce

Meaning == NamesTypeOK /\ NamesAreApart /\ FlagsAreNamed /\ NamesAreTrue /\ GmailIsNamed

(* A new set of names leaves the names apart and the flags' meaning alone.  *)
LEMMA StartKeepsMeaning ==
    ASSUME Meaning, NEW e \in Env, StartForwarder(e)
    PROVE  Meaning'
<1> USE SettingsAssumption DEF Kind, Environment
<1>1. CASE Accepts(e)
  <2>1. /\ forwarder' = KeywordsOf(e)
        /\ names' = [k \in Kind |-> names[k] \cup {Lower[e[k]]}]
        /\ NotReused(e)
        /\ UNCHANGED <<flags, inInbox, inGmail, resent>>
    BY <1>1 DEF StartForwarder, message
  <2>2. /\ Distinct(e)
        /\ \A k \in Kind : Lower[e[k]] \notin Reserved
    BY <1>1 DEF Accepts, HasAllKeys, ReachesGmail, ReachesPassword, KeywordsOK, Valid
  <2>3. \A k \in Kind : e[k] \in Keyword /\ Lower[e[k]] \in STRING
    OBVIOUS
  <2>4. \A k \in Kind : names'[k] = names[k] \cup {Lower[e[k]]}
    BY <2>1
  <2>5. NamesTypeOK'
    BY <2>1, <2>3 DEF Meaning, NamesTypeOK, KeywordsOf
  <2>6. NamesAreApart'
    <3>1. \A k \in Kind : names'[k] \cap Reserved = {}
      BY <2>2, <2>4 DEF Meaning, NamesAreApart
    <3>2. \A k, l \in Kind : \A n \in names'[k] : n \in names'[l] => k = l
      BY <2>1, <2>2, <2>4 DEF Meaning, NamesAreApart, NotReused, Distinct
    <3> QED
      BY <3>1, <3>2 DEF NamesAreApart
  <2>7. FlagsAreNamed'
    BY <2>1, <2>4 DEF Meaning, FlagsAreNamed
  <2>8. NamesAreTrue'
    <3>1. \A k \in Kind : Lower[forwarder'[k]] \in names'[k]
      BY <2>1, <2>4 DEF KeywordsOf
    <3>2. ASSUME NEW f \in flags, NEW k \in {"inserted", "unverified"},
                 Lower[f] \in names'[k]
          PROVE  inGmail
      <4>1. CASE Lower[f] \in names[k]
        BY <4>1 DEF Meaning, NamesAreTrue
      <4>2. CASE Lower[f] = Lower[e[k]]
        <5>1. PICK l \in Kind : Lower[f] \in names[l]
          BY <2>2, <4>2 DEF Meaning, FlagsAreNamed
        <5>2. l = k
          BY <2>1, <4>2, <5>1 DEF NotReused
        <5> QED
          BY <5>1, <5>2 DEF Meaning, NamesAreTrue
      <4> QED
        BY <2>4, <3>2, <4>1, <4>2
    <3> QED
      BY <2>1, <3>1, <3>2 DEF Meaning, NamesAreTrue
  <2>9. GmailIsNamed'
    BY <2>1, <2>4 DEF Meaning, GmailIsNamed, SentOnce, Renamed
  <2> QED
    BY <2>5, <2>6, <2>7, <2>8, <2>9 DEF Meaning
<1>2. CASE ~Accepts(e)
  <2>1. forwarder' = Down /\ UNCHANGED <<names, flags, inInbox, inGmail, resent>>
    BY <1>2 DEF StartForwarder, message
  <2> QED
    BY <2>1 DEF Meaning, NamesTypeOK, NamesAreApart, FlagsAreNamed, NamesAreTrue,
                GmailIsNamed, SentOnce, Renamed
<1> QED
  BY <1>1, <1>2

(* A run marks the message with the running forwarder's names, truthfully.  *)
LEMMA RunKeepsMeaning ==
    ASSUME Meaning, RunForwarder
    PROVE  Meaning'
<1> USE SettingsAssumption DEF Kind
<1>1. /\ forwarder \in [Kind -> Keyword]
      /\ \A k \in Kind : Lower[forwarder[k]] \in names[k]
      /\ UNCHANGED <<forwarder, names>>
  BY DEF RunForwarder, Meaning, NamesTypeOK, NamesAreTrue
<1>2. CASE /\ inInbox' = FALSE
           /\ Carries(forwarder["inserted"])
           /\ UNCHANGED <<flags, inGmail, resent>>
  <2>1. PICK f \in flags : Lower[f] = Lower[forwarder["inserted"]]
    BY <1>2 DEF Carries
  <2>2. inGmail
    BY <1>1, <2>1 DEF Meaning, NamesAreTrue
  <2> QED
    BY <1>1, <1>2, <2>2 DEF Meaning, NamesTypeOK, NamesAreApart, FlagsAreNamed, NamesAreTrue,
                            GmailIsNamed, SentOnce, Renamed
<1>3. ASSUME NEW k \in Kind, Mark(k), inInbox' = inInbox,
             k = "failed" => inGmail' = inGmail /\ resent' = resent,
             k # "failed" => inGmail' = TRUE /\ resent' = (resent \/ inGmail),
             ~Carries(forwarder["inserted"]), ~Carries(forwarder["unverified"])
      PROVE  Meaning'
  <2>1. flags' = flags \cup {forwarder[k]} /\ Lower[forwarder[k]] \in names[k]
    BY <1>1, <1>3 DEF Mark
  <2>2. NamesTypeOK' /\ NamesAreApart' /\ FlagsAreNamed'
    BY <1>1, <2>1 DEF Meaning, NamesTypeOK, NamesAreApart, FlagsAreNamed
  <2>3. \A f \in flags' : \A l \in {"inserted", "unverified"} : Lower[f] \in names'[l] => inGmail'
    BY <1>1, <1>3, <2>1 DEF Meaning, NamesAreApart, NamesAreTrue
  <2>4. NamesAreTrue'
    BY <1>1, <1>3, <2>3 DEF Meaning, NamesAreTrue
  <2>5. (inGmail => \E f \in flags, l \in {"inserted", "unverified"} : Lower[f] \in names[l])'
    BY <1>1, <1>3, <2>1 DEF Meaning, GmailIsNamed
  <2>6. inGmail => Renamed
    <3> SUFFICES ASSUME inGmail PROVE Renamed
      OBVIOUS
    <3>1. PICK f \in flags, l \in {"inserted", "unverified"} : Lower[f] \in names[l]
      BY DEF Meaning, GmailIsNamed
    <3>2. Lower[f] # Lower[forwarder[l]] /\ Lower[forwarder[l]] \in names[l]
      BY <1>1, <1>3, <3>1 DEF Carries
    <3> QED
      BY <3>1, <3>2 DEF Renamed
  <2>7. SentOnce'
    BY <1>1, <1>3, <2>6 DEF Meaning, GmailIsNamed, SentOnce, Renamed
  <2> QED
    BY <2>2, <2>4, <2>5, <2>7 DEF Meaning, GmailIsNamed
<1> QED
  BY <1>2, <1>3 DEF RunForwarder

(* Every step keeps it.                                                     *)
LEMMA MeaningIsInvariant == SettingsSpec => []Meaning
<1>1. SettingsInit => Meaning
  BY DEF SettingsInit, Meaning, NamesTypeOK, NamesAreApart, FlagsAreNamed, NamesAreTrue,
         GmailIsNamed, SentOnce, Kind
<1>2. Meaning /\ [SettingsNext]_settingsVars => Meaning'
  <2> SUFFICES ASSUME Meaning, [SettingsNext]_settingsVars
               PROVE  Meaning'
    OBVIOUS
  <2>1. CASE \E e \in Env : StartForwarder(e)
    BY <2>1, StartKeepsMeaning
  <2>2. CASE RunForwarder
    BY <2>2, RunKeepsMeaning
  <2>3. CASE \E k \in Keyword : ClientMarks(k)
    <3>1. PICK k \in Keyword : ClientMarks(k)
      BY <2>3
    <3>2. /\ flags' = flags \cup {k} /\ Lower[k] \in Reserved
          /\ UNCHANGED <<forwarder, names, inInbox, inGmail, resent>>
      BY <3>1 DEF ClientMarks
    <3>3. \A l \in {"inserted", "unverified"} : Lower[k] \notin names[l]
      BY <3>2 DEF Meaning, NamesAreApart, Kind
    <3> QED
      BY <3>2, <3>3 DEF Meaning, NamesTypeOK, NamesAreApart, FlagsAreNamed, NamesAreTrue,
                        GmailIsNamed, SentOnce, Renamed
  <2>4. CASE UNCHANGED <<forwarder, names, message>>
    BY <2>4 DEF Meaning, NamesTypeOK, NamesAreApart, FlagsAreNamed, NamesAreTrue,
                GmailIsNamed, SentOnce, Renamed, message
  <2>5. ASSUME NEW v, NEW b, NEW a, AnswerError(v, b, a)
        PROVE  UNCHANGED <<forwarder, names, message>>
    BY <2>5 DEF AnswerError
  <2> QED
    BY <2>1, <2>2, <2>3, <2>4, <2>5 DEF SettingsNext, settingsVars
<1> QED
  BY <1>1, <1>2, PTL DEF SettingsSpec

(* KeywordsKeepTheirMeaning for every environment and every spelling: the   *)
(* checks of keywords_from_env suffice as long as no name is reused.        *)
THEOREM MeaningIsKept == SettingsSpec => []KeywordsKeepTheirMeaning
<1>1. Meaning => KeywordsKeepTheirMeaning
  BY DEF Meaning, NamesAreTrue, KeywordsKeepTheirMeaning, TrashIsStillInGmail,
         UnverifiedIsStillInGmail, Carries, Kind
<1> QED
  BY <1>1, MeaningIsInvariant, PTL

(* SentOnce for every environment: only renaming a keyword makes the        *)
(* forwarder send a message again.                                          *)
THEOREM SentOnceIsKept == SettingsSpec => []SentOnce
<1>1. Meaning => SentOnce
  BY DEF Meaning, GmailIsNamed
<1> QED
  BY <1>1, MeaningIsInvariant, PTL

=============================================================================
