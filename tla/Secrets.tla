------------------------------ MODULE Secrets ------------------------------
(***************************************************************************)
(* mailtransporter/secrets.py: the secret values a process has loaded, and *)
(* the scrubbing of every text that leaves it.  A text is a sequence of    *)
(* characters; the mask *** counts as one that occurs nowhere else.        *)
(***************************************************************************)
EXTENDS Naturals, Sequences, SequencesExt

CONSTANTS
    ShortestSecret,    \* 6: shorter values are not worth masking
    TextLimit,         \* ERROR_TEXT_LIMIT of server.py
    Mask               \* MASK

(* register_secret                                                          *)
RegisterSecrets(known, values) ==
    known \union {v \in values : Len(v) >= ShortestSecret}

(* str.replace(value, MASK): from the left, without overlaps.               *)
Replace(text, value) ==
    LET begins(i) == /\ i + Len(value) <= Len(text) + 1
                     /\ SubSeq(text, i, i + Len(value) - 1) = value
        rest[i \in 1 .. Len(text) + 1] ==
            IF i > Len(text) THEN << >>
            ELSE IF begins(i) THEN <<Mask>> \o rest[i + Len(value)]
            ELSE <<text[i]>> \o rest[i + 1]
    IN  rest[1]

(* redact: longer secrets first, so that one inside another hides nothing.  *)
RedactShortestFirst(text, known) ==     \* mutant: a secret that begins with another one
    FoldLeft(Replace, text, SetToSortSeq(known, LAMBDA v, w : Len(v) < Len(w)))
Redact(text, known) ==
    FoldLeft(Replace, text, SetToSortSeq(known, LAMBDA v, w : Len(v) > Len(w)))

(* The error text of /sync: redact(...)[:ERROR_TEXT_LIMIT].                 *)
Cut(text) == SubSeq(text, 1, IF Len(text) < TextLimit THEN Len(text) ELSE TextLimit)
CutThenRedact(text, known) == Redact(Cut(text), known)      \* mutant: half a secret is left
ErrorText(text, known) == Cut(Redact(text, known))

=============================================================================
