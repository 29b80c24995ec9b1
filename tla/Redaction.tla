----------------------------- MODULE Redaction ------------------------------
(***************************************************************************)
(* What happens to a message on its way into an error                      *)
(* (sdks/rust/src/domain/errors.rs, redact_secrets): four passes, each     *)
(* left to right over what the one before it left, then white space is     *)
(* collapsed. A message is redacted again whenever one error's message     *)
(* goes into another's.                                                    *)
(*                                                                         *)
(* A message is a sequence of tokens, each a piece the passes take or      *)
(* leave as a whole: the word Bearer, the name of a credential variable, a *)
(* key prefix, any other word, white space, the punctuation that matters,  *)
(* and the placeholder. White space is of two kinds: the passes know ASCII *)
(* white space alone, while the collapse makes one blank of any, so that   *)
(* it may put a blank where the passes had seen none.                      *)
(***************************************************************************)
EXTENDS Naturals, Sequences

CONSTANT Messages   \* the messages errors are made of

Bearer == "Bearer"
Name   == "FIREWEAVE_KEY"
Prefix == "fw_org_"
Word   == "word"
Space  == " "
Wide   == "nbsp"   \* white space that is not ASCII
Sep    == "://"
Mark   == "[REDACTED]"
Quote  == "'"

Tokens == {Bearer, Name, Prefix, Word, Space, Wide, Sep, "=", ":", "@", Quote}

Everything == Tokens \cup {Mark}

ASSUME MessagesAssumption == Messages \subseteq Seq(Tokens)

VARIABLES message, redactions

vars == <<message, redactions>>

-----------------------------------------------------------------------------
(* Classes of characters, as far as whole tokens are concerned.            *)

BearerTokens == {Bearer, Name, Prefix, Word, "="}
KeyTokens    == {Bearer, Name, Prefix, Word}
Userinfo     == Everything \ {Space, Sep, "@"}
Values       == Everything \ {Space, Quote}
\* A scheme is letters: the underscore a prefix ends with is not one.
SchemeEnds   == {Bearer, Name, Word}

-----------------------------------------------------------------------------
(* Scanning: at each place a matcher says how far it goes, 0 for nowhere,  *)
(* and what stands there instead.                                          *)

\* The first place from i on that is not in a class, past the end at most.
Past(text, i, class) ==
    CHOOSE j \in i..Len(text) + 1 :
        /\ \A k \in i..j - 1 : text[k] \in class
        /\ j <= Len(text) => text[j] \notin class

Blanks == {Space}          \* what the passes take for white space
White  == Blanks \cup {Wide}  \* what the collapse does

At(text, i) == IF i <= Len(text) THEN text[i] ELSE Space

Scan(text, match) ==
    LET from[i \in 1..Len(text) + 1] ==
            IF i > Len(text) THEN <<>>
            ELSE IF match[i].to > i THEN match[i].text \o from[match[i].to]
            ELSE <<text[i]>> \o from[i + 1]
    IN from[1]

NoMatch == [to |-> 0, text |-> <<>>]

\* Mutant: one blank after the word, and no more.
MatchBearerTight(text, i) ==
    LET to == Past(text, i + 2, BearerTokens)
    IN IF text[i] = Bearer /\ At(text, i + 1) = Space /\ i < Len(text) /\ to > i + 2
         THEN [to |-> to, text |-> <<Bearer, Space, Mark>>]
         ELSE NoMatch

\* Bearer, blanks, a token: the token goes.
MatchBearer(text, i) ==
    LET token == Past(text, i + 1, Blanks)
        to    == Past(text, token, BearerTokens)
    IN IF text[i] = Bearer /\ token > i + 1 /\ to > token
         THEN [to |-> to, text |-> SubSeq(text, i, token - 1) \o <<Mark>>]
         ELSE NoMatch

\* Mutant: the @ goes with the user information.
MatchUrlUserinfoAndAt(text, i) ==
    LET to == Past(text, i + 1, Userinfo)
    IN IF /\ text[i] = Sep
          /\ i > 1 /\ text[i - 1] \in SchemeEnds
          /\ to > i + 1 /\ to <= Len(text) /\ text[to] = "@"
         THEN [to |-> to + 1, text |-> <<Sep, Mark>>]
         ELSE NoMatch

\* scheme://, user information, @: what is between goes.
MatchUrlUserinfo(text, i) ==
    LET to == Past(text, i + 1, Userinfo)
    IN IF /\ text[i] = Sep
          /\ i > 1 /\ text[i - 1] \in SchemeEnds
          /\ to > i + 1 /\ to <= Len(text) /\ text[to] = "@"
         THEN [to |-> to + 1, text |-> <<Sep, Mark, "@">>]
         ELSE NoMatch

\* Mutant: an assignment of nothing is one too.
MatchAssignmentOfNothing(text, i) ==
    LET marker == Past(text, i + 1, Blanks)
        quoted == Past(text, marker + 1, Blanks)
        value  == IF At(text, quoted) = Quote THEN quoted + 1 ELSE quoted
    IN IF text[i] = Name /\ At(text, marker) \in {"=", ":"}
         THEN [to |-> Past(text, value, Values), text |-> SubSeq(text, i, value - 1) \o <<Mark>>]
         ELSE NoMatch

\* A name, = or :, perhaps a quote, a value: the value goes. The slashes of
\* a :// are the beginning of one.
MatchAssignment(text, i) ==
    LET marker == Past(text, i + 1, Blanks)
        quoted == Past(text, marker + 1, Blanks)
        value  == IF At(text, quoted) = Quote THEN quoted + 1 ELSE quoted
        to     == Past(text, value, Values)
    IN IF text[i] = Name /\ At(text, marker) = Sep
         THEN [to |-> Past(text, marker + 1, Values),
               text |-> SubSeq(text, i, marker - 1) \o <<":", Mark>>]
       ELSE IF text[i] = Name /\ At(text, marker) \in {"=", ":"} /\ to > value
         THEN [to |-> to, text |-> SubSeq(text, i, value - 1) \o <<Mark>>]
       ELSE NoMatch

\* A prefix with a key character behind it: both go, and what follows them.
MatchKeyValue(text, i) ==
    LET to == Past(text, i + 1, KeyTokens)
    IN IF text[i] = Prefix /\ to > i + 1 THEN [to |-> to, text |-> <<Mark>>] ELSE NoMatch

\* A run of white space of either kind.
MatchBlanks(text, i) ==
    IF text[i] \in White THEN [to |-> Past(text, i, White), text |-> <<Space>>] ELSE NoMatch

Collapse(text) == Scan(text, [i \in DOMAIN text |-> MatchBlanks(text, i)])

Trim(text) ==
    LET first == IF At(text, 1) = Space THEN 2 ELSE 1
        last  == IF text # <<>> /\ text[Len(text)] = Space THEN Len(text) - 1 ELSE Len(text)
    IN SubSeq(text, first, last)

CollapseAndTrim(text) == Trim(Collapse(text))

PassBearer(text)      == Scan(text, [i \in DOMAIN text |-> MatchBearer(text, i)])
PassUrlUserinfo(text) == Scan(text, [i \in DOMAIN text |-> MatchUrlUserinfo(text, i)])
PassAssignment(text)  == Scan(text, [i \in DOMAIN text |-> MatchAssignment(text, i)])
PassKeyValue(text)    == Scan(text, [i \in DOMAIN text |-> MatchKeyValue(text, i)])

RedactSecrets(text) ==
    CollapseAndTrim(PassKeyValue(PassAssignment(PassUrlUserinfo(PassBearer(text)))))

-----------------------------------------------------------------------------
Init == message \in Messages /\ redactions = 0

\* The error constructors: every message goes through, every time.
Redact ==
    /\ redactions < 2
    /\ message' = RedactSecrets(message)
    /\ redactions' = redactions + 1

Next == Redact

Spec == Init /\ [][Next]_vars

-----------------------------------------------------------------------------
(* The contract's patterns, declaratively: where a secret still shows.     *)

Within(text, i, j, class) == \A k \in i..j : text[k] \in class

BearerShows(text) ==
    \E i, j \in DOMAIN text :
        /\ text[i] = Bearer /\ i + 1 < j
        /\ Within(text, i + 1, j - 1, Blanks)
        /\ text[j] \in BearerTokens

UserinfoAt(text, i, j) ==
    /\ 1 < i /\ text[i - 1] \in SchemeEnds /\ text[i] = Sep
    /\ i + 1 < j /\ text[j] = "@"
    /\ Within(text, i + 1, j - 1, Userinfo)
    /\ ~(j = i + 2 /\ text[i + 1] = Mark)

UserinfoShows(text) == \E i, j \in DOMAIN text : UserinfoAt(text, i, j)

\* The value may begin behind a quote, and with the slashes of a ://. The
\* placeholder with nothing behind it is no value.
AssignmentShows(text) ==
    \E i, m \in DOMAIN text :
        /\ text[i] = Name /\ i < m
        /\ Within(text, i + 1, m - 1, Blanks)
        /\ \/ text[m] = Sep
           \/ /\ text[m] \in {"=", ":"}
              /\ \E v \in m + 1..Len(text) :
                    /\ text[v] \in Values
                    /\ ~(text[v] = Mark /\ At(text, v + 1) \notin Values)
                    /\ \/ Within(text, m + 1, v - 1, Blanks)
                       \/ text[v - 1] = Quote /\ Within(text, m + 1, v - 2, Blanks)

KeyShows(text) ==
    \E i \in 1..Len(text) - 1 : text[i] = Prefix /\ text[i + 1] \in KeyTokens

Shows(text) ==
    BearerShows(text) \/ UserinfoShows(text) \/ AssignmentShows(text) \/ KeyShows(text)

\* Where an assignment lost its value.
ValueLost(text, i, j) ==
    \E m \in i..j - 1 :
        /\ text[m] \in {"=", ":"}
        /\ \/ text[m + 1] = Mark
           \/ m + 2 <= j /\ text[m + 1] = Quote /\ text[m + 2] = Mark

\* No white space but what the passes know. After one redaction every
\* message is plain.
Plain(text) == \A i \in DOMAIN text : text[i] # Wide

\* No pass uncovers what an earlier one was to cover, and collapsing does
\* not either: what a redaction makes of a plain message shows no secret.
\* User information is the exception, twice. An assignment may lose a value
\* with a :// in it, and what is left around the placeholder then reads as
\* a URL's user information. And a bearer token may be the scheme of a URL:
\* the placeholder that takes its place is no scheme, so that neither the
\* second pass nor UserinfoAt sees a URL there, and what stands before the
\* @ stays (Bearer https://u:p@h keeps u:p).
NothingShows ==
    [][Plain(message) =>
        /\ ~BearerShows(message') /\ ~AssignmentShows(message') /\ ~KeyShows(message')
        /\ \A i, j \in DOMAIN message' :
              UserinfoAt(message', i, j) => ValueLost(message', i + 1, j - 1)]_vars

\* What a redaction makes of a plain message, another one leaves as it is,
\* but where an assignment left user information behind.
PlainSettles ==
    [][Plain(message) /\ ~UserinfoShows(message') => RedactSecrets(message') = message']_vars

\* Prose stays: a message with no secret in it only has its white space
\* collapsed, the name of a variable and a bare prefix included.
ProseStays == [][~Shows(message) => message' = CollapseAndTrim(message)]_vars

\* What the contract's test says of any message ("a scrubbed line scrubs to
\* itself"). It does not: the collapse may put a blank between the word
\* Bearer and a token which the passes did not take for one, and the secret
\* stays until the message is redacted again.
ScrubsToItself == [][redactions > 0 => message' = message]_vars
=============================================================================
