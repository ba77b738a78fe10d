---------------------------- MODULE InlineRules ----------------------------
(***************************************************************************)
(* The check of rule sources in source/engine/rules.cc, before             *)
(* libmodsecurity sees them: validateRuleSources and the character by      *)
(* character reading of an inline source by validateInlineSource.          *)
(*                                                                         *)
(* The alphabet keeps one character for each role the lexer tells apart.   *)
(* "x" alone is a denied directive, "s" with the argument "x" is           *)
(* SecXmlExternalEntity On, and "xs" anywhere in a line is a denied        *)
(* fragment.  "SP" is the space; "CR" also stands for the white space that *)
(* is normalised to one; "quote" and "apostrophe" are the two quotes.      *)
(***************************************************************************)
EXTENDS Naturals, Sequences, SequencesExt

CONSTANTS
    MaxTotalInlineRuleBytes,
    MaxLength           \* bound: the characters of a source

ASSUME LimitAssumption == MaxTotalInlineRuleBytes \in Nat
ASSUME LengthAssumption == MaxLength \in Nat

Letters == {"x", "s"}
Quotes == {"quote", "apostrophe"}
Characters == Letters \cup Quotes \cup {"SP", "CR", "LF", "hash", "backslash"}

Texts == SeqOf(Characters, MaxLength) \ {<<>>}

VARIABLES
    verdict,    \* "next", "reading", "checked", "accepted" or a rejection
    total,      \* total_inline_rule_bytes
    contents,   \* the source being read
    index,
    line,       \* normalized_line
    quote,      \* the quote that is open, or "none"
    escaped, comment

vars == <<verdict, total, contents, index, line, quote, escaped, comment>>

lexer == <<index, line, quote, escaped, comment>>

Rejections == {"invalid", "oversized", "unterminated", "incomplete", "denied"}

-----------------------------------------------------------------------------
(* Logical lines *)

\* Fault: a carriage return is a character like any other.
OnlySpace(character) == character = "SP"

isHorizontalWhitespace(character) == character \in {"SP", "CR"}

Strip(text) ==
    LET kept == {i \in DOMAIN text : text[i] \notin {"SP", "CR", "LF"}} IN
    IF kept = {} THEN <<>>
    ELSE SubSeq(text, CHOOSE i \in kept : \A j \in kept : i <= j,
                      CHOOSE i \in kept : \A j \in kept : i >= j)

\* What comes before the first space, and after it.
FirstWord(text) ==
    IF "SP" \in Range(text) THEN SubSeq(text, 1, SelectInSeq(text, LAMBDA c : c = "SP") - 1)
    ELSE text

AfterFirstWord(text) ==
    IF "SP" \in Range(text)
    THEN SubSeq(text, SelectInSeq(text, LAMBDA c : c = "SP") + 1, Len(text))
    ELSE <<>>

unsafeInlineCapability(text) ==
    LET stripped == Strip(text) IN
    \/ FirstWord(stripped) = <<"x">>
    \/ FirstWord(stripped) = <<"s">> /\ FirstWord(Strip(AfterFirstWord(stripped))) = <<"x">>
    \/ \E i \in 1..(Len(stripped) - 1) : SubSeq(stripped, i, i + 1) = <<"x", "s">>

appendNormalizedSpace(text) ==
    IF text # <<>> /\ Last(text) # "SP" THEN Append(text, "SP") ELSE text

-----------------------------------------------------------------------------
(* Reading an inline source: the branches of the loop, in its order.       *)

Reading == verdict = "reading" /\ index <= Len(contents)

Character == contents[index]

\* The characters a continuation at the index takes, 0 when there is none.
Continuation ==
    IF index < Len(contents) /\ contents[index + 1] = "LF" THEN 2
    ELSE IF index + 1 < Len(contents) /\ contents[index + 1] = "CR" /\ contents[index + 2] = "LF"
         THEN 3
    ELSE 0

Advance(count) == index' = index + count /\ UNCHANGED <<contents, total>>

Keep(text) == line' = text /\ UNCHANGED verdict

\* validateNormalizedInlineLine: a denied line ends the check.
CheckLine ==
    /\ verdict' = IF unsafeInlineCapability(line) THEN "denied" ELSE verdict
    /\ line' = <<>>

ReadComment ==
    /\ Reading /\ comment
    /\ IF Character = "LF" THEN comment' = FALSE /\ CheckLine
       ELSE UNCHANGED <<comment, line, verdict>>
    /\ Advance(1) /\ UNCHANGED <<quote, escaped>>

ReadEscaped ==
    /\ Reading /\ ~comment /\ escaped
    /\ Keep(Append(line, Character)) /\ escaped' = FALSE
    /\ Advance(1) /\ UNCHANGED <<quote, comment>>

ReadContinuation ==
    /\ Reading /\ ~comment /\ ~escaped /\ Character = "backslash" /\ Continuation > 0
    /\ Keep(line) /\ Advance(Continuation) /\ UNCHANGED <<quote, escaped, comment>>

ReadEscape ==
    /\ Reading /\ ~comment /\ ~escaped /\ Character = "backslash" /\ Continuation = 0
    /\ Keep(Append(line, Character)) /\ escaped' = TRUE
    /\ Advance(1) /\ UNCHANGED <<quote, comment>>

Plain == Reading /\ ~comment /\ ~escaped /\ Character # "backslash"

\* Fault: any quote closes what any quote opened.
ReadQuotedByAny ==
    /\ Plain /\ quote # "none"
    /\ line' = Append(line, Character)
    /\ quote' = IF Character \in Quotes THEN "none" ELSE quote
    /\ verdict' = IF Character = "LF" THEN "unterminated" ELSE verdict
    /\ Advance(1) /\ UNCHANGED <<escaped, comment>>

\* Only the quote that opened closes; the other one is a character like any.
ReadQuoted ==
    /\ Plain /\ quote # "none"
    /\ line' = Append(line, Character)
    /\ quote' = IF Character = quote THEN "none" ELSE quote
    /\ verdict' = IF Character = "LF" THEN "unterminated" ELSE verdict
    /\ Advance(1) /\ UNCHANGED <<escaped, comment>>

OpenQuote ==
    /\ Plain /\ quote = "none" /\ Character \in Quotes
    /\ Keep(Append(line, Character)) /\ quote' = Character
    /\ Advance(1) /\ UNCHANGED <<escaped, comment>>

OpenComment ==
    /\ Plain /\ quote = "none" /\ Character = "hash"
    /\ comment' = TRUE
    /\ Advance(1) /\ UNCHANGED <<line, verdict, quote, escaped>>

EndLine ==
    /\ Plain /\ quote = "none" /\ Character = "LF"
    /\ CheckLine
    /\ Advance(1) /\ UNCHANGED <<quote, escaped, comment>>

ReadBlank ==
    /\ Plain /\ quote = "none" /\ isHorizontalWhitespace(Character)
    /\ Keep(appendNormalizedSpace(line))
    /\ Advance(1) /\ UNCHANGED <<quote, escaped, comment>>

ReadOther ==
    /\ Plain /\ quote = "none"
    /\ Character \notin Quotes \cup {"hash", "LF"} /\ ~isHorizontalWhitespace(Character)
    /\ Keep(Append(line, Character))
    /\ Advance(1) /\ UNCHANGED <<quote, escaped, comment>>

\* After the loop: what is left open, then the last line.
EndSource ==
    /\ verdict = "reading" /\ index > Len(contents)
    /\ verdict' = IF quote # "none" THEN "unterminated"
                  ELSE IF escaped THEN "incomplete"
                  ELSE IF unsafeInlineCapability(line) THEN "denied"
                  ELSE "checked"
    /\ line' = <<>>
    /\ UNCHANGED <<total, contents, index, quote, escaped, comment>>

-----------------------------------------------------------------------------
(* validateRuleSources: every source in turn.                              *)

Begin(text) ==
    /\ contents' = text
    /\ index' = 1 /\ line' = <<>>
    /\ quote' = "none" /\ escaped' = FALSE /\ comment' = FALSE

Init ==
    /\ verdict = "next" /\ total = 0
    /\ contents = <<>> /\ index = 1 /\ line = <<>>
    /\ quote = "none" /\ escaped = FALSE /\ comment = FALSE

Between == verdict = "next"

\* No source at all, an empty name, a NUL byte, an empty source, a file that cannot be loaded.
InvalidSource ==
    /\ Between /\ verdict' = "invalid"
    /\ UNCHANGED <<total, contents, lexer>>

\* Fault: each source is held against the whole limit.
InlineSourceAlone ==
    /\ Between
    /\ \E text \in Texts :
        /\ Begin(text)
        /\ IF Len(text) > MaxTotalInlineRuleBytes
           THEN verdict' = "oversized" /\ UNCHANGED total
           ELSE verdict' = "reading" /\ total' = total + Len(text)

InlineSource ==
    /\ Between
    /\ \E text \in Texts :
        /\ Begin(text)
        /\ IF Len(text) > MaxTotalInlineRuleBytes - total
           THEN verdict' = "oversized" /\ UNCHANGED total
           ELSE verdict' = "reading" /\ total' = total + Len(text)

\* A file only has to be there.
FileSource ==
    /\ Between /\ verdict' = "checked"
    /\ UNCHANGED <<total, contents, lexer>>

NextSource ==
    /\ verdict = "checked" /\ verdict' = "next"
    /\ Begin(<<>>) /\ UNCHANGED total

Accept ==
    /\ verdict = "checked" /\ verdict' = "accepted"
    /\ UNCHANGED <<total, contents, lexer>>

Next ==
    \/ InlineSource \/ FileSource \/ NextSource \/ InvalidSource \/ Accept
    \/ ReadComment \/ ReadEscaped \/ ReadContinuation \/ ReadEscape
    \/ ReadQuoted \/ OpenQuote \/ OpenComment \/ EndLine
    \/ ReadBlank \/ ReadOther \/ EndSource

Spec == Init /\ [][Next]_vars

-----------------------------------------------------------------------------
(* What the text of a source says, without reading it from the left.       *)

\* Positions i and j of a text are on one physical line.
SameLine(text, i, j) == \A k \in i..(j - 1) : text[k] # "LF"

\* The positions between i and j hold continuations only.
Joined(text, i, j) ==
    \A k \in (i + 1)..(j - 1) :
        \/ text[k] = "backslash" /\ k + 1 < j
             /\ \/ text[k + 1] = "LF"
                \/ text[k + 1] = "CR" /\ k + 2 < j /\ text[k + 2] = "LF"
        \/ text[k] = "CR" /\ k > i + 1 /\ text[k - 1] = "backslash"
        \/ text[k] = "LF" /\ k > i + 1 /\ text[k - 1] = "backslash"
        \/ text[k] = "LF" /\ k > i + 2 /\ text[k - 1] = "CR" /\ text[k - 2] = "backslash"

\* An even number of backslashes, or none, stands just before the position.
Unescaped(text, i) ==
    \A n \in 1..(i - 1) :
        (/\ \A k \in (i - n)..(i - 1) : text[k] = "backslash"
         /\ i - n = 1 \/ text[i - n - 1] # "backslash")
        => n % 2 = 0

LineStart(text, i) ==
    CHOOSE j \in 1..i : SameLine(text, j, i) /\ (j = 1 \/ text[j - 1] = "LF")

\* The physical line from j carries on the one before it.
Continues(text, j) ==
    \/ j > 2 /\ text[j - 2] = "backslash"
    \/ j > 3 /\ text[j - 2] = "CR" /\ text[j - 3] = "backslash"

\* The quote at position o is closed at position c: by the next of its kind.
ClosedAt(text, o, c) ==
    /\ o < c /\ text[o] \in Quotes /\ text[c] = text[o]
    /\ Unescaped(text, o) /\ Unescaped(text, c)
    /\ \A k \in (o + 1)..(c - 1) : text[k] = text[o] => ~Unescaped(text, k)

\* The quotes from position j up to position i, which is not counted, make
\* quoted values side by side, and no quote is left over.
QuotesClosed(text, j, i) ==
    \E values \in SUBSET {v \in (j..(i - 1)) \X (j..(i - 1)) : ClosedAt(text, v[1], v[2])} :
        /\ \A v, w \in values : v = w \/ v[2] < w[1] \/ w[2] < v[1]
        /\ \A k \in j..(i - 1) :
            text[k] \in Quotes /\ Unescaped(text, k) => \E v \in values : k \in v[1]..v[2]

\* A hash before the position, on its physical line, may open a comment: it
\* is not escaped, and no quote of the line is open, as far as the line tells.
MayBeCommented(text, i) ==
    \E h \in 1..(i - 1) :
        /\ text[h] = "hash" /\ SameLine(text, h, i) /\ Unescaped(text, h)
        /\ Continues(text, LineStart(text, h)) \/ QuotesClosed(text, LineStart(text, h), h)

\* The line of the position is a comment from its first visible character.
IsCommentLine(text, i) ==
    \E h \in 1..(i - 1) :
        /\ text[h] = "hash" /\ SameLine(text, h, i)
        /\ \A k \in LineStart(text, h)..(h - 1) : isHorizontalWhitespace(text[k])
        /\ ~Continues(text, LineStart(text, h))

Blank(text, i, j) == i < j /\ \A k \in i..(j - 1) : text[k] \in {"SP", "CR"}

\* A word ends after the position.
WordEnds(text, i) == i = Len(text) \/ text[i + 1] \in {"SP", "CR", "LF", "hash"}

\* The visible part of the physical line that starts at j begins with a denied directive.
DeniedDirective(text, j) ==
    \E i \in j..Len(text) :
        /\ i = j \/ Blank(text, j, i)
        /\ \/ text[i] = "x" /\ WordEnds(text, i)
           \/ \E k \in (i + 2)..Len(text) :
                  text[i] = "s" /\ Blank(text, i + 1, k) /\ text[k] = "x" /\ WordEnds(text, k)

Checked == verdict = "checked"

-----------------------------------------------------------------------------
(* Properties *)

\* The total stays within the limit, so that the difference the limit is
\* compared with is never below zero.
TypeOK ==
    /\ verdict \in Rejections \cup {"next", "reading", "checked", "accepted"}
    /\ total \in 0..MaxTotalInlineRuleBytes
    /\ contents \in Seq(Characters) /\ Len(contents) <= MaxLength
    /\ index \in 1..(MaxLength + 1)
    /\ Len(line) <= MaxLength
    /\ quote \in Quotes \cup {"none"} /\ {escaped, comment} \subseteq BOOLEAN

\* A denied fragment passes only in a comment, wherever continuations,
\* quotes and escapes put it (rules.cc:86-172).
FragmentsAreSeen ==
    Checked =>
        \A i, j \in DOMAIN contents :
            (/\ i < j /\ contents[i] = "x" /\ contents[j] = "s" /\ Joined(contents, i, j))
            => MayBeCommented(contents, i) \/ MayBeCommented(contents, j)

\* No physical line of a source that passes begins with a denied directive,
\* whatever white space surrounds it, unless it carries on another line.
DirectivesAreSeen ==
    Checked =>
        \A j \in DOMAIN contents :
            (j = 1 \/ contents[j - 1] = "LF") /\ DeniedDirective(contents, j) => Continues(contents, j)

\* A source is never denied for what it only says in comment lines.
CommentsAreIgnored ==
    verdict = "denied" =>
        \E i \in DOMAIN contents : contents[i] = "x" /\ ~IsCommentLine(contents, i)

\* A source is denied for the directives at the beginnings of its lines and
\* not for its comments.
DeniedForDirectives == DirectivesAreSeen /\ CommentsAreIgnored
=============================================================================
