-------------------------- MODULE InlineRules_proofs --------------------------
(***************************************************************************)
(* What the check of inline rules finds, proved of every source: a denied  *)
(* fragment passes only in a comment, a line that begins with a denied     *)
(* directive does not pass, and no source is denied for its comment lines. *)
(*                                                                         *)
(* The properties say what a text means by looking at all its positions;   *)
(* the check reads it once from the left and remembers the normalised line *)
(* and three flags.  The invariant relates the two at the position read.   *)
(* It is stated of a text t, a position p and a reader r, which holds what *)
(* the check remembers, so that most lemmas are about texts alone.         *)
(***************************************************************************)
EXTENDS InlineRules, FiniteSetTheorems, SequenceTheorems, WellFoundedInduction, TLAPS

Text == Seq(Characters)

Reader == [line : Text, quote : Quotes \cup {"none"}, escaped : BOOLEAN, comment : BOOLEAN]

-----------------------------------------------------------------------------
(* The invariant *)

\* The physical line of position i starts at j.
StartOf(t, j, i) ==
    /\ SameLine(t, j, i)
    /\ j = 1 \/ t[j - 1] = "LF"

\* A logical line starts at j: it carries on no other.
Fresh(t, j) == (j = 1 \/ t[j - 1] = "LF") /\ ~ Continues(t, j)

\* Exactly n backslashes stand just before position i.
RunOf(t, i, n) ==
    /\ \A k \in (i - n)..(i - 1) : t[k] = "backslash"
    /\ i - n = 1 \/ t[i - n - 1] # "backslash"

\* What the flags mean at position p.
EscapesKnown(t, p, r) ==
    /\ r.escaped => ~ r.comment
    /\ ~ r.comment => (r.escaped <=> ~ Unescaped(t, p))

\* The quote q was opened at o, and nothing since the line start j is left over
\* before it.
OpenedAt(t, j, o, p, q) ==
    /\ t[o] = q /\ Unescaped(t, o) /\ QuotesClosed(t, j, o)
    /\ \A k \in (o + 1)..(p - 1) : t[k] = q => ~ Unescaped(t, k)

\* From the line start j, what is remembered of the quotes is what the text says.
QuotesTold(t, j, p, q) ==
    IF q = "none" THEN QuotesClosed(t, j, p)
    ELSE \E o \in j..(p - 1) : OpenedAt(t, j, o, p, q)

QuotesKnown(t, p, r) ==
    /\ r.quote # "none" => ~ r.comment
    /\ ~ r.comment /\ ~ Continues(t, LineStart(t, p)) => QuotesTold(t, LineStart(t, p), p, r.quote)
    /\ r.comment => MayBeCommented(t, p)

\* The position is not within a continuation.
OutsideContinuation(t, p, r) ==
    /\ r.escaped =>
        /\ 1 < p /\ t[p - 1] = "backslash"
        /\ p <= Len(t) => t[p] # "LF"
        /\ p < Len(t) /\ t[p] = "CR" => t[p + 1] # "LF"
    /\ (/\ ~ r.comment /\ 2 < p /\ p <= Len(t)
        /\ t[p] = "LF" /\ t[p - 1] = "CR" /\ t[p - 2] = "backslash")
       => Unescaped(t, p - 1)

\* A fragment, outside of comments, in two positions.
Fragment(t, i, j) ==
    /\ t[i] = "x" /\ t[j] = "s" /\ Joined(t, i, j)
    /\ ~ MayBeCommented(t, i) /\ ~ MayBeCommented(t, j)

\* A line that holds a fragment.
HasFragment(line_) == \E k \in 1..(Len(line_) - 1) : line_[k] = "x" /\ line_[k + 1] = "s"

\* A fragment that has been read is in the line, one half of it at its end.
FragmentsKept(t, p, r) ==
    /\ \A i, j \in 1..(p - 1) : i < j /\ Fragment(t, i, j) => HasFragment(r.line)
    /\ \A i \in 1..(p - 1) :
        t[i] = "x" /\ Joined(t, i, p) /\ ~ MayBeCommented(t, i) =>
            Len(r.line) > 0 /\ r.line[Len(r.line)] = "x"

\* The visible part of the line from j begins at i.
Begins(t, j, i) == Fresh(t, j) /\ (i = j \/ Blank(t, j, i))

AtRest(r) == ~ r.comment /\ r.quote = "none" /\ ~ r.escaped

\* The line begins with the words of a directive that ends at position e.
BeginsWith(words, e, p, r) ==
    /\ Len(r.line) >= Len(words)
    /\ \A k \in 1..Len(words) : r.line[k] = words[k]
    /\ Len(r.line) > Len(words) => r.line[Len(words) + 1] = "SP"
    /\ Len(r.line) = Len(words) => r.comment \/ (p = e + 1 /\ AtRest(r))

\* Before the first visible character of a line.
StartsEmpty(t, p, r) ==
    \A j \in 1..p : Begins(t, j, p) => AtRest(r) /\ r.line = <<>>

\* After an "x" that a line begins with and that is a word.
WordKept(t, p, r) ==
    \A j, i \in 1..(p - 1) :
        j <= i /\ Begins(t, j, i) /\ t[i] = "x" /\ WordEnds(t, i) => BeginsWith(<<"x">>, i, p, r)

\* After an "s" that a line begins with, and the space after it.
FirstWordKept(t, p, r) ==
    \A j, i \in 1..(p - 1) :
        j <= i /\ Begins(t, j, i) /\ t[i] = "s" /\ (p = i + 1 \/ Blank(t, i + 1, p)) =>
            AtRest(r) /\ r.line = IF p = i + 1 THEN <<"s">> ELSE <<"s", "SP">>

\* After both words.
WordsKept(t, p, r) ==
    \A j, i, k \in 1..(p - 1) :
        (/\ j <= i /\ i + 2 <= k /\ Begins(t, j, i) /\ t[i] = "s" /\ Blank(t, i + 1, k)
         /\ t[k] = "x" /\ WordEnds(t, k))
        => BeginsWith(<<"s", "SP", "x">>, k, p, r)

\* The hash at h is the first visible character of its line.
FirstHash(t, h) ==
    /\ t[h] = "hash"
    /\ \A k \in LineStart(t, h)..(h - 1) : isHorizontalWhitespace(t[k])
    /\ ~ Continues(t, LineStart(t, h))

\* What is in the line is from no comment line.
CommentsSkipped(t, p, r) ==
    /\ \A h \in 1..(p - 1) : FirstHash(t, h) /\ SameLine(t, h, p) => r.comment
    /\ (\E k \in 1..Len(r.line) : r.line[k] = "x") =>
        \E i \in 1..(p - 1) : t[i] = "x" /\ ~ IsCommentLine(t, i)

ReadingInv(t, p, r) ==
    /\ EscapesKnown(t, p, r) /\ QuotesKnown(t, p, r) /\ OutsideContinuation(t, p, r)
    /\ FragmentsKept(t, p, r)
    /\ StartsEmpty(t, p, r) /\ WordKept(t, p, r)
    /\ FirstWordKept(t, p, r) /\ WordsKept(t, p, r)
    /\ CommentsSkipped(t, p, r)

FlagsTyped == quote \in Quotes \cup {"none"} /\ escaped \in BOOLEAN /\ comment \in BOOLEAN

LexerTyped ==
    /\ verdict \in Rejections \cup {"next", "reading", "checked", "accepted"}
    /\ total \in Nat /\ total <= MaxTotalInlineRuleBytes
    /\ contents \in Text /\ Len(contents) <= MaxLength
    /\ index \in Nat /\ 1 <= index /\ index <= Len(contents) + 1
    /\ line \in Text /\ Len(line) < index
    /\ FlagsTyped

reader == [line |-> line, quote |-> quote, escaped |-> escaped, comment |-> comment]

IInv ==
    /\ LexerTyped
    /\ verdict = "next" => contents = <<>>
    /\ verdict = "reading" => ReadingInv(contents, index, reader)
    /\ FragmentsAreSeen /\ DirectivesAreSeen /\ CommentsAreIgnored

-----------------------------------------------------------------------------
(* Least and greatest positions *)

\* A nonempty set of positions has a least member.
LEMMA LeastPosition ==
    ASSUME NEW S \in SUBSET Nat, S # {}
    PROVE  \E a \in S : \A b \in S : a <= b
<1> DEFINE R == {ss \in Nat \X Nat : ss[1] < ss[2]}
<1>1. IsWellFoundedOn(R, Nat)
    BY NatLessThanWellFounded DEF OpToRel
<1>2. ASSUME NEW a \in Nat, NEW b \in Nat, b < a
      PROVE  <<b, a>> \in R
    <2>1. <<b, a>> \in Nat \X Nat /\ <<b, a>>[1] < <<b, a>>[2]
        BY <1>2
    <2> QED
        BY <2>1
<1> HIDE DEF R
<1>3. PICK a \in S : \A b \in S : ~ (<<b, a>> \in R)
    BY <1>1, WFMin
<1>4. ASSUME NEW b \in S PROVE a <= b
    <2>1. ~ (b < a)
        BY <1>2, <1>3
    <2> QED
        BY <2>1
<1> QED
    BY <1>4

\* A nonempty set of positions with an upper bound has a greatest member.
LEMMA GreatestPosition ==
    ASSUME NEW n \in Nat, NEW S \in SUBSET (0..n), S # {}
    PROVE  \E a \in S : \A b \in S : b <= a
<1> DEFINE Mirror == {n - b : b \in S}
<1>1. Mirror \in SUBSET Nat /\ Mirror # {}
    <2>1. \A b \in S : n - b \in Nat
        OBVIOUS
    <2> QED
        BY <2>1
<1>2. PICK m \in Mirror : \A b \in Mirror : m <= b
    BY <1>1, LeastPosition
<1>3. PICK a \in S : m = n - a
    OBVIOUS
<1>4. ASSUME NEW b \in S PROVE b <= a
    <2>1. n - b \in Mirror
        OBVIOUS
    <2> HIDE DEF Mirror
    <2> QED
        BY <2>1, <1>2, <1>3
<1> QED
    BY <1>4

-----------------------------------------------------------------------------
(* What a line says of a stripped line *)

\* What is cut out of a line.
LEMMA CutOf ==
    ASSUME NEW l \in Text, NEW a \in Nat, NEW b \in Nat, 1 <= a, b <= Len(l), a <= b + 1
    PROVE  /\ SubSeq(l, a, b) \in Text
           /\ Len(SubSeq(l, a, b)) = b - a + 1
           /\ \A i \in 1..(b - a + 1) : SubSeq(l, a, b)[i] = l[a + i - 1]
<1>1. \A i \in a..b : l[i] \in Characters
    BY DEF Text
<1>2. a \in Int /\ b \in Int
    OBVIOUS
<1>3. /\ SubSeq(l, a, b) \in Seq(Characters)
      /\ Len(SubSeq(l, a, b)) = IF a <= b THEN b - a + 1 ELSE 0
      /\ \A i \in 1..(b - a + 1) : SubSeq(l, a, b)[i] = l[a + i - 1]
    BY <1>1, <1>2, SubSeqProperties
<1> QED
    BY <1>3 DEF Text

\* A line of one character, and of two.
LEMMA OneCharacter ==
    ASSUME NEW l \in Text, NEW c \in Characters, Len(l) = 1, l[1] = c
    PROVE  l = <<c>>
<1>1. <<c>> \in Seq(Characters) /\ Len(<<c>>) = 1 /\ <<c>>[1] = c
    OBVIOUS
<1>2. \A i \in 1..Len(l) : l[i] = <<c>>[i]
    BY <1>1
<1> HIDE DEF Characters
<1> QED
    BY <1>1, <1>2, SeqEqual DEF Text

LEMMA TwoCharacters ==
    ASSUME NEW l \in Text, NEW c \in Characters, NEW d \in Characters,
           Len(l) = 2, l[1] = c, l[2] = d
    PROVE  l = <<c, d>>
<1>1. <<c, d>> \in Seq(Characters) /\ Len(<<c, d>>) = 2 /\ <<c, d>>[1] = c /\ <<c, d>>[2] = d
    OBVIOUS
<1>2. \A i \in 1..Len(l) : l[i] = <<c, d>>[i]
    BY <1>1
<1> QED
    BY <1>1, <1>2, SeqEqual DEF Text

LEMMA CharacterNames ==
    {"x", "s", "SP", "CR", "LF", "quote", "apostrophe", "hash", "backslash"} = Characters
BY DEF Characters, Letters, Quotes

\* Strip leaves nothing, or the line from its first to its last visible character.
LEMMA StripCuts ==
    ASSUME NEW l \in Text
    PROVE  \/ Strip(l) = <<>> /\ \A i \in 1..Len(l) : l[i] \in {"SP", "CR", "LF"}
           \/ \E a, b \in 1..Len(l) :
                 /\ a <= b /\ Strip(l) = SubSeq(l, a, b)
                 /\ \A i \in 1..Len(l) : l[i] \notin {"SP", "CR", "LF"} => a <= i /\ i <= b
                 /\ l[a] \notin {"SP", "CR", "LF"}
<1> DEFINE kept == {i \in DOMAIN l : l[i] \notin {"SP", "CR", "LF"}}
<1>1. DOMAIN l = 1..Len(l) /\ Len(l) \in Nat
    BY DEF Text
<1>2. CASE kept = {}
    <2>1. Strip(l) = <<>>
        BY <1>2 DEF Strip
    <2> QED
        BY <2>1, <1>2, <1>1
<1>3. CASE kept # {}
    <2>1. kept \in SUBSET Nat /\ kept \in SUBSET (0..Len(l))
        BY <1>1
    <2> DEFINE a == CHOOSE i \in kept : \A j \in kept : i <= j
    <2> DEFINE b == CHOOSE i \in kept : \A j \in kept : i >= j
    <2>2. Strip(l) = SubSeq(l, a, b)
        BY <1>3 DEF Strip
    <2>3. \E i \in kept : \A j \in kept : i <= j
        <3> HIDE DEF kept
        <3> QED
            BY <2>1, <1>3, LeastPosition
    <2>4. \E i \in kept : \A j \in kept : i >= j
        <3>1. \E i \in kept : \A j \in kept : j <= i
            <4> HIDE DEF kept
            <4> QED
                BY <2>1, <1>1, <1>3, GreatestPosition
        <3> HIDE DEF kept
        <3> QED
            BY <3>1, <2>1
    <2>5. a \in kept /\ (\A j \in kept : a <= j)
        <3> HIDE DEF kept
        <3> QED
            BY <2>3
    <2>6. b \in kept /\ (\A j \in kept : b >= j)
        <3> HIDE DEF kept
        <3> QED
            BY <2>4
    <2> HIDE DEF a, b
    <2>7. a \in 1..Len(l) /\ b \in 1..Len(l) /\ l[a] \notin {"SP", "CR", "LF"}
        BY <2>5, <2>6, <1>1
    <2>8. a <= b
        BY <2>5, <2>6
    <2>9. ASSUME NEW i \in 1..Len(l), l[i] \notin {"SP", "CR", "LF"}
          PROVE  a <= i /\ i <= b
        <3>1. i \in kept
            BY <2>9, <1>1
        <3> HIDE DEF kept
        <3> QED
            BY <3>1, <2>5, <2>6, <2>7
    <2> QED
        BY <2>2, <2>7, <2>8, <2>9
<1> QED
    BY <1>2, <1>3

\* The first word ends at the first space.
LEMMA FirstSpace ==
    ASSUME NEW l \in Text, "SP" \in Range(l)
    PROVE  \E i \in 1..Len(l) :
              /\ l[i] = "SP" /\ \A k \in 1..(i - 1) : l[k] # "SP"
              /\ FirstWord(l) = SubSeq(l, 1, i - 1)
              /\ AfterFirstWord(l) = SubSeq(l, i + 1, Len(l))
<1> DEFINE I == {i \in 1..Len(l) : l[i] = "SP"}
<1>1. Len(l) \in Nat /\ DOMAIN l = 1..Len(l)
    BY DEF Text
<1>2. I # {} /\ I \in SUBSET Nat
    BY <1>1 DEF Range
<1>3. SelectInSeq(l, LAMBDA c : c = "SP") = Min(I)
    BY <1>2 DEF SelectInSeq
<1>4. Min(I) \in I /\ \A j \in I : Min(I) <= j
    <2> HIDE DEF I
    <2>1. \E i \in I : \A j \in I : i <= j
        BY <1>2, LeastPosition
    <2> QED
        BY <2>1 DEF Min
<1> DEFINE i == Min(I)
<1>5. i \in 1..Len(l) /\ l[i] = "SP"
    BY <1>4
<1>6. ASSUME NEW k \in 1..(i - 1) PROVE l[k] # "SP"
    <2>1. k \notin I
        <3> HIDE DEF I
        <3> QED
            BY <1>4, <1>5
    <2> QED
        BY <2>1, <1>5, <1>1
<1>7. /\ FirstWord(l) = SubSeq(l, 1, i - 1)
      /\ AfterFirstWord(l) = SubSeq(l, i + 1, Len(l))
    BY <1>3 DEF FirstWord, AfterFirstWord
<1> HIDE DEF i
<1> QED
    BY <1>5, <1>6, <1>7

\* A line that starts with the word x, or with the words s and x.
WordX(l) == Len(l) >= 1 /\ l[1] = "x" /\ (Len(l) > 1 => l[2] = "SP")

WordsSX(l) ==
    /\ Len(l) >= 3 /\ l[1] = "s" /\ l[2] = "SP" /\ l[3] = "x"
    /\ Len(l) > 3 => l[4] = "SP"

\* Stripping a line that starts with a visible character keeps what it starts with.
LEMMA StripStarts ==
    ASSUME NEW l \in Text, NEW n \in 1..Len(l),
           l[1] \notin {"SP", "CR", "LF"}, l[n] \notin {"SP", "CR", "LF"}
    PROVE  /\ Strip(l) \in Text
           /\ Len(Strip(l)) \in n..Len(l)
           /\ \A k \in 1..Len(Strip(l)) : Strip(l)[k] = l[k]
<1>1. PICK a, b \in 1..Len(l) :
        /\ a <= b /\ Strip(l) = SubSeq(l, a, b)
        /\ \A i \in 1..Len(l) : l[i] \notin {"SP", "CR", "LF"} => a <= i /\ i <= b
    <2>1. Len(l) \in Nat /\ 1 \in 1..Len(l)
        BY DEF Text
    <2> QED
        BY <2>1, StripCuts
<1>2. a = 1 /\ n <= b
    <2>1. Len(l) \in Nat /\ 1 \in 1..Len(l)
        BY DEF Text
    <2> QED
        BY <2>1, <1>1
<1> QED
    BY <1>1, <1>2 DEF Text

\* A line that starts with the word x has it as its first word.
LEMMA FirstWordX ==
    ASSUME NEW l \in Text, WordX(l)
    PROVE  FirstWord(l) = <<"x">>
<1>1. Len(l) \in Nat /\ DOMAIN l = 1..Len(l)
    BY DEF Text
<1>2. CASE "SP" \in Range(l)
    <2>1. PICK i \in 1..Len(l) :
            /\ l[i] = "SP" /\ \A k \in 1..(i - 1) : l[k] # "SP"
            /\ FirstWord(l) = SubSeq(l, 1, i - 1)
        BY <1>2, FirstSpace
    <2>2. i = 2
        <3>1. i # 1
            BY <2>1 DEF WordX
        <3>2. Len(l) > 1 /\ l[2] = "SP"
            BY <3>1, <2>1, <1>1 DEF WordX
        <3>3. ~ (2 \in 1..(i - 1))
            BY <2>1, <3>2
        <3> QED
            BY <3>1, <3>3, <1>1
    <2> DEFINE f == SubSeq(l, 1, 1)
    <2>3. f \in Text /\ Len(f) = 1 /\ f[1] = l[1]
        BY <1>1, CutOf DEF WordX
    <2> HIDE DEF f
    <2>4. f = <<"x">>
        BY <2>3, OneCharacter, CharacterNames DEF WordX
    <2> QED
        BY <2>1, <2>2, <2>4 DEF f
<1>3. CASE "SP" \notin Range(l)
    <2>1. Len(l) = 1
        BY <1>1, <1>3 DEF WordX, Range
    <2>2. l = <<"x">>
        BY <2>1, OneCharacter, CharacterNames DEF WordX
    <2> QED
        BY <2>2, <1>3 DEF FirstWord
<1> QED
    BY <1>2, <1>3

\* A line that starts with the word x is denied.
LEMMA WordIsDenied ==
    ASSUME NEW l \in Text, WordX(l)
    PROVE  unsafeInlineCapability(l)
<1>1. /\ Strip(l) \in Text /\ Len(Strip(l)) \in 1..Len(l)
      /\ \A k \in 1..Len(Strip(l)) : Strip(l)[k] = l[k]
    <2>1. 1 \in 1..Len(l)
        BY DEF WordX, Text
    <2> QED
        BY <2>1, StripStarts DEF WordX
<1>2. WordX(Strip(l))
    BY <1>1 DEF WordX, Text
<1> QED
    BY <1>1, <1>2, FirstWordX DEF unsafeInlineCapability

\* A line that starts with the words s and x is denied.
LEMMA WordsAreDenied ==
    ASSUME NEW l \in Text, WordsSX(l)
    PROVE  unsafeInlineCapability(l)
<1> DEFINE m == Strip(l)
<1>1. /\ m \in Text /\ Len(m) \in 3..Len(l)
      /\ \A k \in 1..Len(m) : m[k] = l[k]
    <2>1. 3 \in 1..Len(l)
        BY DEF WordsSX, Text
    <2> QED
        BY <2>1, StripStarts DEF WordsSX
<1> HIDE DEF m
<1>2. WordsSX(m) /\ DOMAIN m = 1..Len(m) /\ Len(m) \in Nat
    BY <1>1 DEF WordsSX, Text
<1>3. "SP" \in Range(m)
    BY <1>2 DEF WordsSX, Range
<1>4. PICK i \in 1..Len(m) :
        /\ m[i] = "SP" /\ \A k \in 1..(i - 1) : m[k] # "SP"
        /\ FirstWord(m) = SubSeq(m, 1, i - 1)
        /\ AfterFirstWord(m) = SubSeq(m, i + 1, Len(m))
    BY <1>1, <1>3, FirstSpace
<1>5. i = 2
    <2>1. i # 1
        BY <1>4, <1>2 DEF WordsSX
    <2>2. ~ (2 \in 1..(i - 1))
        BY <1>4, <1>2 DEF WordsSX
    <2> QED
        BY <2>1, <2>2
<1>6. FirstWord(m) = <<"s">>
    <2> DEFINE f == SubSeq(m, 1, 1)
    <2>1. f \in Text /\ Len(f) = 1 /\ f[1] = m[1]
        BY <1>1, <1>2, CutOf
    <2> HIDE DEF f
    <2>2. f = <<"s">>
        BY <2>1, <1>2, OneCharacter, CharacterNames DEF WordsSX
    <2> QED
        BY <1>4, <1>5, <2>2 DEF f
<1> DEFINE after == AfterFirstWord(m)
<1>7. after \in Text /\ WordX(after)
    <2>1. after = SubSeq(m, 3, Len(m))
        BY <1>4, <1>5
    <2> HIDE DEF after
    <2>2. after \in Text /\ Len(after) = Len(m) - 2 /\ \A k \in 1..(Len(m) - 2) : after[k] = m[k + 2]
        BY <2>1, <1>1, <1>2 DEF Text
    <2>3. after[1] = m[3]
        BY <2>2, <1>1, <1>2
    <2>4. Len(m) > 3 => after[2] = m[4]
        BY <2>2, <1>1, <1>2
    <2> QED
        BY <2>2, <2>3, <2>4, <1>2 DEF WordX, WordsSX
<1> HIDE DEF after
<1>8. /\ Strip(after) \in Text /\ Len(Strip(after)) \in 1..Len(after)
      /\ \A k \in 1..Len(Strip(after)) : Strip(after)[k] = after[k]
    <2>1. 1 \in 1..Len(after)
        BY <1>7 DEF WordX, Text
    <2> QED
        BY <2>1, <1>7, StripStarts DEF WordX
<1>9. WordX(Strip(after))
    BY <1>7, <1>8 DEF WordX, Text
<1>10. FirstWord(Strip(after)) = <<"x">>
    BY <1>8, <1>9, FirstWordX
<1> QED
    BY <1>6, <1>10 DEF unsafeInlineCapability, m, after

\* A line that holds a fragment is denied.
LEMMA FragmentIsDenied ==
    ASSUME NEW l \in Text, HasFragment(l)
    PROVE  unsafeInlineCapability(l)
<1>1. PICK k \in 1..(Len(l) - 1) : l[k] = "x" /\ l[k + 1] = "s"
    BY DEF HasFragment
<1>2. Len(l) \in Nat /\ k \in 1..Len(l) /\ k + 1 \in 1..Len(l)
    BY DEF Text
<1>3. PICK a, b \in 1..Len(l) :
        /\ a <= b /\ Strip(l) = SubSeq(l, a, b)
        /\ \A i \in 1..Len(l) : l[i] \notin {"SP", "CR", "LF"} => a <= i /\ i <= b
    BY <1>1, <1>2, StripCuts
<1>4. a <= k /\ k + 1 <= b
    BY <1>1, <1>2, <1>3
<1> DEFINE m == Strip(l)
<1>5. m \in Text /\ Len(m) = b - a + 1 /\ \A i \in 1..(b - a + 1) : m[i] = l[a + i - 1]
    BY <1>2, <1>3, CutOf
<1> HIDE DEF m
<1> DEFINE i == k - a + 1
<1>6. i \in 1..(Len(m) - 1) /\ i \in 1..(b - a + 1) /\ i + 1 \in 1..(b - a + 1)
    BY <1>2, <1>4, <1>5
<1>7. m[i] = "x" /\ m[i + 1] = "s"
    <2>1. a + i - 1 = k /\ a + (i + 1) - 1 = k + 1
        BY <1>2
    <2> HIDE DEF i
    <2> QED
        BY <2>1, <1>1, <1>5, <1>6
<1>8. SubSeq(m, i, i + 1) = <<"x", "s">>
    <2> DEFINE f == SubSeq(m, i, i + 1)
    <2>1. f \in Text /\ Len(f) = 2 /\ f[1] = m[i] /\ f[2] = m[i + 1]
        <3> HIDE DEF i
        <3> QED
            BY <1>5, <1>6, CutOf
    <2> HIDE DEF f, i
    <2>2. f = <<"x", "s">>
        BY <2>1, <1>7, TwoCharacters, CharacterNames
    <2> QED
        BY <2>2 DEF f
<1> HIDE DEF i
<1> QED
    BY <1>6, <1>8 DEF unsafeInlineCapability, m

\* The helpers make no characters of their own.
LEMMA WordsOfLine ==
    ASSUME NEW l \in Text
    PROVE  /\ FirstWord(l) \in Text /\ Range(FirstWord(l)) \subseteq Range(l)
           /\ AfterFirstWord(l) \in Text /\ Range(AfterFirstWord(l)) \subseteq Range(l)
<1>1. DOMAIN l = 1..Len(l) /\ Len(l) \in Nat
    BY DEF Text
<1>2. CASE "SP" \in Range(l)
    <2>1. PICK i \in 1..Len(l) :
            /\ FirstWord(l) = SubSeq(l, 1, i - 1)
            /\ AfterFirstWord(l) = SubSeq(l, i + 1, Len(l))
        BY <1>2, FirstSpace
    <2> DEFINE f == SubSeq(l, 1, i - 1)
               g == SubSeq(l, i + 1, Len(l))
    <2>2. f \in Text /\ Len(f) = i - 1 /\ \A k \in 1..(i - 1) : f[k] = l[k]
        BY <1>1, CutOf
    <2>3. g \in Text /\ Len(g) = Len(l) - i /\ \A k \in 1..(Len(l) - i) : g[k] = l[i + k]
        <3>1. /\ g \in Text /\ Len(g) = Len(l) - (i + 1) + 1
              /\ \A k \in 1..(Len(l) - (i + 1) + 1) : g[k] = l[i + 1 + k - 1]
            <4>1. i + 1 \in Nat /\ Len(l) \in Nat /\ 1 <= i + 1 /\ i + 1 <= Len(l) + 1 /\ Len(l) <= Len(l)
                BY <1>1
            <4> QED
                BY <4>1, CutOf
        <3>2. Len(l) - (i + 1) + 1 = Len(l) - i /\ \A k \in Nat : i + 1 + k - 1 = i + k
            BY <1>1
        <3> HIDE DEF g
        <3> QED
            BY <3>1, <3>2, <1>1
    <2> HIDE DEF f, g
    <2>4. DOMAIN f = 1..(i - 1) /\ DOMAIN g = 1..(Len(l) - i)
        BY <2>2, <2>3 DEF Text
    <2>5. Range(f) \subseteq Range(l)
        BY <2>2, <2>4, <1>1 DEF Range
    <2>6. Range(g) \subseteq Range(l)
        BY <2>3, <2>4, <1>1 DEF Range
    <2> QED
        BY <2>1, <2>2, <2>3, <2>5, <2>6 DEF f, g
<1>3. CASE "SP" \notin Range(l)
    BY <1>3 DEF FirstWord, AfterFirstWord, Text, Range
<1> QED
    BY <1>2, <1>3

LEMMA StrippedLine ==
    ASSUME NEW l \in Text
    PROVE  Strip(l) \in Text /\ Range(Strip(l)) \subseteq Range(l)
<1>1. DOMAIN l = 1..Len(l) /\ Len(l) \in Nat
    BY DEF Text
<1>2. CASE Strip(l) = <<>>
    BY <1>2 DEF Text, Range
<1>3. CASE Strip(l) # <<>>
    <2>1. PICK a, b \in 1..Len(l) : a <= b /\ Strip(l) = SubSeq(l, a, b)
        BY <1>3, StripCuts
    <2> DEFINE m == SubSeq(l, a, b)
    <2>2. m \in Text /\ Len(m) = b - a + 1 /\ \A i \in 1..(b - a + 1) : m[i] = l[a + i - 1]
        BY <1>1, <2>1 DEF Text
    <2> HIDE DEF m
    <2>3. DOMAIN m = 1..(b - a + 1)
        BY <2>2 DEF Text
    <2>4. ASSUME NEW i \in 1..(b - a + 1) PROVE a + i - 1 \in 1..Len(l)
        BY <1>1, <2>1
    <2>5. Range(m) \subseteq Range(l)
        BY <2>2, <2>3, <2>4, <1>1 DEF Range
    <2> QED
        BY <2>1, <2>2, <2>5 DEF m
<1> QED
    BY <1>2, <1>3

\* Only a line with an x in it is denied.
LEMMA DeniedHoldsX ==
    ASSUME NEW l \in Text, unsafeInlineCapability(l)
    PROVE  \E k \in 1..Len(l) : l[k] = "x"
<1>1. DOMAIN l = 1..Len(l) /\ Len(l) \in Nat
    BY DEF Text
<1> DEFINE m == Strip(l)
<1>2. m \in Text /\ Range(m) \subseteq Range(l)
    BY StrippedLine
<1> DEFINE after == AfterFirstWord(m)
<1>3. /\ Range(FirstWord(m)) \subseteq Range(m)
      /\ after \in Text /\ Range(after) \subseteq Range(m)
    BY <1>2, WordsOfLine
<1>4. Strip(after) \in Text /\ Range(Strip(after)) \subseteq Range(after)
    BY <1>3, StrippedLine
<1>5. Range(FirstWord(Strip(after))) \subseteq Range(Strip(after))
    BY <1>4, WordsOfLine
<1>6. "x" \in Range(<<"x">>)
    <2>1. 1 \in DOMAIN <<"x">> /\ <<"x">>[1] = "x"
        OBVIOUS
    <2> QED
        BY <2>1 DEF Range
<1>7. "x" \in Range(m)
    <2>1. CASE FirstWord(m) = <<"x">>
        BY <2>1, <1>3, <1>6
    <2>2. CASE FirstWord(Strip(after)) = <<"x">>
        BY <2>2, <1>3, <1>4, <1>5, <1>6
    <2>3. CASE \E i \in 1..(Len(m) - 1) : SubSeq(m, i, i + 1) = <<"x", "s">>
        <3>1. PICK i \in 1..(Len(m) - 1) : SubSeq(m, i, i + 1) = <<"x", "s">>
            BY <2>3
        <3>2. m[i] = SubSeq(m, i, i + 1)[1] /\ i \in DOMAIN m
            <4> HIDE DEF m
            <4> QED
                BY <1>2, <3>1 DEF Text
        <3>3. m[i] = "x"
            <4>1. <<"x", "s">>[1] = "x"
                OBVIOUS
            <4> QED
                BY <3>1, <3>2, <4>1
        <3> HIDE DEF m
        <3> QED
            BY <3>2, <3>3 DEF Range
    <2> QED
        BY <2>1, <2>2, <2>3 DEF unsafeInlineCapability
<1> QED
    BY <1>1, <1>2, <1>7 DEF Range

-----------------------------------------------------------------------------
(* Lines and runs of backslashes in a text *)

\* A position has one start of its line, which LineStart is.
LEMMA LineStarts ==
    ASSUME NEW t \in Text, NEW i \in 1..(Len(t) + 1)
    PROVE  /\ LineStart(t, i) \in 1..i /\ StartOf(t, LineStart(t, i), i)
           /\ \A j \in 1..i : StartOf(t, j, i) => j = LineStart(t, i)
<1> DEFINE Starts == {j \in 1..i : j = 1 \/ t[j - 1] = "LF"}
<1>1. Len(t) \in Nat
    BY DEF Text
<1>2. PICK s \in Starts : \A j \in Starts : j <= s
    <2>1. 1 \in Starts /\ Starts \in SUBSET (0..i) /\ i \in Nat
        BY <1>1
    <2> HIDE DEF Starts
    <2> QED
        BY <2>1, GreatestPosition
<1>3. SameLine(t, s, i)
    <2> SUFFICES ASSUME NEW k \in s..(i - 1), t[k] = "LF" PROVE FALSE
        BY DEF SameLine
    <2>1. k + 1 \in Starts /\ ~ (k + 1 <= s)
        BY <1>1
    <2> HIDE DEF Starts
    <2> QED
        BY <2>1, <1>2
<1>4. \E j \in 1..i : SameLine(t, j, i) /\ (j = 1 \/ t[j - 1] = "LF")
    BY <1>2, <1>3
<1>5. LineStart(t, i) \in 1..i /\ StartOf(t, LineStart(t, i), i)
    BY <1>4 DEF LineStart, StartOf
<1>6. ASSUME NEW j \in 1..i, NEW k \in 1..i, StartOf(t, j, i), StartOf(t, k, i), j < k
      PROVE  FALSE
    <2>1. k - 1 \in j..(i - 1) /\ t[k - 1] = "LF"
        BY <1>1, <1>6 DEF StartOf
    <2> QED
        BY <2>1, <1>6 DEF StartOf, SameLine
<1>7. ASSUME NEW j \in 1..i, StartOf(t, j, i), j # LineStart(t, i)
      PROVE  FALSE
    <2> DEFINE k == LineStart(t, i)
    <2>1. k \in 1..i /\ StartOf(t, k, i)
        BY <1>5
    <2> HIDE DEF k
    <2>2. j < k \/ k < j
        BY <1>7, <2>1, <1>1 DEF k
    <2> QED
        BY <2>1, <2>2, <1>6, <1>7
<1> QED
    BY <1>5, <1>7

\* Within a line the start stays.
LEMMA StartSteps ==
    ASSUME NEW t \in Text, NEW i \in 1..Len(t), NEW j \in 1..(i + 1), StartOf(t, j, i + 1)
    PROVE  /\ t[i] = "LF" => j = i + 1
           /\ t[i] # "LF" => j \in 1..i /\ StartOf(t, j, i)
<1>1. Len(t) \in Nat
    BY DEF Text
<1>2. CASE j = i + 1
    BY <1>1, <1>2 DEF StartOf
<1>3. CASE j # i + 1
    <2>1. j \in 1..i /\ i \in j..(i + 1 - 1)
        BY <1>1, <1>3
    <2>2. t[i] # "LF"
        BY <2>1 DEF StartOf, SameLine
    <2>3. \A k \in j..(i - 1) : k \in j..(i + 1 - 1)
        BY <1>1
    <2> QED
        BY <2>1, <2>2, <2>3 DEF StartOf, SameLine
<1> QED
    BY <1>2, <1>3

\* One run of backslashes, none perhaps, stands before a position.
LEMMA RunBefore ==
    ASSUME NEW t \in Text, NEW i \in 1..(Len(t) + 1)
    PROVE  \E n \in 0..(i - 1) : RunOf(t, i, n) /\ (Unescaped(t, i) <=> n % 2 = 0)
<1> DEFINE Others == {k \in 0..(i - 1) : k = 0 \/ t[k] # "backslash"}
<1>1. Len(t) \in Nat
    BY DEF Text
<1>2. PICK g \in Others : \A k \in Others : k <= g
    <2>1. 0 \in Others /\ Others \in SUBSET (0..(i - 1)) /\ i - 1 \in Nat
        BY <1>1
    <2> HIDE DEF Others
    <2> QED
        BY <2>1, GreatestPosition
<1> DEFINE n == i - 1 - g
<1>3. n \in 0..(i - 1) /\ i - n - 1 = g /\ g \in 0..(i - 1)
    BY <1>1
<1>4. RunOf(t, i, n)
    <2>1. ASSUME NEW k \in (i - n)..(i - 1), t[k] # "backslash" PROVE FALSE
        <3>1. k \in Others /\ k > g
            BY <2>1, <1>1, <1>3
        <3> HIDE DEF Others
        <3> QED
            BY <3>1, <1>2
    <2>2. i - n = 1 \/ t[i - n - 1] # "backslash"
        BY <1>1, <1>3
    <2> HIDE DEF n
    <2> QED
        BY <2>1, <2>2 DEF RunOf
<1> HIDE DEF n
<1>5. ASSUME NEW m \in 1..(i - 1), RunOf(t, i, m) PROVE m = n
    <2>1. CASE m < n
        <3>1. i - m - 1 \in (i - n)..(i - 1) /\ i - m # 1
            BY <1>1, <1>3, <2>1
        <3> QED
            BY <3>1, <1>4, <1>5 DEF RunOf
    <2>2. CASE n < m
        <3>1. i - n - 1 \in (i - m)..(i - 1) /\ i - n # 1
            BY <1>1, <1>3, <2>2
        <3> QED
            BY <3>1, <1>4, <1>5 DEF RunOf
    <2> QED
        BY <2>1, <2>2, <1>3
<1>6. Unescaped(t, i) <=> \A m \in 1..(i - 1) : RunOf(t, i, m) => m % 2 = 0
    BY DEF Unescaped, RunOf
<1>7. CASE n = 0
    <2>1. \A m \in 1..(i - 1) : ~ RunOf(t, i, m)
        BY <1>5, <1>7
    <2> QED
        BY <2>1, <1>3, <1>4, <1>6, <1>7
<1>8. CASE n # 0
    <2>1. n \in 1..(i - 1)
        BY <1>3, <1>8
    <2> QED
        BY <2>1, <1>3, <1>4, <1>5, <1>6
<1> QED
    BY <1>7, <1>8

\* What a character does to the position after it.
LEMMA EscapeSteps ==
    ASSUME NEW t \in Text, NEW i \in 1..Len(t)
    PROVE  /\ t[i] # "backslash" => Unescaped(t, i + 1)
           /\ t[i] = "backslash" => (Unescaped(t, i + 1) <=> ~ Unescaped(t, i))
<1>1. Len(t) \in Nat /\ i + 1 \in 1..(Len(t) + 1) /\ i \in 1..(Len(t) + 1)
    BY DEF Text
<1>2. PICK n \in 0..(i - 1) : RunOf(t, i, n) /\ (Unescaped(t, i) <=> n % 2 = 0)
    BY <1>1, RunBefore
<1>3. PICK m \in 0..(i + 1 - 1) : RunOf(t, i + 1, m) /\ (Unescaped(t, i + 1) <=> m % 2 = 0)
    BY <1>1, RunBefore
<1>4. CASE t[i] # "backslash"
    <2>1. m = 0
        <3>1. m # 0 => i \in (i + 1 - m)..(i + 1 - 1)
            BY <1>1
        <3> QED
            BY <3>1, <1>3, <1>4 DEF RunOf
    <2> QED
        BY <2>1, <1>3, <1>4
<1>5. CASE t[i] = "backslash"
    <2>1. m # 0
        BY <1>1, <1>3, <1>5 DEF RunOf
    <2>2. m = n + 1
        <3>1. CASE m < n + 1
            <4>1. i - m \in (i - n)..(i - 1) /\ i + 1 - m # 1 /\ i + 1 - m - 1 = i - m
                BY <1>1, <1>2, <1>3, <3>1, <2>1
            <4> QED
                BY <4>1, <1>2, <1>3 DEF RunOf
        <3>2. CASE n + 1 < m
            <4>1. i - n - 1 \in (i + 1 - m)..(i + 1 - 1) /\ i - n # 1
                BY <1>1, <1>2, <1>3, <3>2
            <4> QED
                BY <4>1, <1>2, <1>3 DEF RunOf
        <3> QED
            BY <3>1, <3>2, <1>2, <1>3
    <2>3. m % 2 = 0 <=> ~ (n % 2 = 0)
        BY <2>2
    <2> QED
        BY <2>3, <1>2, <1>3, <1>5
<1> QED
    BY <1>4, <1>5

\* What makes quotes closed.
Values(t, j, i) == {v \in (j..(i - 1)) \X (j..(i - 1)) : ClosedAt(t, v[1], v[2])}

SideBySide(values) == \A v, w \in values : v = w \/ v[2] < w[1] \/ w[2] < v[1]

Covers(t, j, i, values) ==
    \A k \in j..(i - 1) :
        t[k] \in Quotes /\ Unescaped(t, k) => \E v \in values : k \in v[1]..v[2]

LEMMA ClosedBy ==
    ASSUME NEW t, NEW j, NEW i
    PROVE  QuotesClosed(t, j, i) <=>
             \E values \in SUBSET Values(t, j, i) : SideBySide(values) /\ Covers(t, j, i, values)
BY DEF QuotesClosed, Values, SideBySide, Covers

\* A character that is no quote, or is escaped, leaves quotes closed.
LEMMA StaysClosed ==
    ASSUME NEW t \in Text, NEW i \in 1..Len(t), NEW j \in 1..i, QuotesClosed(t, j, i),
           ~ (t[i] \in Quotes /\ Unescaped(t, i))
    PROVE  QuotesClosed(t, j, i + 1)
<1>1. Len(t) \in Nat
    BY DEF Text
<1>2. PICK values \in SUBSET Values(t, j, i) : SideBySide(values) /\ Covers(t, j, i, values)
    BY ClosedBy
<1>3. values \in SUBSET Values(t, j, i + 1)
    <2>1. (j..(i - 1)) \subseteq (j..(i + 1 - 1))
        BY <1>1
    <2> QED
        BY <2>1, <1>2 DEF Values
<1>4. Covers(t, j, i + 1, values)
    <2>1. \A k \in j..(i + 1 - 1) : k = i \/ k \in j..(i - 1)
        BY <1>1
    <2> QED
        BY <2>1, <1>2 DEF Covers
<1> QED
    BY <1>2, <1>3, <1>4, ClosedBy

\* The quote that closes what was opened at o leaves quotes closed.
LEMMA ClosesAgain ==
    ASSUME NEW t \in Text, NEW i \in 1..Len(t), NEW j \in 1..i, NEW o \in j..(i - 1),
           NEW q \in Quotes, OpenedAt(t, j, o, i, q), t[i] = q, Unescaped(t, i)
    PROVE  QuotesClosed(t, j, i + 1)
<1>1. Len(t) \in Nat
    BY DEF Text
<1>2. PICK values \in SUBSET Values(t, j, o) : SideBySide(values) /\ Covers(t, j, o, values)
    BY ClosedBy DEF OpenedAt
<1> DEFINE last == <<o, i>>
           more == values \cup {last}
<1>3. last \in (j..(i + 1 - 1)) \X (j..(i + 1 - 1)) /\ last[1] = o /\ last[2] = i
    BY <1>1
<1>4. ClosedAt(t, o, i)
    BY <1>1 DEF ClosedAt, OpenedAt
<1>5. values \in SUBSET Values(t, j, i + 1)
    <2>1. (j..(o - 1)) \subseteq (j..(i + 1 - 1))
        BY <1>1
    <2> QED
        BY <2>1, <1>2 DEF Values
<1>6. more \in SUBSET Values(t, j, i + 1)
    BY <1>3, <1>4, <1>5 DEF Values
<1>7. \A v \in values : v[1] \in j..(o - 1) /\ v[2] \in j..(o - 1)
    BY <1>2 DEF Values
<1>8. SideBySide(more)
    <2>1. \A v \in values : v[2] < last[1]
        BY <1>1, <1>3, <1>7
    <2> HIDE DEF last
    <2> QED
        BY <2>1, <1>2 DEF SideBySide
<1>9. Covers(t, j, i + 1, more)
    <2> SUFFICES ASSUME NEW k \in j..(i + 1 - 1), t[k] \in Quotes, Unescaped(t, k)
                 PROVE  \E v \in more : k \in v[1]..v[2]
        BY DEF Covers
    <2>1. CASE k < o
        <3>1. k \in j..(o - 1)
            BY <1>1, <2>1
        <3> QED
            BY <3>1, <1>2 DEF Covers
    <2>2. CASE ~ (k < o)
        <3>1. k \in last[1]..last[2]
            BY <1>1, <1>3, <2>2
        <3> QED
            BY <3>1
    <2> QED
        BY <2>1, <2>2
<1> HIDE DEF more
<1> QED
    BY <1>6, <1>8, <1>9, ClosedBy

\* What is remembered of the quotes once the character at p is read.
NextQuote(t, p, r) ==
    IF r.escaped \/ t[p] \notin Quotes THEN r.quote
    ELSE IF r.quote = "none" THEN t[p]
    ELSE IF r.quote = t[p] THEN "none" ELSE r.quote

LEMMA QuoteSteps ==
    ASSUME NEW t \in Text, NEW p \in 1..Len(t), NEW j \in 1..p, NEW r \in Reader,
           r.escaped <=> ~ Unescaped(t, p), QuotesTold(t, j, p, r.quote)
    PROVE  QuotesTold(t, j, p + 1, NextQuote(t, p, r))
<1>1. Len(t) \in Nat /\ r.quote \in Quotes \cup {"none"} /\ "none" \notin Quotes
    BY DEF Text, Reader, Quotes
<1>2. CASE r.quote = "none" /\ (r.escaped \/ t[p] \notin Quotes)
    BY <1>2, StaysClosed DEF QuotesTold, NextQuote
<1>3. CASE r.quote = "none" /\ ~ r.escaped /\ t[p] \in Quotes
    <2>1. NextQuote(t, p, r) = t[p] /\ t[p] # "none" /\ QuotesClosed(t, j, p) /\ Unescaped(t, p)
        BY <1>1, <1>3 DEF NextQuote, QuotesTold
    <2>2. p \in j..(p + 1 - 1) /\ (p + 1)..(p + 1 - 1) = {}
        BY <1>1
    <2>3. OpenedAt(t, j, p, p + 1, t[p])
        BY <2>1, <2>2 DEF OpenedAt
    <2> QED
        BY <2>1, <2>2, <2>3 DEF QuotesTold
<1>4. CASE r.quote # "none"
    <2>1. PICK o \in j..(p - 1) : OpenedAt(t, j, o, p, r.quote)
        BY <1>4 DEF QuotesTold
    <2>2. r.quote \in Quotes
        BY <1>1, <1>4
    <2>3. CASE ~ r.escaped /\ t[p] = r.quote
        <3>1. QuotesClosed(t, j, p + 1)
            BY <2>1, <2>2, <2>3, ClosesAgain
        <3>2. NextQuote(t, p, r) = "none"
            BY <2>2, <2>3, <1>4 DEF NextQuote
        <3> QED
            BY <3>1, <3>2 DEF QuotesTold
    <2>4. CASE r.escaped \/ t[p] # r.quote
        <3>1. NextQuote(t, p, r) = r.quote
            BY <2>4, <1>4 DEF NextQuote
        <3>2. o \in j..(p + 1 - 1) /\ \A k \in (o + 1)..(p + 1 - 1) : k = p \/ k \in (o + 1)..(p - 1)
            BY <1>1
        <3>3. OpenedAt(t, j, o, p + 1, r.quote)
            BY <3>2, <2>1, <2>4 DEF OpenedAt
        <3> QED
            BY <3>1, <3>2, <3>3, <1>4 DEF QuotesTold
    <2> QED
        BY <2>3, <2>4
<1> QED
    BY <1>2, <1>3, <1>4

LEMMA NoQuotesYet ==
    ASSUME NEW t \in Text, NEW i \in 1..(Len(t) + 1)
    PROVE  QuotesTold(t, i, i, "none")
<1>1. Len(t) \in Nat
    BY DEF Text
<1>2. i..(i - 1) = {}
    BY <1>1
<1>3. {} \in SUBSET Values(t, i, i) /\ SideBySide({}) /\ Covers(t, i, i, {})
    BY <1>2 DEF SideBySide, Covers
<1> QED
    BY <1>3, ClosedBy DEF QuotesTold

\* A comment lasts to the end of its line.
LEMMA CommentLasts ==
    ASSUME NEW t \in Text, NEW i \in 1..Len(t), MayBeCommented(t, i), t[i] # "LF"
    PROVE  MayBeCommented(t, i + 1)
<1>1. Len(t) \in Nat
    BY DEF Text
<1>2. PICK h \in 1..(i - 1) :
        /\ t[h] = "hash" /\ SameLine(t, h, i) /\ Unescaped(t, h)
        /\ Continues(t, LineStart(t, h)) \/ QuotesClosed(t, LineStart(t, h), h)
    BY DEF MayBeCommented
<1>3. h \in 1..(i + 1 - 1) /\ SameLine(t, h, i + 1)
    BY <1>1, <1>2 DEF SameLine
<1> QED
    BY <1>2, <1>3 DEF MayBeCommented

-----------------------------------------------------------------------------
(* The steps of the reader *)

\* No continuation starts with the backslash at p.
NotContinued(t, p) ==
    /\ p < Len(t) => t[p + 1] # "LF"
    /\ p + 1 < Len(t) /\ t[p + 1] = "CR" => t[p + 2] # "LF"

\* A continuation takes the positions from p to q - 1.
Continued(t, p, q) ==
    /\ t[p] = "backslash"
    /\ \/ q = p + 2 /\ q <= Len(t) + 1 /\ t[p + 1] = "LF"
       \/ q = p + 3 /\ q <= Len(t) + 1 /\ t[p + 1] = "CR" /\ t[p + 2] = "LF"

\* What reading the character at p makes of the reader, when it reads on.
Skips(t, p, r, r2) == r.comment /\ t[p] # "LF" /\ r2 = r

SameFlags(r, r2) == r2.quote = r.quote /\ r2.escaped = r.escaped

Ends(t, p, r, r2) ==
    /\ t[p] = "LF" /\ (r.comment \/ AtRest(r))
    /\ ~ unsafeInlineCapability(r.line)
    /\ r2.line = <<>> /\ ~ r2.comment /\ SameFlags(r, r2)

Takes(t, p, r, r2) ==
    /\ ~ r.comment
    /\ \/ r.escaped
       \/ r.quote # "none" /\ t[p] # "LF"
       \/ t[p] \notin {"hash", "LF", "SP", "CR"}
    /\ ~ r.escaped /\ t[p] = "backslash" => NotContinued(t, p)
    /\ r2.line = Append(r.line, t[p]) /\ ~ r2.comment
    /\ r2.quote = NextQuote(t, p, r)
    /\ r2.escaped <=> ~ r.escaped /\ t[p] = "backslash"

Blanks(t, p, r, r2) ==
    /\ AtRest(r) /\ t[p] \in {"SP", "CR"}
    /\ r2.line = appendNormalizedSpace(r.line) /\ ~ r2.comment /\ SameFlags(r, r2)

Comments(t, p, r, r2) ==
    /\ AtRest(r) /\ t[p] = "hash"
    /\ r2.line = r.line /\ r2.comment /\ SameFlags(r, r2)

Moves(t, p, r, r2) ==
    \/ Skips(t, p, r, r2) \/ Ends(t, p, r, r2) \/ Takes(t, p, r, r2)
    \/ Blanks(t, p, r, r2) \/ Comments(t, p, r, r2)

\* A line feed that is read ends a line.
LEMMA LineFeedEnds ==
    ASSUME NEW t \in Text, NEW p \in 1..Len(t), NEW r \in Reader, NEW r2 \in Reader,
           Moves(t, p, r, r2), t[p] = "LF",
           EscapesKnown(t, p, r), QuotesKnown(t, p, r), OutsideContinuation(t, p, r)
    PROVE  Ends(t, p, r, r2) /\ AtRest(r2) /\ r2.line = <<>> /\ ~ unsafeInlineCapability(r.line)
<1>1. Len(t) \in Nat
    BY DEF Text
<1>2. ~ Skips(t, p, r, r2) /\ ~ Blanks(t, p, r, r2) /\ ~ Comments(t, p, r, r2)
    BY DEF Skips, Blanks, Comments, SameFlags
<1>3. ~ Takes(t, p, r, r2)
    <2>1. p <= Len(t)
        BY <1>1
    <2> QED
        BY <2>1 DEF Takes, OutsideContinuation
<1>4. Ends(t, p, r, r2)
    BY <1>2, <1>3 DEF Moves
<1> QED
    BY <1>4 DEF Ends, AtRest, Reader, EscapesKnown, QuotesKnown, SameFlags

\* Any other character adds at most one to the line, and nothing in a comment.
LEMMA LineGrows ==
    ASSUME NEW t \in Text, NEW p \in 1..Len(t), NEW r \in Reader, NEW r2 \in Reader,
           Moves(t, p, r, r2), t[p] # "LF"
    PROVE  /\ r.comment => r2 = r
           /\ \/ r2.line = r.line
              \/ r2.line = Append(r.line, t[p]) /\ ~ r2.comment
              \/ r2.line = Append(r.line, "SP") /\ t[p] \in {"SP", "CR"} /\ AtRest(r2)
<1>1. ~ Ends(t, p, r, r2)
    BY DEF Ends, SameFlags
<1>2. CASE Skips(t, p, r, r2)
    BY <1>2 DEF Skips
<1>3. CASE Takes(t, p, r, r2)
    BY <1>3 DEF Takes, Reader
<1>4. CASE Blanks(t, p, r, r2)
    BY <1>4 DEF Blanks, appendNormalizedSpace, AtRest, Reader, SameFlags
<1>5. CASE Comments(t, p, r, r2)
    BY <1>5 DEF Comments, AtRest, Reader, SameFlags
<1> QED
    BY <1>1, <1>2, <1>3, <1>4, <1>5 DEF Moves

-----------------------------------------------------------------------------
(* The flags are what the text says *)

LEMMA EscapesKnownMoves ==
    ASSUME NEW t \in Text, NEW p \in 1..Len(t), NEW r \in Reader, NEW r2 \in Reader,
           Moves(t, p, r, r2),
           EscapesKnown(t, p, r), QuotesKnown(t, p, r), OutsideContinuation(t, p, r)
    PROVE  EscapesKnown(t, p + 1, r2)
<1>1. /\ t[p] # "backslash" => Unescaped(t, p + 1)
      /\ t[p] = "backslash" => (Unescaped(t, p + 1) <=> ~ Unescaped(t, p))
    BY EscapeSteps
<1>2. CASE t[p] = "LF"
    BY <1>1, <1>2, LineFeedEnds DEF EscapesKnown, AtRest
<1>3. CASE Skips(t, p, r, r2)
    BY <1>3 DEF Skips, EscapesKnown
<1>4. CASE Takes(t, p, r, r2)
    BY <1>1, <1>4 DEF Takes, EscapesKnown, Reader
<1>5. CASE Blanks(t, p, r, r2)
    BY <1>1, <1>5 DEF Blanks, AtRest, EscapesKnown, Reader, SameFlags
<1>6. CASE Comments(t, p, r, r2)
    BY <1>1, <1>6 DEF Comments, AtRest, EscapesKnown, Reader, SameFlags
<1> QED
    BY <1>2, <1>3, <1>4, <1>5, <1>6 DEF Moves, Ends, SameFlags

\* The start of the line, one position later.
LEMMA LineStartSteps ==
    ASSUME NEW t \in Text, NEW p \in 1..Len(t)
    PROVE  /\ LineStart(t, p) \in 1..p
           /\ LineStart(t, p + 1) = IF t[p] = "LF" THEN p + 1 ELSE LineStart(t, p)
<1>1. Len(t) \in Nat /\ p \in 1..(Len(t) + 1) /\ p + 1 \in 1..(Len(t) + 1)
    BY DEF Text
<1>2. LineStart(t, p + 1) \in 1..(p + 1) /\ StartOf(t, LineStart(t, p + 1), p + 1)
    BY <1>1, LineStarts
<1>3. LineStart(t, p) \in 1..p /\ \A j \in 1..p : StartOf(t, j, p) => j = LineStart(t, p)
    BY <1>1, LineStarts
<1> QED
    BY <1>2, <1>3, StartSteps

LEMMA QuotesKnownMoves ==
    ASSUME NEW t \in Text, NEW p \in 1..Len(t), NEW r \in Reader, NEW r2 \in Reader,
           Moves(t, p, r, r2),
           EscapesKnown(t, p, r), QuotesKnown(t, p, r), OutsideContinuation(t, p, r)
    PROVE  QuotesKnown(t, p + 1, r2)
<1> DEFINE j == LineStart(t, p)
           j2 == LineStart(t, p + 1)
<1>1. j \in 1..p /\ j2 = IF t[p] = "LF" THEN p + 1 ELSE j
    BY LineStartSteps
<1>2. Len(t) \in Nat /\ p + 1 \in 1..(Len(t) + 1)
    BY DEF Text
<1> HIDE DEF j, j2
<1>4. CASE t[p] = "LF"
    <2>1. QuotesTold(t, p + 1, p + 1, "none")
        BY <1>2, NoQuotesYet
    <2>2. AtRest(r2)
        BY <1>4, LineFeedEnds
    <2> QED
        BY <2>1, <2>2, <1>1, <1>4 DEF QuotesKnown, AtRest, j2
<1>5. CASE t[p] # "LF" /\ r.comment
    <2>1. r2 = r /\ MayBeCommented(t, p)
        BY <1>5, LineGrows DEF QuotesKnown
    <2>2. MayBeCommented(t, p + 1)
        BY <2>1, <1>5, CommentLasts
    <2> QED
        BY <2>1, <2>2, <1>5 DEF QuotesKnown
<1>6. CASE Takes(t, p, r, r2) /\ t[p] # "LF"
    <2>1. ~ r.comment /\ r2.comment = FALSE /\ (r.escaped <=> ~ Unescaped(t, p))
        BY <1>6 DEF Takes, Reader, EscapesKnown
    <2>2. r2.quote = NextQuote(t, p, r)
        BY <1>6 DEF Takes
    <2>3. ASSUME ~ Continues(t, j)
          PROVE  QuotesTold(t, j, p + 1, r2.quote)
        <3>1. QuotesTold(t, j, p, r.quote)
            BY <2>1, <2>3 DEF QuotesKnown, j
        <3> QED
            BY <3>1, <2>1, <2>2, <1>1, QuoteSteps
    <2>4. j2 = j
        BY <1>1, <1>6
    <2> QED
        BY <2>1, <2>3, <2>4 DEF QuotesKnown, j, j2
<1>7. CASE Blanks(t, p, r, r2)
    <2>1. /\ t[p] # "LF" /\ t[p] \notin Quotes /\ ~ r.comment /\ ~ r.escaped /\ r.quote = "none"
          /\ r2.quote = NextQuote(t, p, r) /\ r2.comment = FALSE
        BY <1>7 DEF Blanks, AtRest, Reader, SameFlags, NextQuote, Quotes
    <2>2. r.escaped <=> ~ Unescaped(t, p)
        BY <2>1 DEF EscapesKnown
    <2>3. ASSUME ~ Continues(t, j)
          PROVE  QuotesTold(t, j, p + 1, r2.quote)
        <3>1. QuotesTold(t, j, p, r.quote)
            BY <2>1, <2>3 DEF QuotesKnown, j
        <3> QED
            BY <3>1, <2>1, <2>2, <1>1, QuoteSteps
    <2>4. j2 = j
        BY <1>1, <2>1
    <2> QED
        BY <2>1, <2>3, <2>4 DEF QuotesKnown, j, j2
<1>8. CASE Comments(t, p, r, r2)
    <2>1. /\ t[p] = "hash" /\ ~ r.comment /\ r.quote = "none" /\ ~ r.escaped
          /\ r2.quote = "none" /\ r2.comment = TRUE
        BY <1>8 DEF Comments, AtRest, Reader, SameFlags
    <2>2. Unescaped(t, p)
        BY <2>1 DEF EscapesKnown
    <2>3. Continues(t, j) \/ QuotesClosed(t, j, p)
        BY <2>1 DEF QuotesKnown, QuotesTold, j
    <2>4. p \in 1..(p + 1 - 1) /\ SameLine(t, p, p + 1)
        BY <2>1, <1>2 DEF SameLine
    <2>5. MayBeCommented(t, p + 1)
        BY <2>1, <2>2, <2>3, <2>4 DEF MayBeCommented, j
    <2> QED
        BY <2>1, <2>5 DEF QuotesKnown
<1> QED
    BY <1>4, <1>5, <1>6, <1>7, <1>8 DEF Moves, Skips, Ends, SameFlags

LEMMA OutsideContinuationMoves ==
    ASSUME NEW t \in Text, NEW p \in 1..Len(t), NEW r \in Reader, NEW r2 \in Reader,
           Moves(t, p, r, r2),
           EscapesKnown(t, p, r), QuotesKnown(t, p, r), OutsideContinuation(t, p, r)
    PROVE  OutsideContinuation(t, p + 1, r2)
<1>1. Len(t) \in Nat
    BY DEF Text
<1>2. ASSUME r2.escaped
      PROVE  /\ 1 < p + 1 /\ t[p + 1 - 1] = "backslash"
             /\ p + 1 <= Len(t) => t[p + 1] # "LF"
             /\ p + 1 < Len(t) /\ t[p + 1] = "CR" => t[p + 1 + 1] # "LF"
    <2>1. Takes(t, p, r, r2)
        BY <1>2 DEF Moves, Skips, Ends, Blanks, Comments, AtRest, Reader, EscapesKnown, SameFlags
    <2>2. t[p] = "backslash" /\ NotContinued(t, p)
        BY <2>1, <1>2 DEF Takes, Reader
    <2> QED
        BY <2>2, <1>1 DEF NotContinued
<1>3. ASSUME ~ r2.comment, 2 < p + 1, p + 1 <= Len(t),
             t[p + 1] = "LF", t[p + 1 - 1] = "CR", t[p + 1 - 2] = "backslash"
      PROVE  Unescaped(t, p + 1 - 1)
    <2>1. t[p] = "CR" /\ p < Len(t) /\ p + 1 - 1 = p
        BY <1>1, <1>3
    <2>2. ~ r.comment
        BY <2>1, <1>3, LineGrows
    <2>3. ~ r.escaped
        BY <2>1, <1>3 DEF OutsideContinuation
    <2> QED
        BY <2>1, <2>2, <2>3 DEF EscapesKnown
<1> QED
    BY <1>2, <1>3 DEF OutsideContinuation

-----------------------------------------------------------------------------
(* Fragments *)

\* Appending one character keeps a fragment of the line, and may complete one.
LEMMA AppendKeeps ==
    ASSUME NEW l \in Text, NEW c \in Characters
    PROVE  /\ Append(l, c) \in Text /\ Len(Append(l, c)) = Len(l) + 1
           /\ Append(l, c)[Len(l) + 1] = c
           /\ \A k \in 1..Len(l) : Append(l, c)[k] = l[k]
           /\ HasFragment(l) => HasFragment(Append(l, c))
           /\ Len(l) > 0 /\ l[Len(l)] = "x" /\ c = "s" => HasFragment(Append(l, c))
<1> DEFINE m == Append(l, c)
<1>1. /\ m \in Text /\ Len(m) = Len(l) + 1 /\ Len(l) \in Nat
      /\ m[Len(l) + 1] = c /\ \A k \in 1..Len(l) : m[k] = l[k]
    BY AppendProperties DEF Text
<1> HIDE DEF m
<1>2. ASSUME HasFragment(l) PROVE HasFragment(m)
    <2>1. PICK k \in 1..(Len(l) - 1) : l[k] = "x" /\ l[k + 1] = "s"
        BY <1>2 DEF HasFragment
    <2>2. k \in 1..(Len(m) - 1) /\ k \in 1..Len(l) /\ k + 1 \in 1..Len(l)
        BY <1>1
    <2> QED
        BY <2>1, <2>2, <1>1 DEF HasFragment
<1>3. ASSUME Len(l) > 0, l[Len(l)] = "x", c = "s" PROVE HasFragment(m)
    <2>1. Len(l) \in 1..(Len(m) - 1) /\ Len(l) \in 1..Len(l)
        BY <1>1, <1>3
    <2> QED
        BY <2>1, <1>1, <1>3 DEF HasFragment
<1> QED
    BY <1>1, <1>2, <1>3 DEF m

\* Outside of a comment, the character just read joins nothing to what follows
\* it: only whole continuations do.
LEMMA JoinedEnds ==
    ASSUME NEW t \in Text, NEW p \in 1..Len(t), NEW r \in Reader,
           EscapesKnown(t, p, r), OutsideContinuation(t, p, r), ~ r.comment,
           NEW i \in 1..(p - 1), t[i] = "x", Joined(t, i, p + 1)
    PROVE  t[p] = "LF" /\ r.escaped
<1>1. Len(t) \in Nat /\ p \in (i + 1)..(p + 1 - 1)
    BY DEF Text
<1>2. ASSUME NEW k \in (i + 1)..p
      PROVE  \/ t[k] = "backslash" /\ k + 1 < p + 1
                  /\ \/ t[k + 1] = "LF"
                     \/ t[k + 1] = "CR" /\ k + 2 < p + 1 /\ t[k + 2] = "LF"
             \/ t[k] = "CR" /\ k > i + 1 /\ t[k - 1] = "backslash"
             \/ t[k] = "LF" /\ k > i + 1 /\ t[k - 1] = "backslash"
             \/ t[k] = "LF" /\ k > i + 2 /\ t[k - 1] = "CR" /\ t[k - 2] = "backslash"
    <2>1. k \in (i + 1)..(p + 1 - 1)
        BY <1>1
    <2> QED
        BY <2>1 DEF Joined
<1>3. \/ t[p] = "CR" /\ p > i + 1 /\ t[p - 1] = "backslash"
      \/ t[p] = "LF" /\ p > i + 1 /\ t[p - 1] = "backslash"
      \/ t[p] = "LF" /\ p > i + 2 /\ t[p - 1] = "CR" /\ t[p - 2] = "backslash"
    <2>1. p \in (i + 1)..p /\ ~ (p + 1 < p + 1)
        BY <1>1
    <2> QED
        BY <2>1, <1>2
<1>4. ASSUME NEW k \in (i + 1)..p, t[k] = "backslash"
      PROVE  /\ k + 1 < p + 1
             /\ \/ t[k + 1] = "LF"
                \/ t[k + 1] = "CR" /\ k + 2 < p + 1 /\ t[k + 2] = "LF"
    BY <1>2, <1>4
<1>5. ASSUME NEW k \in (i + 1)..p, t[k] = "backslash", Unescaped(t, k + 1)
      PROVE  FALSE
    <2>1. k \in 1..Len(t) /\ ~ Unescaped(t, k)
        <3>1. k \in 1..Len(t)
            BY <1>1
        <3> QED
            BY <3>1, <1>5, EscapeSteps
    <2>2. k - 1 \in 1..Len(t) /\ k - 1 + 1 = k
        BY <1>1
    <2>3. t[k - 1] = "backslash"
        BY <2>1, <2>2, EscapeSteps
    <2>4. k - 1 \in (i + 1)..p
        <3>1. k - 1 # i
            BY <2>3
        <3> QED
            BY <3>1, <1>1
    <2> QED
        BY <2>2, <2>3, <2>4, <1>4, <1>5
<1>6. CASE t[p] = "CR" /\ p > i + 1 /\ t[p - 1] = "backslash"
    <2>1. p - 1 \in (i + 1)..p /\ p - 1 + 1 = p /\ ~ (p - 1 + 2 < p + 1)
        BY <1>1, <1>6
    <2> QED
        BY <2>1, <1>4, <1>6
<1>7. CASE t[p] = "LF" /\ p > i + 1 /\ t[p - 1] = "backslash"
    <2>1. p - 1 \in (i + 1)..p /\ p - 1 + 1 = p
        BY <1>1, <1>7
    <2>2. ~ Unescaped(t, p)
        BY <2>1, <1>5, <1>7
    <2> QED
        BY <2>2, <1>7 DEF EscapesKnown
<1>8. CASE t[p] = "LF" /\ p > i + 2 /\ t[p - 1] = "CR" /\ t[p - 2] = "backslash"
    <2>1. Unescaped(t, p - 1)
        BY <1>8, <1>1 DEF OutsideContinuation
    <2>2. p - 2 \in (i + 1)..p /\ p - 2 + 1 = p - 1
        BY <1>1, <1>8
    <2> QED
        BY <2>1, <2>2, <1>5, <1>8
<1> QED
    BY <1>3, <1>6, <1>7, <1>8

\* In a comment, what is joined to the position read is in the comment too.
LEMMA JoinedInComment ==
    ASSUME NEW t \in Text, NEW p \in 1..Len(t), MayBeCommented(t, p),
           NEW i \in 1..(p - 1), t[i] = "x", Joined(t, i, p + 1)
    PROVE  MayBeCommented(t, i)
<1>1. Len(t) \in Nat
    BY DEF Text
<1>2. PICK h \in 1..(p - 1) :
        /\ t[h] = "hash" /\ SameLine(t, h, p) /\ Unescaped(t, h)
        /\ Continues(t, LineStart(t, h)) \/ QuotesClosed(t, LineStart(t, h), h)
    BY DEF MayBeCommented
<1>3. ~ (h \in (i + 1)..(p + 1 - 1))
    BY <1>2 DEF Joined
<1>4. h \in 1..(i - 1)
    <2>1. h # i
        BY <1>2
    <2> QED
        BY <2>1, <1>1, <1>3
<1>5. SameLine(t, h, i)
    <2>1. \A k \in h..(i - 1) : k \in h..(p - 1)
        BY <1>1
    <2> QED
        BY <2>1, <1>2 DEF SameLine
<1> QED
    BY <1>2, <1>4, <1>5 DEF MayBeCommented

LEMMA FragmentsKeptMoves ==
    ASSUME NEW t \in Text, NEW p \in 1..Len(t), NEW r \in Reader, NEW r2 \in Reader,
           Moves(t, p, r, r2),
           EscapesKnown(t, p, r), QuotesKnown(t, p, r), OutsideContinuation(t, p, r),
           FragmentsKept(t, p, r)
    PROVE  FragmentsKept(t, p + 1, r2)
<1>1. Len(t) \in Nat /\ r.line \in Text /\ t[p] \in Characters /\ "SP" \in Characters /\ Len(r.line) \in Nat
    BY CharacterNames DEF Text, Reader
<1>2. ASSUME HasFragment(r.line), t[p] # "LF" PROVE HasFragment(r2.line)
    <2>1. \/ r2.line = r.line
          \/ r2.line = Append(r.line, t[p])
          \/ r2.line = Append(r.line, "SP")
        BY <1>2, LineGrows
    <2>2. HasFragment(Append(r.line, t[p])) /\ HasFragment(Append(r.line, "SP"))
        BY <1>1, <1>2, AppendKeeps
    <2> QED
        BY <2>1, <2>2, <1>2
\* What reading a letter does.
<1>3. ASSUME ~ MayBeCommented(t, p), t[p] \in Letters
      PROVE  r2.line = Append(r.line, t[p])
    <2>1. ~ r.comment /\ t[p] \notin {"LF", "SP", "CR", "hash"}
        BY <1>3 DEF QuotesKnown, Letters
    <2>2. Takes(t, p, r, r2)
        BY <2>1 DEF Moves, Skips, Ends, Blanks, Comments, SameFlags
    <2> QED
        BY <2>2 DEF Takes, Reader
<1>4. ASSUME NEW i \in 1..p, NEW j \in 1..p, i < j, Fragment(t, i, j)
      PROVE  HasFragment(r2.line)
    <2>1. CASE j = p
        <3>1. i \in 1..(p - 1) /\ t[i] = "x" /\ t[p] = "s" /\ Joined(t, i, p)
              /\ ~ MayBeCommented(t, i) /\ ~ MayBeCommented(t, p)
            BY <1>1, <1>4, <2>1 DEF Fragment
        <3>2. Len(r.line) > 0 /\ r.line[Len(r.line)] = "x"
            BY <3>1 DEF FragmentsKept
        <3>3. r2.line = Append(r.line, t[p])
            BY <3>1, <1>3 DEF Letters
        <3> QED
            BY <3>1, <3>2, <3>3, <1>1, AppendKeeps
    <2>2. CASE j # p
        <3>1. i \in 1..(p - 1) /\ j \in 1..(p - 1)
            BY <1>1, <1>4, <2>2
        <3>2. HasFragment(r.line)
            BY <3>1, <1>4 DEF FragmentsKept
        <3>3. t[p] # "LF"
            BY <3>2, <1>1, LineFeedEnds, FragmentIsDenied
        <3> QED
            BY <3>2, <3>3, <1>2
    <2> QED
        BY <2>1, <2>2
<1>5. ASSUME NEW i \in 1..p, t[i] = "x", Joined(t, i, p + 1), ~ MayBeCommented(t, i)
      PROVE  Len(r2.line) > 0 /\ r2.line[Len(r2.line)] = "x"
    <2>1. i = p
        <3> SUFFICES ASSUME i # p PROVE FALSE
            OBVIOUS
        <3>1. i \in 1..(p - 1)
            BY <1>1
        <3>2. CASE r.comment
            BY <3>1, <3>2, <1>5, JoinedInComment DEF QuotesKnown
        <3>3. CASE ~ r.comment
            <4>1. t[p] = "LF" /\ r.escaped
                BY <3>1, <3>3, <1>5, JoinedEnds
            <4>2. p <= Len(t)
                BY <1>1
            <4> QED
                BY <4>1, <4>2 DEF OutsideContinuation
        <3> QED
            BY <3>2, <3>3
    <2>2. r2.line = Append(r.line, "x")
        BY <2>1, <1>3, <1>5 DEF Letters
    <2>3. "x" \in Characters
        BY CharacterNames
    <2> QED
        BY <2>2, <2>3, <1>1, AppendKeeps
<1>6. p + 1 - 1 = p
    BY <1>1
<1> QED
    BY <1>4, <1>5, <1>6 DEF FragmentsKept

-----------------------------------------------------------------------------
(* Directives at the beginning of a line *)

LEMMA WordsX == ASSUME NEW r \in Reader, NEW e, NEW p, BeginsWith(<<"x">>, e, p, r)
                PROVE  WordX(r.line)
BY DEF BeginsWith, WordX

LEMMA WordsSpaceX == ASSUME NEW r \in Reader, NEW e, NEW p, BeginsWith(<<"s", "SP", "x">>, e, p, r)
                     PROVE  WordsSX(r.line)
BY DEF BeginsWith, WordsSX

\* At rest, white space adds a space to a word.
LEMMA RestBlank ==
    ASSUME NEW t \in Text, NEW p \in 1..Len(t), NEW r \in Reader, NEW r2 \in Reader,
           Moves(t, p, r, r2), AtRest(r), t[p] \in {"SP", "CR"}
    PROVE  AtRest(r2) /\ r2.line = appendNormalizedSpace(r.line)
<1>1. Blanks(t, p, r, r2)
    BY DEF Moves, Skips, Ends, Takes, Comments, AtRest, SameFlags
<1> QED
    BY <1>1 DEF Blanks, AtRest, Reader, SameFlags

\* At rest, a letter is added to the line.
LEMMA RestLetter ==
    ASSUME NEW t \in Text, NEW p \in 1..Len(t), NEW r \in Reader, NEW r2 \in Reader,
           Moves(t, p, r, r2), AtRest(r), t[p] \in Letters
    PROVE  AtRest(r2) /\ r2.line = Append(r.line, t[p])
<1>1. t[p] \notin {"LF", "SP", "CR", "hash", "backslash"} /\ t[p] \notin Quotes
    BY DEF Letters, Quotes
<1>2. Takes(t, p, r, r2)
    BY <1>1 DEF Moves, Skips, Ends, Blanks, Comments, AtRest, SameFlags
<1> QED
    BY <1>1, <1>2 DEF Takes, NextQuote, AtRest, Reader

LEMMA WordsGrow ==
    /\ Append(<<"s">>, "SP") = <<"s", "SP">>
    /\ Append(<<"s", "SP">>, "x") = <<"s", "SP", "x">>
<1>1. /\ <<"s">> \in Text /\ Len(<<"s">>) = 1 /\ <<"s">>[1] = "s"
      /\ "s" \in Characters /\ "SP" \in Characters /\ "x" \in Characters
    BY CharacterNames DEF Text
<1>2. /\ <<"s", "SP">> \in Text /\ Len(<<"s", "SP">>) = 2
      /\ <<"s", "SP">>[1] = "s" /\ <<"s", "SP">>[2] = "SP"
    BY CharacterNames DEF Text
<1>3. /\ <<"s", "SP", "x">> \in Text /\ Len(<<"s", "SP", "x">>) = 3
      /\ <<"s", "SP", "x">>[1] = "s" /\ <<"s", "SP", "x">>[2] = "SP" /\ <<"s", "SP", "x">>[3] = "x"
    BY CharacterNames DEF Text
<1>4. Append(<<"s">>, "SP") = <<"s", "SP">>
    <2> DEFINE m == Append(<<"s">>, "SP")
    <2>1. m \in Text /\ Len(m) = 2 /\ m[1] = "s" /\ m[2] = "SP"
        BY <1>1, AppendKeeps
    <2> HIDE DEF m
    <2>2. m = <<"s", "SP">>
        BY <2>1, <1>1, TwoCharacters
    <2> QED
        BY <2>2 DEF m
<1>5. Append(<<"s", "SP">>, "x") = <<"s", "SP", "x">>
    <2> DEFINE l == <<"s", "SP">>
               w == <<"s", "SP", "x">>
               m == Append(l, "x")
    <2>1. l \in Text /\ Len(l) = 2 /\ l[1] = "s" /\ l[2] = "SP"
        BY <1>2
    <2>2. w \in Text /\ Len(w) = 3 /\ w[1] = "s" /\ w[2] = "SP" /\ w[3] = "x"
        BY <1>3
    <2> HIDE DEF l, w
    <2>3. m \in Text /\ Len(m) = 3 /\ m[1] = "s" /\ m[2] = "SP" /\ m[3] = "x"
        <3>1. /\ m \in Text /\ Len(m) = Len(l) + 1 /\ m[Len(l) + 1] = "x"
              /\ \A k \in 1..Len(l) : m[k] = l[k]
            BY <1>1, <2>1, AppendKeeps
        <3> HIDE DEF m
        <3>2. m[3] = "x" /\ Len(m) = 3
            BY <3>1, <2>1
        <3>3. m[1] = l[1] /\ m[2] = l[2]
            BY <3>1, <2>1
        <3> QED
            BY <3>1, <3>2, <3>3, <2>1
    <2> HIDE DEF m
    <2>4. \A k \in 1..Len(m) : m[k] = w[k]
        <3>1. \A k \in 1..Len(m) : k = 1 \/ k = 2 \/ k = 3
            BY <2>3
        <3> QED
            BY <3>1, <2>2, <2>3
    <2>5. m = w
        <3>1. m \in Seq(Characters) /\ w \in Seq(Characters) /\ Len(m) = Len(w)
            BY <2>2, <2>3 DEF Text
        <3> HIDE DEF Characters
        <3> QED
            BY ONLY <3>1, <2>4, SeqEqual
    <2> QED
        BY <2>5 DEF m, w, l
<1> QED
    BY <1>4, <1>5

\* A line keeps the words it begins with while it is read on.
LEMMA BeginsWithMoves ==
    ASSUME NEW t \in Text, NEW p \in 1..Len(t), NEW r \in Reader, NEW r2 \in Reader,
           Moves(t, p, r, r2),
           EscapesKnown(t, p, r), QuotesKnown(t, p, r), OutsideContinuation(t, p, r),
           NEW words \in Text, Len(words) > 0, words[Len(words)] = "x",
           NEW e \in 1..(p - 1), WordEnds(t, e),
           BeginsWith(words, e, p, r), unsafeInlineCapability(r.line)
    PROVE  BeginsWith(words, e, p + 1, r2)
<1> DEFINE n == Len(words)
<1>1. /\ Len(t) \in Nat /\ n \in Nat /\ n > 0 /\ r.line \in Text /\ Len(r.line) \in Nat
      /\ t[p] \in Characters /\ "SP" \in Characters
    BY CharacterNames DEF Text, Reader
<1>2. t[p] # "LF"
    BY LineFeedEnds
<1>3. /\ Len(r.line) >= n /\ \A k \in 1..n : r.line[k] = words[k]
      /\ Len(r.line) > n => r.line[n + 1] = "SP"
      /\ Len(r.line) = n => r.comment \/ (p = e + 1 /\ AtRest(r))
    BY DEF BeginsWith
<1> HIDE DEF n
<1>4. CASE r.comment
    <2>1. r2 = r
        BY <1>2, <1>4, LineGrows
    <2> QED
        BY <2>1, <1>3, <1>4 DEF BeginsWith, n
<1>5. ASSUME NEW c \in Characters, r2.line = Append(r.line, c), Len(r.line) = n => c = "SP"
      PROVE  BeginsWith(words, e, p + 1, r2)
    <2>1. /\ Len(r2.line) = Len(r.line) + 1 /\ r2.line[Len(r.line) + 1] = c
          /\ \A k \in 1..Len(r.line) : r2.line[k] = r.line[k]
        BY <1>1, <1>5, AppendKeeps
    <2>2. \A k \in 1..n : r2.line[k] = words[k]
        BY <2>1, <1>1, <1>3
    <2>3. r2.line[n + 1] = "SP"
        <3>1. CASE Len(r.line) = n
            BY <3>1, <2>1, <1>5
        <3>2. CASE Len(r.line) # n
            <4>1. n + 1 \in 1..Len(r.line) /\ Len(r.line) > n
                BY <3>2, <1>1, <1>3
            <4>2. r.line[n + 1] = "SP"
                BY <4>1, <1>3
            <4>3. r2.line[n + 1] = r.line[n + 1]
                BY <4>1, <2>1
            <4> QED
                BY <4>2, <4>3
        <3> QED
            BY <3>1, <3>2
    <2>4. Len(r2.line) > n
        BY <2>1, <1>1, <1>3
    <2> QED
        BY <2>2, <2>3, <2>4, <1>1 DEF BeginsWith, n
<1>6. CASE ~ r.comment /\ Len(r.line) = n
    <2>1. p = e + 1 /\ AtRest(r)
        BY <1>3, <1>6
    <2>2. t[p] \in {"SP", "CR", "hash"}
        <3>1. e # Len(t) /\ e + 1 = p
            BY <2>1, <1>1
        <3> QED
            BY <3>1, <1>2 DEF WordEnds
    <2>3. CASE t[p] \in {"SP", "CR"}
        <3>1. r2.line = appendNormalizedSpace(r.line)
            BY <2>1, <2>3, RestBlank
        <3>2. Last(r.line) # "SP" /\ r.line # <<>>
            <4>1. r.line[n] = "x"
                BY <1>1, <1>3, <1>6 DEF n
            <4> QED
                BY <4>1, <1>1, <1>6 DEF Last, Text
        <3>3. r2.line = Append(r.line, "SP")
            BY <3>1, <3>2 DEF appendNormalizedSpace
        <3> QED
            BY <3>3, <1>1, <1>5
    <2>4. CASE t[p] = "hash"
        <3>1. Comments(t, p, r, r2)
            BY <2>1, <2>4 DEF Moves, Skips, Ends, Takes, Blanks, AtRest, SameFlags
        <3>2. r2.line = r.line /\ r2.comment
            BY <3>1 DEF Comments, Reader, SameFlags
        <3> QED
            BY <3>2, <1>3 DEF BeginsWith, n
    <2> QED
        BY <2>2, <2>3, <2>4
<1>7. CASE ~ r.comment /\ Len(r.line) # n
    <2>1. \/ r2.line = r.line
          \/ r2.line = Append(r.line, t[p])
          \/ r2.line = Append(r.line, "SP")
        BY <1>2, LineGrows
    <2>2. CASE r2.line = r.line
        BY <2>2, <1>1, <1>3, <1>7 DEF BeginsWith, n
    <2> QED
        BY <2>1, <2>2, <1>1, <1>5, <1>7
<1> QED
    BY <1>4, <1>6, <1>7

\* White space up to a position is white space up to the one before.
LEMMA BlankSteps ==
    ASSUME NEW t \in Text, NEW p \in 1..Len(t), NEW i \in 1..p, Blank(t, i, p + 1)
    PROVE  t[p] \in {"SP", "CR"} /\ (i = p \/ Blank(t, i, p))
<1>1. Len(t) \in Nat /\ p \in i..(p + 1 - 1)
    BY DEF Text
<1>2. \A k \in i..(p - 1) : k \in i..(p + 1 - 1)
    BY <1>1
<1> QED
    BY <1>1, <1>2 DEF Blank

LEMMA StartsEmptyMoves ==
    ASSUME NEW t \in Text, NEW p \in 1..Len(t), NEW r \in Reader, NEW r2 \in Reader,
           Moves(t, p, r, r2),
           EscapesKnown(t, p, r), QuotesKnown(t, p, r), OutsideContinuation(t, p, r),
           StartsEmpty(t, p, r)
    PROVE  StartsEmpty(t, p + 1, r2)
<1>1. Len(t) \in Nat
    BY DEF Text
<1> SUFFICES ASSUME NEW j \in 1..(p + 1), Begins(t, j, p + 1)
             PROVE  AtRest(r2) /\ r2.line = <<>>
    BY DEF StartsEmpty
<1>2. CASE j = p + 1
    <2>1. t[p] = "LF"
        BY <1>1, <1>2 DEF Begins, Fresh
    <2> QED
        BY <2>1, LineFeedEnds
<1>3. CASE j # p + 1
    <2>1. j \in 1..p /\ Blank(t, j, p + 1) /\ Fresh(t, j)
        BY <1>1, <1>3 DEF Begins
    <2>2. t[p] \in {"SP", "CR"} /\ (j = p \/ Blank(t, j, p))
        BY <2>1, BlankSteps
    <2>3. AtRest(r) /\ r.line = <<>>
        BY <2>1, <2>2 DEF StartsEmpty, Begins
    <2> QED
        BY <2>2, <2>3, RestBlank DEF appendNormalizedSpace
<1> QED
    BY <1>2, <1>3

LEMMA WordKeptMoves ==
    ASSUME NEW t \in Text, NEW p \in 1..Len(t), NEW r \in Reader, NEW r2 \in Reader,
           Moves(t, p, r, r2),
           EscapesKnown(t, p, r), QuotesKnown(t, p, r), OutsideContinuation(t, p, r),
           StartsEmpty(t, p, r), WordKept(t, p, r)
    PROVE  WordKept(t, p + 1, r2)
<1>1. Len(t) \in Nat /\ p + 1 - 1 = p /\ r.line \in Text
    BY DEF Text, Reader
<1> DEFINE words == <<"x">>
<1>2. words \in Text /\ Len(words) = 1 /\ words[1] = "x"
    BY CharacterNames DEF Text
<1> SUFFICES ASSUME NEW j \in 1..p, NEW i \in 1..p,
                    j <= i, Begins(t, j, i), t[i] = "x", WordEnds(t, i)
             PROVE  BeginsWith(words, i, p + 1, r2)
    BY <1>1 DEF WordKept
<1>3. CASE i = p
    <2>1. AtRest(r) /\ r.line = <<>>
        BY <1>3 DEF StartsEmpty
    <2>2. AtRest(r2) /\ r2.line = Append(<<>>, "x")
        BY <2>1, <1>3, RestLetter DEF Letters
    <2>3. Append(<<>>, "x") = <<"x">>
        OBVIOUS
    <2>4. r2.line = words
        BY <2>2, <2>3
    <2> HIDE DEF words
    <2> QED
        BY <2>2, <2>4, <1>2, <1>3 DEF BeginsWith
<1>4. CASE i # p
    <2>1. i \in 1..(p - 1) /\ j \in 1..(p - 1)
        BY <1>1, <1>4
    <2>2. BeginsWith(words, i, p, r)
        BY <2>1 DEF WordKept
    <2>3. unsafeInlineCapability(r.line)
        BY <2>2, <1>1, WordsX, WordIsDenied
    <2> HIDE DEF words
    <2>4. Len(words) > 0 /\ words[Len(words)] = "x"
        BY <1>2
    <2> QED
        BY <2>1, <2>2, <2>3, <2>4, <1>2, BeginsWithMoves
<1> QED
    BY <1>3, <1>4

LEMMA FirstWordKeptMoves ==
    ASSUME NEW t \in Text, NEW p \in 1..Len(t), NEW r \in Reader, NEW r2 \in Reader,
           Moves(t, p, r, r2),
           StartsEmpty(t, p, r), FirstWordKept(t, p, r)
    PROVE  FirstWordKept(t, p + 1, r2)
<1>1. Len(t) \in Nat /\ p + 1 - 1 = p
    BY DEF Text
<1> SUFFICES ASSUME NEW j \in 1..p, NEW i \in 1..p, j <= i, Begins(t, j, i), t[i] = "s",
                    p + 1 = i + 1 \/ Blank(t, i + 1, p + 1)
             PROVE  /\ AtRest(r2)
                    /\ r2.line = IF p + 1 = i + 1 THEN <<"s">> ELSE <<"s", "SP">>
    BY <1>1 DEF FirstWordKept
<1>2. CASE i = p
    <2>1. AtRest(r) /\ r.line = <<>>
        BY <1>2 DEF StartsEmpty
    <2>2. AtRest(r2) /\ r2.line = Append(<<>>, "s")
        BY <2>1, <1>2, RestLetter DEF Letters
    <2>3. Append(<<>>, "s") = <<"s">>
        OBVIOUS
    <2> QED
        BY <2>2, <2>3, <1>2
<1>3. CASE i # p
    <2>1. i \in 1..(p - 1) /\ j \in 1..(p - 1) /\ i + 1 \in 1..p /\ p + 1 # i + 1
        BY <1>1, <1>3
    <2>2. t[p] \in {"SP", "CR"} /\ (i + 1 = p \/ Blank(t, i + 1, p))
        BY <2>1, BlankSteps
    <2>3. AtRest(r) /\ r.line = IF p = i + 1 THEN <<"s">> ELSE <<"s", "SP">>
        BY <2>1, <2>2 DEF FirstWordKept
    <2>4. AtRest(r2) /\ r2.line = appendNormalizedSpace(r.line)
        BY <2>2, <2>3, RestBlank
    <2>5. /\ appendNormalizedSpace(<<"s">>) = <<"s", "SP">>
          /\ appendNormalizedSpace(<<"s", "SP">>) = <<"s", "SP">>
        <3>1. /\ <<"s">> # <<>> /\ Len(<<"s">>) = 1 /\ <<"s">>[1] # "SP"
              /\ Append(<<"s">>, "SP") = <<"s", "SP">>
            BY WordsGrow
        <3>2. Len(<<"s", "SP">>) = 2 /\ <<"s", "SP">>[2] = "SP"
            OBVIOUS
        <3> QED
            BY <3>1, <3>2 DEF appendNormalizedSpace, Last
    <2> QED
        BY <2>1, <2>3, <2>4, <2>5
<1> QED
    BY <1>2, <1>3

LEMMA WordsKeptMoves ==
    ASSUME NEW t \in Text, NEW p \in 1..Len(t), NEW r \in Reader, NEW r2 \in Reader,
           Moves(t, p, r, r2),
           EscapesKnown(t, p, r), QuotesKnown(t, p, r), OutsideContinuation(t, p, r),
           FirstWordKept(t, p, r), WordsKept(t, p, r)
    PROVE  WordsKept(t, p + 1, r2)
<1> DEFINE words == <<"s", "SP", "x">>
<1>1. Len(t) \in Nat /\ p + 1 - 1 = p /\ r.line \in Text
    BY DEF Text, Reader
<1>2. words \in Text /\ Len(words) = 3 /\ words[3] = "x"
    BY CharacterNames DEF Text
<1> SUFFICES ASSUME NEW j \in 1..p, NEW i \in 1..p, NEW k \in 1..p,
                    j <= i, i + 2 <= k, Begins(t, j, i), t[i] = "s", Blank(t, i + 1, k),
                    t[k] = "x", WordEnds(t, k)
             PROVE  BeginsWith(words, k, p + 1, r2)
    BY <1>1 DEF WordsKept
<1>3. i \in 1..(p - 1) /\ j \in 1..(p - 1) /\ k # i + 1
    BY <1>1
<1>4. CASE k = p
    <2>1. AtRest(r) /\ r.line = <<"s", "SP">>
        BY <1>3, <1>4 DEF FirstWordKept
    <2>2. AtRest(r2) /\ r2.line = Append(<<"s", "SP">>, "x")
        <3>1. t[p] = "x" /\ t[p] \in Letters
            BY <1>4 DEF Letters
        <3>2. AtRest(r2) /\ r2.line = Append(r.line, t[p])
            BY <2>1, <3>1, RestLetter
        <3> QED
            BY <2>1, <3>1, <3>2
    <2>3. r2.line = words
        <3>1. Append(<<"s", "SP">>, "x") = <<"s", "SP", "x">>
            BY WordsGrow
        <3> QED
            BY <3>1, <2>2
    <2> HIDE DEF words
    <2> QED
        BY <2>2, <2>3, <1>2, <1>4 DEF BeginsWith
<1>5. CASE k # p
    <2>1. k \in 1..(p - 1)
        BY <1>1, <1>5
    <2>2. BeginsWith(words, k, p, r)
        BY <2>1, <1>3 DEF WordsKept
    <2>3. unsafeInlineCapability(r.line)
        BY <2>2, <1>1, WordsSpaceX, WordsAreDenied
    <2> HIDE DEF words
    <2>4. Len(words) > 0 /\ words[Len(words)] = "x"
        BY <1>2
    <2> QED
        BY <2>1, <2>2, <2>3, <2>4, <1>2, BeginsWithMoves
<1> QED
    BY <1>4, <1>5

-----------------------------------------------------------------------------
(* Comment lines *)

LEMMA CommentsSkippedMoves ==
    ASSUME NEW t \in Text, NEW p \in 1..Len(t), NEW r \in Reader, NEW r2 \in Reader,
           Moves(t, p, r, r2),
           EscapesKnown(t, p, r), QuotesKnown(t, p, r), OutsideContinuation(t, p, r),
           StartsEmpty(t, p, r), CommentsSkipped(t, p, r)
    PROVE  CommentsSkipped(t, p + 1, r2)
<1>1. /\ Len(t) \in Nat /\ p + 1 - 1 = p /\ r.line \in Text /\ Len(r.line) \in Nat
      /\ t[p] \in Characters /\ "SP" \in Characters
    BY CharacterNames DEF Text, Reader
<1>2. ASSUME NEW h \in 1..p, FirstHash(t, h), SameLine(t, h, p + 1)
      PROVE  r2.comment
    <2>1. t[p] # "LF" /\ SameLine(t, h, p)
        BY <1>1, <1>2 DEF SameLine
    <2>2. CASE h = p
        <3> DEFINE j == LineStart(t, p)
        <3>1. j \in 1..p /\ StartOf(t, j, p)
            BY <1>1, LineStarts
        <3>2. Begins(t, j, p)
            <4>1. Fresh(t, j)
                BY <3>1, <2>2, <1>2 DEF Fresh, StartOf, FirstHash
            <4>2. j = p \/ Blank(t, j, p)
                BY <3>1, <2>2, <1>2 DEF Blank, FirstHash, isHorizontalWhitespace
            <4> QED
                BY <4>1, <4>2 DEF Begins
        <3> HIDE DEF j
        <3>3. AtRest(r) /\ t[p] = "hash"
            BY <3>1, <3>2, <2>2, <1>2 DEF StartsEmpty, FirstHash
        <3>4. Comments(t, p, r, r2)
            BY <3>3 DEF Moves, Skips, Ends, Takes, Blanks, AtRest, SameFlags
        <3> QED
            BY <3>4 DEF Comments, Reader, SameFlags
    <2>3. CASE h # p
        <3>1. h \in 1..(p - 1)
            BY <1>1, <2>3
        <3>2. r.comment
            BY <3>1, <2>1, <1>2 DEF CommentsSkipped
        <3> QED
            BY <3>2, <2>1, LineGrows
    <2> QED
        BY <2>2, <2>3
<1>3. ASSUME NEW k \in 1..Len(r2.line), r2.line[k] = "x"
      PROVE  \E i \in 1..p : t[i] = "x" /\ ~ IsCommentLine(t, i)
    <2>1. t[p] # "LF"
        <3>1. ~ (k \in 1..Len(<<>>))
            BY <1>1
        <3> QED
            BY <3>1, LineFeedEnds
    <2>2. CASE \E m \in 1..Len(r.line) : r.line[m] = "x"
        <3>1. PICK i \in 1..(p - 1) : t[i] = "x" /\ ~ IsCommentLine(t, i)
            BY <2>2 DEF CommentsSkipped
        <3>2. i \in 1..p
            BY <1>1
        <3> QED
            BY <3>1, <3>2
    <2>3. CASE ~ \E m \in 1..Len(r.line) : r.line[m] = "x"
        <3>1. \/ r2.line = r.line
              \/ r2.line = Append(r.line, t[p]) /\ ~ r2.comment
              \/ r2.line = Append(r.line, "SP")
            BY <2>1, LineGrows
        <3>2. r2.line # r.line
            BY <2>3, <1>3
        <3>3. r2.line # Append(r.line, "SP")
            <4> SUFFICES ASSUME r2.line = Append(r.line, "SP") PROVE FALSE
                OBVIOUS
            <4>1. /\ Len(r2.line) = Len(r.line) + 1 /\ r2.line[Len(r.line) + 1] = "SP"
                  /\ \A m \in 1..Len(r.line) : r2.line[m] = r.line[m]
                BY <1>1, AppendKeeps
            <4>2. k # Len(r.line) + 1
                BY <4>1, <1>3
            <4>3. k \in 1..Len(r.line)
                BY <4>1, <4>2, <1>1
            <4> QED
                BY <4>1, <4>3, <2>3, <1>3
        <3>4. t[p] = "x" /\ ~ r2.comment
            <4>1. r2.line = Append(r.line, t[p]) /\ ~ r2.comment
                BY <3>1, <3>2, <3>3
            <4>2. /\ Len(r2.line) = Len(r.line) + 1 /\ r2.line[Len(r.line) + 1] = t[p]
                  /\ \A m \in 1..Len(r.line) : r2.line[m] = r.line[m]
                BY <4>1, <1>1, AppendKeeps
            <4>3. ~ (k \in 1..Len(r.line))
                BY <4>2, <2>3, <1>3
            <4>4. k = Len(r.line) + 1
                BY <4>2, <4>3, <1>1
            <4> QED
                BY <4>1, <4>2, <4>4, <1>3
        <3>5. ~ r.comment
            BY <3>4, <2>1, LineGrows
        <3>6. ~ IsCommentLine(t, p)
            BY <3>5 DEF CommentsSkipped, IsCommentLine, FirstHash
        <3>7. p \in 1..p
            BY <1>1
        <3> QED
            BY <3>4, <3>6, <3>7
    <2> QED
        BY <2>2, <2>3
<1> QED
    BY <1>1, <1>2, <1>3 DEF CommentsSkipped

-----------------------------------------------------------------------------
(* Continuations *)

\* A continuation ends its physical line, and the next one carries on.
LEMMA ContinuedFacts ==
    ASSUME NEW t \in Text, NEW p \in 1..Len(t), NEW q, Continued(t, p, q)
    PROVE  /\ q \in 1..(Len(t) + 1) /\ p < q - 1 /\ q - 1 \in 1..Len(t)
           /\ t[q - 1] = "LF" /\ Continues(t, q) /\ LineStart(t, q) = q
           /\ Unescaped(t, q)
           /\ q <= p + 3
           /\ \A k \in p..(q - 1) : t[k] \in {"backslash", "CR", "LF"}
           /\ \A h \in 1..(q - 1) : ~ SameLine(t, h, q) /\ ~ Blank(t, h, q)
<1>1. Len(t) \in Nat
    BY DEF Text
<1>2. /\ q \in 1..(Len(t) + 1) /\ p < q - 1 /\ q - 1 \in 1..Len(t) /\ q - 1 + 1 = q
      /\ t[q - 1] = "LF" /\ q <= p + 3
    BY <1>1 DEF Continued
<1>3. Continues(t, q)
    BY <1>1 DEF Continued, Continues
<1>4. LineStart(t, q) = q
    BY <1>2, LineStartSteps
<1>5. Unescaped(t, q)
    BY <1>2, EscapeSteps
<1>6. \A k \in p..(q - 1) : t[k] \in {"backslash", "CR", "LF"}
    <2>1. CASE q = p + 2
        <3>1. \A k \in p..(q - 1) : k = p \/ k = p + 1
            BY <1>1, <2>1
        <3> QED
            BY <3>1, <2>1, <1>1 DEF Continued
    <2>2. CASE q = p + 3
        <3>1. \A k \in p..(q - 1) : k = p \/ k = p + 1 \/ k = p + 2
            BY <1>1, <2>2
        <3> QED
            BY <3>1, <2>2, <1>1 DEF Continued
    <2> QED
        BY <2>1, <2>2 DEF Continued
<1>7. ASSUME NEW h \in 1..(q - 1) PROVE ~ SameLine(t, h, q) /\ ~ Blank(t, h, q)
    <2>1. q - 1 \in h..(q - 1)
        BY <1>2
    <2> QED
        BY <2>1, <1>2 DEF SameLine, Blank
<1> QED
    BY <1>2, <1>3, <1>4, <1>5, <1>6, <1>7

\* What is joined to the end of a continuation is joined to its beginning.
LEMMA JoinedContinued ==
    ASSUME NEW t \in Text, NEW p \in 1..Len(t), NEW q, Continued(t, p, q),
           NEW i \in 1..(p - 1), Joined(t, i, q)
    PROVE  Joined(t, i, p)
<1>1. Len(t) \in Nat /\ t[p] = "backslash" /\ q \in Nat /\ p < q
    BY ContinuedFacts DEF Text, Continued
<1> SUFFICES ASSUME NEW k \in (i + 1)..(p - 1)
             PROVE  \/ t[k] = "backslash" /\ k + 1 < p
                         /\ \/ t[k + 1] = "LF"
                            \/ t[k + 1] = "CR" /\ k + 2 < p /\ t[k + 2] = "LF"
                    \/ t[k] = "CR" /\ k > i + 1 /\ t[k - 1] = "backslash"
                    \/ t[k] = "LF" /\ k > i + 1 /\ t[k - 1] = "backslash"
                    \/ t[k] = "LF" /\ k > i + 2 /\ t[k - 1] = "CR" /\ t[k - 2] = "backslash"
    BY DEF Joined
<1>2. k \in (i + 1)..(q - 1)
    BY <1>1
<1>3. \/ t[k] = "backslash" /\ k + 1 < q
           /\ \/ t[k + 1] = "LF"
              \/ t[k + 1] = "CR" /\ k + 2 < q /\ t[k + 2] = "LF"
      \/ t[k] = "CR" /\ k > i + 1 /\ t[k - 1] = "backslash"
      \/ t[k] = "LF" /\ k > i + 1 /\ t[k - 1] = "backslash"
      \/ t[k] = "LF" /\ k > i + 2 /\ t[k - 1] = "CR" /\ t[k - 2] = "backslash"
    BY <1>2 DEF Joined
<1>4. k + 1 # p => k + 1 < p
    BY <1>1
<1>5. k + 1 < p /\ k + 2 # p => k + 2 < p
    BY <1>1
<1>6. t[k + 1] = "LF" \/ t[k + 1] = "CR" => k + 1 # p
    BY <1>1
<1>7. t[k + 2] = "LF" => k + 2 # p
    BY <1>1
<1> QED
    BY <1>3, <1>4, <1>5, <1>6, <1>7

LEMMA FragmentsKeptContinued ==
    ASSUME NEW t \in Text, NEW p \in 1..Len(t), NEW q, NEW r \in Reader,
           Continued(t, p, q), FragmentsKept(t, p, r)
    PROVE  FragmentsKept(t, q, r)
<1>1. /\ Len(t) \in Nat /\ q \in Nat /\ p < q - 1
      /\ \A k \in p..(q - 1) : t[k] \in {"backslash", "CR", "LF"}
    BY ContinuedFacts DEF Text
<1>2. ASSUME NEW k \in 1..(q - 1), t[k] \in {"x", "s"} PROVE k \in 1..(p - 1)
    <2>1. ~ (k \in p..(q - 1))
        BY <1>1, <1>2
    <2> QED
        BY <2>1, <1>1
<1>3. ASSUME NEW i \in 1..(q - 1), NEW j \in 1..(q - 1), i < j, Fragment(t, i, j)
      PROVE  HasFragment(r.line)
    <2>1. i \in 1..(p - 1) /\ j \in 1..(p - 1)
        BY <1>2, <1>3 DEF Fragment
    <2> QED
        BY <2>1, <1>3 DEF FragmentsKept
<1>4. ASSUME NEW i \in 1..(q - 1), t[i] = "x", Joined(t, i, q), ~ MayBeCommented(t, i)
      PROVE  Len(r.line) > 0 /\ r.line[Len(r.line)] = "x"
    <2>1. i \in 1..(p - 1)
        BY <1>2, <1>4
    <2>2. Joined(t, i, p)
        BY <2>1, <1>4, JoinedContinued
    <2> QED
        BY <2>1, <2>2, <1>4 DEF FragmentsKept
<1> QED
    BY <1>3, <1>4 DEF FragmentsKept

\* A word read before a continuation is followed by more of its line.
LEMMA BeginsWithContinued ==
    ASSUME NEW t \in Text, NEW p \in 1..Len(t), NEW q, NEW r \in Reader,
           Continued(t, p, q), ~ r.comment,
           NEW words, NEW e \in 1..(p - 1), WordEnds(t, e), BeginsWith(words, e, p, r)
    PROVE  BeginsWith(words, e, q, r)
<1>1. Len(t) \in Nat /\ t[p] = "backslash"
    BY DEF Text, Continued
<1>2. p # e + 1
    <2> SUFFICES ASSUME p = e + 1 PROVE FALSE
        OBVIOUS
    <2>1. e # Len(t)
        BY <1>1
    <2> QED
        BY <2>1, <1>1 DEF WordEnds
<1> QED
    BY <1>2 DEF BeginsWith

LEMMA LineContinued ==
    ASSUME NEW t \in Text, NEW p \in 1..Len(t), NEW q, NEW r \in Reader,
           Continued(t, p, q), ~ r.comment, ~ r.escaped, ReadingInv(t, p, r)
    PROVE  ReadingInv(t, q, r)
<1>1. /\ Len(t) \in Nat /\ q \in 1..(Len(t) + 1) /\ p < q - 1 /\ q - 1 \in 1..Len(t)
      /\ t[q - 1] = "LF" /\ Continues(t, q) /\ LineStart(t, q) = q
      /\ Unescaped(t, q)
      /\ \A k \in p..(q - 1) : t[k] \in {"backslash", "CR", "LF"}
      /\ \A h \in 1..(q - 1) : ~ SameLine(t, h, q) /\ ~ Blank(t, h, q)
    BY ContinuedFacts DEF Text
<1>2. ASSUME NEW k \in 1..(q - 1), t[k] \in {"x", "s", "hash"} PROVE k \in 1..(p - 1)
    <2>1. ~ (k \in p..(q - 1))
        BY <1>1, <1>2
    <2> QED
        BY <2>1, <1>1
<1>3. EscapesKnown(t, q, r)
    BY <1>1 DEF EscapesKnown
<1>4. QuotesKnown(t, q, r)
    BY <1>1 DEF QuotesKnown
<1>5. OutsideContinuation(t, q, r)
    BY <1>1 DEF OutsideContinuation
<1>6. FragmentsKept(t, q, r)
    BY FragmentsKeptContinued DEF ReadingInv
<1>7. StartsEmpty(t, q, r)
    <2> SUFFICES ASSUME NEW j \in 1..q, Begins(t, j, q) PROVE FALSE
        BY DEF StartsEmpty
    <2>1. CASE j = q
        BY <2>1, <1>1 DEF Begins, Fresh
    <2>2. CASE j # q
        <3>1. j \in 1..(q - 1)
            BY <2>2, <1>1
        <3> QED
            BY <3>1, <2>2, <1>1 DEF Begins
    <2> QED
        BY <2>1, <2>2
<1>8. WordKept(t, q, r)
    <2> SUFFICES ASSUME NEW j \in 1..(q - 1), NEW i \in 1..(q - 1),
                        j <= i, Begins(t, j, i), t[i] = "x", WordEnds(t, i)
                 PROVE  BeginsWith(<<"x">>, i, q, r)
        BY DEF WordKept
    <2>1. i \in 1..(p - 1) /\ j \in 1..(p - 1)
        BY <1>1, <1>2
    <2>2. BeginsWith(<<"x">>, i, p, r)
        BY <2>1 DEF ReadingInv, WordKept
    <2> QED
        BY <2>1, <2>2, BeginsWithContinued
<1>9. FirstWordKept(t, q, r)
    <2> SUFFICES ASSUME NEW j \in 1..(q - 1), NEW i \in 1..(q - 1), j <= i, Begins(t, j, i),
                        t[i] = "s", q = i + 1 \/ Blank(t, i + 1, q)
                 PROVE  FALSE
        BY DEF FirstWordKept
    <2>1. i \in 1..(p - 1)
        BY <1>2
    <2>2. q # i + 1 /\ i + 1 \in 1..(q - 1)
        BY <2>1, <1>1
    <2> QED
        BY <2>2, <1>1
<1>10. WordsKept(t, q, r)
    <2> DEFINE words == <<"s", "SP", "x">>
    <2> SUFFICES ASSUME NEW j \in 1..(q - 1), NEW i \in 1..(q - 1), NEW k \in 1..(q - 1),
                        j <= i, i + 2 <= k, Begins(t, j, i), t[i] = "s", Blank(t, i + 1, k),
                        t[k] = "x", WordEnds(t, k)
                 PROVE  BeginsWith(words, k, q, r)
        BY DEF WordsKept
    <2>1. k \in 1..(p - 1) /\ i \in 1..(p - 1) /\ j \in 1..(p - 1)
        BY <1>1, <1>2
    <2>2. BeginsWith(words, k, p, r)
        BY <2>1 DEF ReadingInv, WordsKept
    <2> HIDE DEF words
    <2> QED
        BY <2>1, <2>2, BeginsWithContinued
<1>11. CommentsSkipped(t, q, r)
    <2>1. \A h \in 1..(q - 1) : ~ SameLine(t, h, q)
        BY <1>1
    <2>2. ASSUME \E k \in 1..Len(r.line) : r.line[k] = "x"
          PROVE  \E i \in 1..(q - 1) : t[i] = "x" /\ ~ IsCommentLine(t, i)
        <3>1. PICK i \in 1..(p - 1) : t[i] = "x" /\ ~ IsCommentLine(t, i)
            BY <2>2 DEF ReadingInv, CommentsSkipped
        <3>2. i \in 1..(q - 1)
            BY <1>1
        <3> QED
            BY <3>1, <3>2
    <2> QED
        BY <2>1, <2>2 DEF CommentsSkipped
<1> QED
    BY <1>3, <1>4, <1>5, <1>6, <1>7, <1>8, <1>9, <1>10, <1>11 DEF ReadingInv

\* A character read, all parts together.
LEMMA ReadingMoves ==
    ASSUME NEW t \in Text, NEW p \in 1..Len(t), NEW r \in Reader, NEW r2 \in Reader,
           Moves(t, p, r, r2), ReadingInv(t, p, r)
    PROVE  ReadingInv(t, p + 1, r2)
<1>1. /\ EscapesKnown(t, p, r) /\ QuotesKnown(t, p, r) /\ OutsideContinuation(t, p, r)
      /\ FragmentsKept(t, p, r)
      /\ StartsEmpty(t, p, r) /\ WordKept(t, p, r)
      /\ FirstWordKept(t, p, r) /\ WordsKept(t, p, r)
      /\ CommentsSkipped(t, p, r)
    BY DEF ReadingInv
<1>2. EscapesKnown(t, p + 1, r2)
    BY <1>1, EscapesKnownMoves
<1>3. QuotesKnown(t, p + 1, r2)
    BY <1>1, QuotesKnownMoves
<1>4. OutsideContinuation(t, p + 1, r2)
    BY <1>1, OutsideContinuationMoves
<1>5. FragmentsKept(t, p + 1, r2)
    BY <1>1, FragmentsKeptMoves
<1>6. StartsEmpty(t, p + 1, r2)
    BY <1>1, StartsEmptyMoves
<1>7. WordKept(t, p + 1, r2)
    BY <1>1, WordKeptMoves
<1>8. FirstWordKept(t, p + 1, r2)
    BY <1>1, FirstWordKeptMoves
<1>9. WordsKept(t, p + 1, r2)
    BY <1>1, WordsKeptMoves
<1>10. CommentsSkipped(t, p + 1, r2)
    BY <1>1, CommentsSkippedMoves
<1> QED
    BY <1>2, <1>3, <1>4, <1>5, <1>6, <1>7, <1>8, <1>9, <1>10 DEF ReadingInv

\* Before the first character of a source.
NewReader == [line |-> <<>>, quote |-> "none", escaped |-> FALSE, comment |-> FALSE]

LEMMA ReadingStarts ==
    ASSUME NEW t \in Text, Len(t) > 0
    PROVE  NewReader \in Reader /\ ReadingInv(t, 1, NewReader)
<1>1. Len(t) \in Nat /\ 1 \in 1..(Len(t) + 1) /\ 1..(1 - 1) = {}
    BY DEF Text
<1>2. NewReader \in Reader /\ AtRest(NewReader) /\ NewReader.line = <<>>
    BY DEF NewReader, Reader, Text, AtRest
<1>3. Unescaped(t, 1)
    BY <1>1 DEF Unescaped
<1>4. LineStart(t, 1) = 1 /\ QuotesTold(t, 1, 1, "none")
    <2>1. LineStart(t, 1) \in 1..1
        BY <1>1, LineStarts
    <2> QED
        BY <2>1, <1>1, NoQuotesYet
<1>5. EscapesKnown(t, 1, NewReader)
    BY <1>2, <1>3 DEF EscapesKnown, AtRest
<1>6. QuotesKnown(t, 1, NewReader)
    BY <1>2, <1>4 DEF QuotesKnown, AtRest
<1>7. OutsideContinuation(t, 1, NewReader)
    BY <1>2 DEF OutsideContinuation, AtRest
<1>8. FragmentsKept(t, 1, NewReader)
    BY <1>1 DEF FragmentsKept
<1>9. StartsEmpty(t, 1, NewReader)
    BY <1>2 DEF StartsEmpty
<1>10. /\ WordKept(t, 1, NewReader) /\ FirstWordKept(t, 1, NewReader)
       /\ WordsKept(t, 1, NewReader)
    BY <1>1 DEF WordKept, FirstWordKept, WordsKept
<1>11. CommentsSkipped(t, 1, NewReader)
    <2>1. 1..Len(<<>>) = {}
        OBVIOUS
    <2> QED
        BY <2>1, <1>1, <1>2 DEF CommentsSkipped
<1> QED
    BY <1>2, <1>5, <1>6, <1>7, <1>8, <1>9, <1>10, <1>11 DEF ReadingInv

-----------------------------------------------------------------------------
(* The states of the check *)

LEMMA TextsAreTexts ==
    ASSUME NEW text \in Texts
    PROVE  text \in Text /\ Len(text) > 0 /\ Len(text) <= MaxLength
<1>1. PICK m \in 0..MaxLength : text \in [1..m -> Characters]
    BY DEF Texts, SeqOf
<1>2. text \in Text /\ Len(text) = m
    BY <1>1, LengthAssumption DEF Text
<1>3. text # <<>>
    BY DEF Texts
<1> QED
    BY <1>2, <1>3, LengthAssumption DEF Text

\* The line that a step appends to stays shorter than what has been read.
LEMMA LineTyped ==
    ASSUME LexerTyped, Reading
    PROVE  /\ index + 1 <= Len(contents) + 1 /\ index \in 1..Len(contents) /\ Len(contents) \in Nat
           /\ Character \in Characters
           /\ Append(line, Character) \in Text /\ Len(Append(line, Character)) < index + 1
           /\ appendNormalizedSpace(line) \in Text /\ Len(appendNormalizedSpace(line)) < index + 1
           /\ <<>> \in Text /\ Len(<<>>) < index + 1
           /\ Len(line) \in Nat
<1>1. index \in 1..Len(contents) /\ Len(contents) \in Nat /\ Len(line) \in Nat
    BY DEF LexerTyped, Reading, Text
<1>2. Character \in Characters /\ "SP" \in Characters
    BY <1>1, CharacterNames DEF Character, LexerTyped, Text
<1>3. /\ Append(line, Character) \in Text /\ Len(Append(line, Character)) = Len(line) + 1
      /\ Append(line, "SP") \in Text /\ Len(Append(line, "SP")) = Len(line) + 1
    BY <1>2, AppendKeeps DEF LexerTyped
<1>4. <<>> \in Text /\ Len(<<>>) = 0
    BY DEF Text
<1> QED
    BY <1>1, <1>2, <1>3, <1>4 DEF LexerTyped, appendNormalizedSpace

LEMMA FlagsSteps ==
    ASSUME FlagsTyped, [Next]_vars
    PROVE  FlagsTyped'
<1>1. CASE InlineSource \/ NextSource
    BY <1>1 DEF InlineSource, NextSource, Begin, FlagsTyped
<1>2. CASE FileSource \/ InvalidSource \/ Accept \/ EndSource
    BY <1>2 DEF FileSource, InvalidSource, Accept, EndSource, lexer, FlagsTyped
<1>3. CASE ReadComment
    BY <1>3 DEF ReadComment, FlagsTyped
<1>4. CASE ReadEscaped \/ ReadContinuation \/ ReadEscape
    BY <1>4 DEF ReadEscaped, ReadContinuation, ReadEscape, FlagsTyped
<1>5. CASE ReadQuoted \/ OpenQuote \/ OpenComment
    BY <1>5 DEF ReadQuoted, OpenQuote, OpenComment, FlagsTyped
<1>6. CASE EndLine \/ ReadBlank \/ ReadOther
    BY <1>6 DEF EndLine, ReadBlank, ReadOther, FlagsTyped
<1>7. CASE UNCHANGED vars
    BY <1>7 DEF vars, FlagsTyped
<1> QED
    BY <1>1, <1>2, <1>3, <1>4, <1>5, <1>6, <1>7 DEF Next

LEMMA TypedSteps ==
    ASSUME LexerTyped, [Next]_vars
    PROVE  LexerTyped'
<1> USE DEF Rejections
<1>1. FlagsTyped'
    BY FlagsSteps DEF LexerTyped
<1>2. <<>> \in Text /\ Len(<<>>) = 0
    BY DEF Text
<1>3. CASE InlineSource
    <2>1. PICK text \in Texts :
            /\ Begin(text)
            /\ IF Len(text) > MaxTotalInlineRuleBytes - total
               THEN verdict' = "oversized" /\ UNCHANGED total
               ELSE verdict' = "reading" /\ total' = total + Len(text)
        BY <1>3 DEF InlineSource
    <2>2. text \in Text /\ Len(text) <= MaxLength /\ Len(text) \in Nat
        BY TextsAreTexts DEF Text
    <2>3. total' \in Nat /\ total' <= MaxTotalInlineRuleBytes
        BY <2>1, <2>2, LimitAssumption DEF LexerTyped
    <2>4. verdict' \in {"oversized", "reading"}
        BY <2>1
    <2>5. contents' = text /\ index' = 1 /\ line' = <<>>
        BY <2>1 DEF Begin
    <2> QED
        BY <2>2, <2>3, <2>4, <2>5, <1>1, <1>2 DEF LexerTyped
<1>4. CASE FileSource \/ InvalidSource \/ Accept
    <2>1. verdict' \in {"checked", "invalid", "accepted"}
        BY <1>4 DEF FileSource, InvalidSource, Accept
    <2>2. total' = total /\ contents' = contents /\ index' = index /\ line' = line
        BY <1>4 DEF FileSource, InvalidSource, Accept, lexer
    <2> QED
        BY <2>1, <2>2, <1>1 DEF LexerTyped
<1>5. CASE NextSource
    <2>1. contents' = <<>> /\ line' = <<>> /\ index' = 1 /\ verdict' = "next" /\ total' = total
        BY <1>5 DEF NextSource, Begin
    <2>2. Len(contents') = 0 /\ Len(line') = 0 /\ contents' \in Text /\ line' \in Text
        BY <2>1, <1>2
    <2> QED
        BY <2>1, <2>2, <1>1, LengthAssumption DEF LexerTyped
\* What the actions that read have in common.
<1>6. ASSUME Reading, contents' = contents, total' = total,
             NEW n \in Nat, 0 < n, index' = index + n, index + n <= Len(contents) + 1,
             verdict' \in {verdict, "denied", "unterminated"},
             line' \in {line, <<>>, Append(line, Character), appendNormalizedSpace(line)}
      PROVE  LexerTyped'
    <2>1. line' \in Text /\ Len(line') < index + 1 /\ Len(line') \in Nat
        <3> DEFINE Lines == {line, <<>>, Append(line, Character), appendNormalizedSpace(line)}
        <3>1. line \in Text /\ Len(line) < index + 1 /\ Len(line) \in Nat
            BY <1>6, LineTyped DEF LexerTyped
        <3>2. \A l \in Lines : l \in Text /\ Len(l) < index + 1
            BY <1>6, <3>1, LineTyped
        <3> HIDE DEF Lines
        <3>3. line' \in Text /\ Len(line') < index + 1
            BY <1>6, <3>2 DEF Lines
        <3> QED
            BY <3>3 DEF Text
    <2>2. Len(line') < index'
        BY <2>1, <1>6 DEF LexerTyped
    <2>3. verdict' \in Rejections \cup {"next", "reading", "checked", "accepted"}
        BY <1>6 DEF LexerTyped
    <2>4. index' \in Nat /\ 1 <= index' /\ index' <= Len(contents') + 1
        BY <1>6 DEF LexerTyped
    <2> QED
        BY <2>1, <2>2, <2>3, <2>4, <1>1, <1>6 DEF LexerTyped
<1>7. CASE \/ ReadComment \/ ReadEscaped \/ ReadEscape \/ ReadQuoted \/ OpenQuote
           \/ OpenComment \/ EndLine \/ ReadBlank \/ ReadOther
    <2>1. Reading /\ Advance(1)
        BY <1>7 DEF ReadComment, ReadEscaped, ReadEscape, ReadQuoted, OpenQuote,
                    OpenComment, EndLine, ReadBlank, ReadOther, Plain
    <2>2. verdict' \in {verdict, "denied", "unterminated"}
        BY <1>7 DEF ReadComment, ReadEscaped, ReadEscape, ReadQuoted, OpenQuote,
                    OpenComment, EndLine, ReadBlank, ReadOther, Keep, CheckLine
    <2>3. line' \in {line, <<>>, Append(line, Character), appendNormalizedSpace(line)}
        BY <1>7 DEF ReadComment, ReadEscaped, ReadEscape, ReadQuoted, OpenQuote,
                    OpenComment, EndLine, ReadBlank, ReadOther, Keep, CheckLine
    <2>4. index + 1 <= Len(contents) + 1
        BY <2>1, LineTyped
    <2> QED
        BY <2>1, <2>2, <2>3, <2>4, <1>6 DEF Advance
<1>8. CASE ReadContinuation
    <2>1. Continuation \in {2, 3} /\ index + Continuation <= Len(contents) + 1
        BY <1>8 DEF ReadContinuation, Continuation, LexerTyped, Text
    <2>2. /\ Reading /\ contents' = contents /\ total' = total /\ index' = index + Continuation
          /\ verdict' = verdict /\ line' = line
        BY <1>8 DEF ReadContinuation, Keep, Advance
    <2> QED
        BY <2>1, <2>2, <1>6
<1>9. CASE EndSource
    <2>1. verdict' \in {"unterminated", "incomplete", "denied", "checked"}
        BY <1>9 DEF EndSource
    <2>2. line' = <<>> /\ total' = total /\ contents' = contents /\ index' = index
        BY <1>9 DEF EndSource
    <2> QED
        BY <2>1, <2>2, <1>1, <1>2 DEF LexerTyped
<1>10. CASE UNCHANGED vars
    BY <1>1, <1>10 DEF vars, LexerTyped
<1> QED
    BY <1>3, <1>4, <1>5, <1>7, <1>8, <1>9, <1>10 DEF Next

-----------------------------------------------------------------------------
(* Reading a source keeps what the line and the flags mean *)

ReadStep ==
    \/ ReadComment \/ ReadEscaped \/ ReadContinuation \/ ReadEscape
    \/ ReadQuoted \/ OpenQuote \/ OpenComment \/ EndLine
    \/ ReadBlank \/ ReadOther

LEMMA ReaderTyped ==
    ASSUME LexerTyped
    PROVE  /\ reader \in Reader
           /\ reader.line = line /\ reader.quote = quote
           /\ reader.escaped = escaped /\ reader.comment = comment
BY DEF LexerTyped, FlagsTyped, reader, Reader

\* Each action that reads one character and goes on is a move of the reader.
LEMMA ActionsMove ==
    ASSUME LexerTyped, LexerTyped', ReadStep, ~ ReadContinuation, verdict' = "reading"
    PROVE  Moves(contents, index, reader, reader')
<1> DEFINE r == reader
           r2 == reader'
           c == contents[index]
<1>1. /\ r \in Reader /\ r2 \in Reader
      /\ r.line = line /\ r.quote = quote /\ r.escaped = escaped /\ r.comment = comment
      /\ r2.line = line' /\ r2.quote = quote' /\ r2.escaped = escaped' /\ r2.comment = comment'
    <2>1. r \in Reader /\ r2 \in Reader
        BY DEF LexerTyped, FlagsTyped, reader, Reader
    <2> QED
        BY <2>1 DEF reader
<1>2. c = Character
    BY DEF Character
<1> HIDE DEF r, r2, c
<1>3. "denied" # "reading" /\ "unterminated" # "reading"
    OBVIOUS
<1>4. CASE ReadComment
    <2>1. CASE c = "LF"
        <3>1. ~ unsafeInlineCapability(line) /\ line' = <<>> /\ ~ comment' /\ comment
            BY <1>2, <1>4, <2>1, <1>3 DEF ReadComment, CheckLine
        <3>2. quote' = quote /\ escaped' = escaped
            BY <1>4 DEF ReadComment
        <3>3. Ends(contents, index, r, r2)
            BY <3>1, <3>2, <2>1, <1>1 DEF Ends, SameFlags, c
        <3> QED
            BY <3>3 DEF Moves, r, r2
    <2>2. CASE c # "LF"
        <3>1. r2 = r /\ comment
            BY <1>2, <1>4, <2>2 DEF ReadComment, reader, r, r2
        <3>2. Skips(contents, index, r, r2)
            BY <3>1, <2>2, <1>1 DEF Skips, c
        <3> QED
            BY <3>2 DEF Moves, r, r2
    <2> QED
        BY <2>1, <2>2
\* What the five actions that append the character have in common.
<1>5. ASSUME ~ comment, ~ comment', line' = Append(line, c),
             escaped \/ (quote # "none" /\ c # "LF") \/ c \notin {"hash", "LF", "SP", "CR"},
             ~ escaped /\ c = "backslash" => Continuation = 0,
             quote' = IF escaped \/ c \notin Quotes THEN quote
                      ELSE IF quote = "none" THEN c
                      ELSE IF quote = c THEN "none" ELSE quote,
             escaped' <=> ~ escaped /\ c = "backslash"
      PROVE  Moves(contents, index, r, r2)
    <2>1. Continuation = 0 => NotContinued(contents, index)
        BY DEF Continuation, NotContinued
    <2>2. Takes(contents, index, r, r2)
        BY <2>1, <1>1, <1>5 DEF Takes, NextQuote, c
    <2> QED
        BY <2>2 DEF Moves
<1>6. CASE ReadEscaped
    <2>1. ~ comment /\ ~ comment' /\ escaped /\ line' = Append(line, c) /\ ~ escaped'
        BY <1>2, <1>6 DEF ReadEscaped, Keep
    <2>2. quote' = quote
        BY <1>6 DEF ReadEscaped
    <2> QED
        BY <2>1, <2>2, <1>5 DEF r, r2
<1>7. CASE ReadEscape
    <2>1. /\ ~ comment /\ ~ comment' /\ ~ escaped /\ c = "backslash" /\ Continuation = 0
          /\ line' = Append(line, c) /\ escaped'
        BY <1>2, <1>7 DEF ReadEscape, Keep
    <2>2. quote' = quote /\ c \notin Quotes
        BY <1>7, <2>1 DEF ReadEscape, Quotes
    <2> QED
        BY <2>1, <2>2, <1>5 DEF r, r2
<1>8. CASE ReadQuoted
    <2>1. /\ ~ comment /\ ~ comment' /\ ~ escaped /\ ~ escaped' /\ c # "backslash" /\ quote # "none"
          /\ line' = Append(line, c) /\ quote' = IF c = quote THEN "none" ELSE quote
        BY <1>2, <1>8 DEF ReadQuoted, Plain
    <2>2. c # "LF" /\ quote \in Quotes
        BY <1>2, <1>3, <1>8, <2>1 DEF ReadQuoted, LexerTyped, FlagsTyped
    <2>3. quote' = IF c \notin Quotes THEN quote ELSE IF quote = c THEN "none" ELSE quote
        BY <2>1, <2>2
    <2> QED
        BY <2>1, <2>2, <2>3, <1>5 DEF r, r2
<1>9. CASE OpenQuote
    <2>1. /\ ~ comment /\ ~ comment' /\ ~ escaped /\ ~ escaped' /\ c \in Quotes /\ quote = "none"
          /\ line' = Append(line, c) /\ quote' = c
        BY <1>2, <1>9 DEF OpenQuote, Plain, Keep
    <2>2. c \notin {"hash", "LF", "SP", "CR", "backslash"}
        BY <2>1 DEF Quotes
    <2> QED
        BY <2>1, <2>2, <1>5 DEF r, r2
<1>10. CASE ReadOther
    <2>1. /\ ~ comment /\ ~ comment' /\ ~ escaped /\ ~ escaped' /\ quote = "none" /\ quote' = "none"
          /\ line' = Append(line, c)
        BY <1>2, <1>10 DEF ReadOther, Plain, Keep
    <2>2. c \notin {"hash", "LF", "SP", "CR", "backslash"} /\ c \notin Quotes
        BY <1>2, <1>10 DEF ReadOther, Plain, isHorizontalWhitespace
    <2> QED
        BY <2>1, <2>2, <1>5 DEF r, r2
<1>11. CASE OpenComment
    <2>1. ~ comment /\ ~ escaped /\ quote = "none" /\ c = "hash" /\ comment' /\ line' = line
        BY <1>2, <1>11 DEF OpenComment, Plain
    <2>2. quote' = quote /\ escaped' = escaped
        BY <1>11 DEF OpenComment
    <2>3. Comments(contents, index, r, r2)
        BY <2>1, <2>2, <1>1 DEF Comments, AtRest, SameFlags, c
    <2> QED
        BY <2>3 DEF Moves, r, r2
<1>12. CASE EndLine
    <2>1. ~ comment /\ ~ comment' /\ ~ escaped /\ quote = "none" /\ c = "LF" /\ line' = <<>>
        BY <1>2, <1>12 DEF EndLine, Plain, CheckLine
    <2>2. ~ unsafeInlineCapability(line)
        BY <1>3, <1>12 DEF EndLine, CheckLine
    <2>3. quote' = quote /\ escaped' = escaped
        BY <1>12 DEF EndLine
    <2>4. Ends(contents, index, r, r2)
        BY <2>1, <2>2, <2>3, <1>1 DEF Ends, AtRest, SameFlags, c
    <2> QED
        BY <2>4 DEF Moves, r, r2
<1>13. CASE ReadBlank
    <2>1. /\ ~ comment /\ ~ comment' /\ ~ escaped /\ quote = "none" /\ c \in {"SP", "CR"}
          /\ line' = appendNormalizedSpace(line)
        BY <1>2, <1>13 DEF ReadBlank, Plain, Keep, isHorizontalWhitespace
    <2>2. quote' = quote /\ escaped' = escaped
        BY <1>13 DEF ReadBlank
    <2>3. Blanks(contents, index, r, r2)
        BY <2>1, <2>2, <1>1 DEF Blanks, AtRest, SameFlags, c
    <2> QED
        BY <2>3 DEF Moves, r, r2
<1> QED
    BY <1>4, <1>6, <1>7, <1>8, <1>9, <1>10, <1>11, <1>12, <1>13 DEF ReadStep

-----------------------------------------------------------------------------
(* What the verdicts mean *)

\* The reader at a step that reads on.
LEMMA ReadsOn ==
    ASSUME LexerTyped, LexerTyped', ReadStep, verdict' = "reading",
           ReadingInv(contents, index, reader)
    PROVE  ReadingInv(contents, index, reader)'
<1>1. reader \in Reader /\ reader' \in Reader
    BY DEF LexerTyped, FlagsTyped, reader, Reader
<1>2. Reading
    BY DEF ReadStep, ReadComment, ReadEscaped, ReadContinuation, ReadEscape, ReadQuoted,
           OpenQuote, OpenComment, EndLine, ReadBlank, ReadOther, Plain
<1>3. contents \in Text /\ index \in 1..Len(contents)
    BY <1>2, LineTyped DEF LexerTyped
<1>4. CASE ReadContinuation
    <2>1. /\ ~ comment /\ ~ escaped /\ contents[index] = "backslash" /\ Continuation > 0
          /\ line' = line /\ quote' = quote /\ escaped' = escaped /\ comment' = comment
          /\ contents' = contents /\ index' = index + Continuation
        BY <1>4 DEF ReadContinuation, Keep, Advance, Character
    <2>2. reader' = reader
        BY <2>1 DEF reader
    <2>3. Continued(contents, index, index')
        <3>1. Len(contents) \in Nat /\ index \in Nat
            BY <1>3 DEF Text
        <3>2. \/ Continuation = 2 /\ index < Len(contents) /\ contents[index + 1] = "LF"
              \/ /\ Continuation = 3 /\ index + 1 < Len(contents)
                 /\ contents[index + 1] = "CR" /\ contents[index + 2] = "LF"
            BY <2>1 DEF Continuation
        <3> QED
            BY <2>1, <3>1, <3>2 DEF Continued
    <2>4. ~ reader.comment /\ ~ reader.escaped
        BY <2>1, ReaderTyped
    <2>5. ReadingInv(contents, index', reader)
        BY <1>1, <1>3, <2>3, <2>4, LineContinued
    <2> QED
        BY <2>1, <2>2, <2>5
<1>5. CASE ~ ReadContinuation
    <2>1. Moves(contents, index, reader, reader')
        BY <1>5, ActionsMove
    <2>2. ReadingInv(contents, index + 1, reader')
        BY <1>1, <1>3, <2>1, ReadingMoves
    <2>3. contents' = contents /\ index' = index + 1
        BY <1>5 DEF ReadStep, ReadComment, ReadEscaped, ReadEscape, ReadQuoted,
                    OpenQuote, OpenComment, EndLine, ReadBlank, ReadOther, Advance
    <2> QED
        BY <2>2, <2>3
<1> QED
    BY <1>4, <1>5

\* A denied line has an x that is in no comment line.
LEMMA DeniedIsExplained ==
    ASSUME LexerTyped, ReadingInv(contents, index, reader), unsafeInlineCapability(line)
    PROVE  \E i \in DOMAIN contents : contents[i] = "x" /\ ~ IsCommentLine(contents, i)
<1>1. contents \in Text /\ Len(contents) \in Nat /\ DOMAIN contents = 1..Len(contents)
    BY DEF LexerTyped, Text
<1>2. \E k \in 1..Len(line) : line[k] = "x"
    BY DeniedHoldsX DEF LexerTyped
<1>3. PICK i \in 1..(index - 1) : contents[i] = "x" /\ ~ IsCommentLine(contents, i)
    BY <1>2, ReaderTyped DEF ReadingInv, CommentsSkipped
<1>4. i \in DOMAIN contents
    BY <1>1 DEF LexerTyped
<1> QED
    BY <1>3, <1>4

\* A source that is read to its end with nothing left open and a last line that
\* is not denied has neither fragments nor directives.
LEMMA CheckedIsClean ==
    ASSUME LexerTyped, ReadingInv(contents, index, reader), index > Len(contents),
           quote = "none", ~ escaped, ~ unsafeInlineCapability(line)
    PROVE  /\ \A i, j \in DOMAIN contents :
                (/\ i < j /\ contents[i] = "x" /\ contents[j] = "s" /\ Joined(contents, i, j))
                => MayBeCommented(contents, i) \/ MayBeCommented(contents, j)
           /\ \A j \in DOMAIN contents :
                (j = 1 \/ contents[j - 1] = "LF") /\ DeniedDirective(contents, j)
                => Continues(contents, j)
<1>1. contents \in Text /\ Len(contents) \in Nat /\ DOMAIN contents = 1..(index - 1)
    BY DEF LexerTyped, Text
<1>2. reader \in Reader /\ reader.line = line /\ line \in Text
    BY ReaderTyped DEF LexerTyped
<1>3. ASSUME NEW i \in DOMAIN contents, NEW j \in DOMAIN contents, i < j, Fragment(contents, i, j)
      PROVE  FALSE
    <2>1. HasFragment(line)
        BY <1>1, <1>2, <1>3 DEF ReadingInv, FragmentsKept
    <2> QED
        BY <2>1, <1>2, FragmentIsDenied
<1>4. ASSUME NEW j \in DOMAIN contents, Fresh(contents, j), DeniedDirective(contents, j)
      PROVE  FALSE
    <2>1. PICK i \in j..Len(contents) :
            /\ i = j \/ Blank(contents, j, i)
            /\ \/ contents[i] = "x" /\ WordEnds(contents, i)
               \/ \E k \in (i + 2)..Len(contents) :
                      /\ contents[i] = "s" /\ Blank(contents, i + 1, k)
                      /\ contents[k] = "x" /\ WordEnds(contents, k)
        BY <1>4 DEF DeniedDirective
    <2>2. i \in 1..(index - 1) /\ j \in 1..(index - 1) /\ j <= i /\ Begins(contents, j, i)
        BY <1>1, <1>4, <2>1 DEF Begins, LexerTyped
    <2>3. CASE contents[i] = "x" /\ WordEnds(contents, i)
        <3>1. BeginsWith(<<"x">>, i, index, reader)
            BY <2>2, <2>3 DEF ReadingInv, WordKept
        <3> QED
            BY <3>1, <1>2, WordsX, WordIsDenied
    <2>4. ASSUME NEW k \in (i + 2)..Len(contents),
                 contents[i] = "s", Blank(contents, i + 1, k),
                 contents[k] = "x", WordEnds(contents, k)
          PROVE  FALSE
        <3>1. k \in 1..(index - 1) /\ i + 2 <= k
            BY <1>1, <2>2 DEF LexerTyped
        <3>2. BeginsWith(<<"s", "SP", "x">>, k, index, reader)
            BY <2>2, <2>4, <3>1 DEF ReadingInv, WordsKept
        <3> QED
            BY <3>2, <1>2, WordsSpaceX, WordsAreDenied
    <2> QED
        BY <2>1, <2>3, <2>4
<1>5. ASSUME NEW i \in DOMAIN contents, NEW j \in DOMAIN contents, i < j,
             contents[i] = "x", contents[j] = "s", Joined(contents, i, j)
      PROVE  MayBeCommented(contents, i) \/ MayBeCommented(contents, j)
    BY <1>3, <1>5 DEF Fragment
<1>6. ASSUME NEW j \in DOMAIN contents,
             j = 1 \/ contents[j - 1] = "LF", DeniedDirective(contents, j)
      PROVE  Continues(contents, j)
    BY <1>4, <1>6 DEF Fresh
<1> QED
    BY <1>5, <1>6

-----------------------------------------------------------------------------
(* The invariant is inductive *)

LEMMA InitIInv == Init => IInv
<1> SUFFICES ASSUME Init PROVE IInv
    OBVIOUS
<1>1. <<>> \in Text /\ Len(<<>>) = 0
    BY DEF Text
<1>2. LexerTyped
    <2>1. FlagsTyped
        BY DEF Init, FlagsTyped
    <2>2. /\ total \in Nat /\ total <= MaxTotalInlineRuleBytes
          /\ contents \in Text /\ Len(contents) <= MaxLength
          /\ index \in Nat /\ 1 <= index /\ index <= Len(contents) + 1
          /\ line \in Text /\ Len(line) < index
        BY <1>1, LimitAssumption, LengthAssumption DEF Init
    <2>3. verdict \in Rejections \cup {"next", "reading", "checked", "accepted"}
        BY DEF Init
    <2> QED
        BY <2>1, <2>2, <2>3 DEF LexerTyped
<1>3. contents = <<>> /\ verdict = "next"
    BY DEF Init
<1> QED
    BY <1>2, <1>3 DEF IInv, FragmentsAreSeen, DirectivesAreSeen, CommentsAreIgnored, Checked

LEMMA NextIInv == IInv /\ [Next]_vars => IInv'
<1> SUFFICES ASSUME IInv, [Next]_vars PROVE IInv'
    OBVIOUS
<1>1. LexerTyped /\ LexerTyped'
    BY TypedSteps DEF IInv
\* A verdict that claims nothing of the source.
<1>2. ASSUME verdict' \notin {"next", "reading", "checked", "denied"}
      PROVE  IInv'
    BY <1>1, <1>2 DEF IInv, FragmentsAreSeen, DirectivesAreSeen, CommentsAreIgnored, Checked
<1>3. CASE InlineSource
    <2>1. PICK text \in Texts : Begin(text) /\ verdict' \in {"oversized", "reading"}
        BY <1>3 DEF InlineSource
    <2>2. text \in Text /\ Len(text) > 0 /\ contents' = text /\ index' = 1 /\ reader' = NewReader
        BY <2>1, TextsAreTexts DEF Begin, reader, NewReader
    <2>3. ReadingInv(contents, index, reader)'
        BY <2>2, ReadingStarts
    <2>4. verdict' = "oversized" \/ verdict' = "reading"
        BY <2>1
    <2> QED
        BY <1>1, <2>3, <2>4
        DEF IInv, FragmentsAreSeen, DirectivesAreSeen, CommentsAreIgnored, Checked
<1>4. CASE FileSource
    <2>1. verdict' = "checked" /\ contents' = <<>>
        BY <1>4 DEF FileSource, Between, IInv
    <2> QED
        BY <1>1, <2>1 DEF IInv, FragmentsAreSeen, DirectivesAreSeen, CommentsAreIgnored
<1>5. CASE NextSource
    <2>1. verdict' = "next" /\ contents' = <<>>
        BY <1>5 DEF NextSource, Begin
    <2> QED
        BY <1>1, <2>1
        DEF IInv, FragmentsAreSeen, DirectivesAreSeen, CommentsAreIgnored, Checked
<1>6. CASE InvalidSource \/ Accept
    BY <1>2, <1>6 DEF InvalidSource, Accept
<1>7. CASE ReadStep
    <2>1. verdict = "reading" /\ ReadingInv(contents, index, reader)
        BY <1>7 DEF ReadStep, ReadComment, ReadEscaped, ReadContinuation, ReadEscape, ReadQuoted,
                    OpenQuote, OpenComment, EndLine, ReadBlank, ReadOther, Plain, Reading, IInv
    <2>2. verdict' \in {"reading", "denied", "unterminated"} /\ contents' = contents
        BY <1>7, <2>1 DEF ReadStep, ReadComment, ReadEscaped, ReadContinuation, ReadEscape,
            ReadQuoted, OpenQuote, OpenComment, EndLine, ReadBlank, ReadOther,
            Keep, CheckLine, Advance
    <2>3. CASE verdict' = "reading"
        <3>1. ReadingInv(contents, index, reader)'
            BY <1>1, <1>7, <2>1, <2>3, ReadsOn
        <3> QED
            BY <1>1, <3>1, <2>3
            DEF IInv, FragmentsAreSeen, DirectivesAreSeen, CommentsAreIgnored, Checked
    <2>4. CASE verdict' = "denied"
        <3>1. unsafeInlineCapability(line)
            BY <1>7, <2>1, <2>4 DEF ReadStep, ReadComment, ReadEscaped, ReadContinuation,
                ReadEscape, ReadQuoted, OpenQuote, OpenComment, EndLine, ReadBlank, ReadOther,
                Keep, CheckLine
        <3>2. CommentsAreIgnored'
            BY <1>1, <2>1, <2>2, <3>1, DeniedIsExplained DEF CommentsAreIgnored
        <3> QED
            BY <1>1, <2>4, <3>2 DEF IInv, FragmentsAreSeen, DirectivesAreSeen, Checked
    <2>5. CASE verdict' = "unterminated"
        BY <1>2, <2>5
    <2> QED
        BY <2>2, <2>3, <2>4, <2>5
<1>8. CASE EndSource
    <2>1. /\ verdict = "reading" /\ index > Len(contents) /\ contents' = contents
          /\ ReadingInv(contents, index, reader)
        BY <1>8 DEF EndSource, IInv
    <2>2. CASE verdict' = "checked"
        <3>1. quote = "none" /\ ~ escaped /\ ~ unsafeInlineCapability(line)
            BY <1>8, <2>2 DEF EndSource
        <3>2. FragmentsAreSeen' /\ DirectivesAreSeen'
            BY <1>1, <2>1, <3>1, CheckedIsClean DEF FragmentsAreSeen, DirectivesAreSeen
        <3> QED
            BY <1>1, <2>2, <3>2 DEF IInv, CommentsAreIgnored
    <2>3. CASE verdict' = "denied"
        <3>1. unsafeInlineCapability(line)
            BY <1>8, <2>3 DEF EndSource
        <3>2. CommentsAreIgnored'
            BY <1>1, <2>1, <3>1, DeniedIsExplained DEF CommentsAreIgnored
        <3> QED
            BY <1>1, <2>3, <3>2 DEF IInv, FragmentsAreSeen, DirectivesAreSeen, Checked
    <2>4. CASE verdict' \in {"unterminated", "incomplete"}
        BY <1>2, <2>4
    <2> QED
        BY <1>8, <2>2, <2>3, <2>4 DEF EndSource
<1>9. CASE UNCHANGED vars
    <2>1. verdict' = verdict /\ contents' = contents /\ index' = index /\ reader' = reader
        BY <1>9 DEF vars, reader
    <2> QED
        BY <1>1, <2>1
        DEF IInv, FragmentsAreSeen, DirectivesAreSeen, CommentsAreIgnored, Checked
<1> QED
    BY <1>3, <1>4, <1>5, <1>6, <1>7, <1>8, <1>9 DEF Next, ReadStep

LEMMA AlwaysIInv == Spec => []IInv
BY InitIInv, NextIInv, PTL DEF Spec

-----------------------------------------------------------------------------
(* Theorems *)

\* The counts of the check stay in their ranges: the total never passes the
\* limit it is subtracted from, the index never passes the end of the source
\* by more than one, and the line is no longer than the source (rules.cc).
THEOREM TypeCorrect == Spec => []TypeOK
<1>1. IInv => TypeOK
    <2> SUFFICES ASSUME LexerTyped PROVE TypeOK
        BY DEF IInv
    <2>1. Len(contents) \in Nat /\ Len(line) \in Nat
        BY DEF LexerTyped, Text
    <2>2. total \in 0..MaxTotalInlineRuleBytes
        BY LimitAssumption DEF LexerTyped
    <2>3. index \in 1..(MaxLength + 1) /\ Len(line) <= MaxLength
        BY <2>1, LengthAssumption DEF LexerTyped
    <2>4. quote \in Quotes \cup {"none"} /\ {escaped, comment} \subseteq BOOLEAN
        BY DEF LexerTyped, FlagsTyped
    <2> QED
        BY <2>2, <2>3, <2>4 DEF LexerTyped, TypeOK, Text
<1> QED
    BY <1>1, AlwaysIInv, PTL

\* Whatever its length, a source whose check passes says a denied fragment in
\* comments only: no continuation, quote or escape hides one (rules.cc:86-172).
THEOREM NoFragmentHides == Spec => []FragmentsAreSeen
<1>1. IInv => FragmentsAreSeen
    BY DEF IInv
<1> QED
    BY <1>1, AlwaysIInv, PTL

\* A source passes only if no line of its own begins with a denied directive,
\* and is denied only for what some line says that is not a comment.
THEOREM DenialsAreDirectives == Spec => []DeniedForDirectives
<1>1. IInv => DeniedForDirectives
    BY DEF IInv, DeniedForDirectives
<1> QED
    BY <1>1, AlwaysIInv, PTL
=============================================================================
