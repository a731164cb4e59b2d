------------------------------ MODULE HashTags ------------------------------
(***************************************************************************)
(* The hashtags of a text: extract_tags and normalise_tag of                *)
(* app/community.py, over a text that an author types.  Of a character its  *)
(* class is kept, and what it folds to; casefold may make two of one, as    *)
(* "ss" of the German sharp s.                                              *)
(***************************************************************************)
EXTENDS Naturals, Sequences, SequencesExt, FiniteSets, FiniteSetsExt

CONSTANTS
    Fold,          \* what each letter folds to, a sequence of letters
    Digits,        \* characters of a word that are no letters: digits, "_"
    Marks,         \* combining marks: part of a tag, but not of a \w word
    Hash, Slash,   \* the characters # and /
    Others,        \* everything else
    MaxTagLength,  \* MAX_TAG_LENGTH
    TagLimits,     \* the values of MAX_TAGS_PER_POST that are tried
    MaxText        \* bound: the length of a text

ConstantsOK ==
    /\ \A c \in DOMAIN Fold : Fold[c] \in Seq(DOMAIN Fold) /\ Fold[c] # <<>>
    /\ \A c \in DOMAIN Fold : \A d \in Range(Fold[c]) : Fold[d] = <<d>>
    /\ {MaxTagLength, MaxText} \cup TagLimits \subseteq Nat \ {0}

VARIABLE text

vars == <<text>>

Letters == DOMAIN Fold
WordCharacters == Letters \cup Digits
TagCharacters == WordCharacters \cup Marks
Characters == TagCharacters \cup Others \cup {Hash, Slash}

Init == text = <<>>

Type(c) ==
    /\ Len(text) < MaxText
    /\ text' = Append(text, c)

Next == \E c \in Characters : Type(c)

Spec == Init /\ [][Next]_vars

-----------------------------------------------------------------------------
(* extract_tags.                                                             *)

\* _TAG_START.
Starts(t, i) ==
    t[i] = Hash /\ (i > 1 => t[i - 1] \notin WordCharacters \cup {Hash, Slash})

\* The characters of a tag that follow place i.
Run(t, i) ==
    LET rest == SubSeq(t, i + 1, Len(t))
        stops == {n \in DOMAIN rest : rest[n] \notin TagCharacters}
    IN  IF stops = {} THEN rest ELSE SubSeq(rest, 1, Min(stops) - 1)

Cut(t) == SubSeq(t, 1, Min({MaxTagLength, Len(t)}))

Folded(t) == FlattenSeq([n \in DOMAIN t |-> IF t[n] \in Letters THEN Fold[t[n]] ELSE <<t[n]>>])

HasLetter(t) == \E n \in DOMAIN t : t[n] \in Letters

\* The tags, with one more if it is new and there is room.
Collected(tags, tag, limit) ==
    IF Len(tags) >= limit \/ ~HasLetter(tag) \/ tag \in Range(tags) THEN tags
    ELSE Append(tags, tag)

Tags(t, limit) ==
    FoldLeft(LAMBDA tags, i :
                IF Starts(t, i) THEN Collected(tags, Folded(Cut(Run(t, i))), limit) ELSE tags,
             <<>>, [i \in DOMAIN t |-> i])

\* Mutant of Looked: a lookup is not cut to size.
LookedUncut(t) == Folded(t)

\* normalise_tag.
Looked(t) == Cut(Folded(t))

-----------------------------------------------------------------------------
(* Properties.                                                               *)

\* The text is one that can be typed within the bound.
TypeOK == text \in Seq(Characters) /\ Len(text) <= MaxText

\* What _sync_tags relies on: the tags of a text are different, within limits,
\* and free of what would make them another text's tags.
TagsAreSound ==
    \A limit \in TagLimits :
        LET tags == Tags(text, limit)
        IN  /\ IsInjective(tags)
            /\ Len(tags) <= limit
            /\ \A n \in DOMAIN tags :
                  /\ HasLetter(tags[n])
                  /\ Folded(tags[n]) = tags[n]
                  /\ Range(tags[n]) \subseteq TagCharacters

\* The text up to the last tag character typed in a row.
Settled(t) ==
    LET breaks == {n \in DOMAIN t : t[n] \notin TagCharacters}
    IN  SubSeq(t, 1, IF breaks = {} THEN 0 ELSE Max(breaks) - 1)

\* A tag that is finished stays, and stays in its place, whatever is typed
\* behind it: the first tags win when there are too many.
FinishedTagsStay ==
    \A limit \in TagLimits : IsPrefix(Tags(Settled(text), limit), Tags(text, limit))

\* "The stored form of a tag, for lookups coming in from a URL": whoever looks
\* for a tag as it is written in the text finds the stored one, unless folding
\* made it longer than a tag may be.
WrittenTagIsFound ==
    \A limit \in TagLimits, i \in DOMAIN text :
        LET tag == Folded(Cut(Run(text, i)))
        IN  Starts(text, i) /\ tag \in Range(Tags(text, limit)) /\ Len(tag) <= MaxTagLength
                => Looked(Run(text, i)) = tag

\* The tags stored with a text are sound, final and within reach of a reader
\* who looks for what the text says.
TagsHold == TagsAreSound /\ FinishedTagsStay /\ WrittenTagIsFound

=============================================================================
