------------------------------- MODULE Slugs -------------------------------
(***************************************************************************)
(* How posts get their slugs (backend/internal/storage/sqlite/slug.go and  *)
(* the loop in backend/internal/posts/write.go).  A title is a sequence of *)
(* characters, of which only the class matters: a letter and its lower     *)
(* case, digits, a combining mark, and everything else.                    *)
(***************************************************************************)
EXTENDS Naturals, Sequences, SequencesExt, FiniteSetsExt

CONSTANTS
    SmallLetters,     \* the lower case letters
    CapitalLetters,   \* CapitalLetters[c]: the lower case of the capital c
    DigitCharacters,  \* DigitCharacters[n + 1]: the character of the decimal digit n
    Mark,             \* a combining mark
    SpaceCharacter,   \* any character that is none of these
    Dash,             \* the hyphen
    Fallback          \* the slug of a title without letters and digits

Alphanumeric == SmallLetters \cup DOMAIN CapitalLetters \cup ToSet(DigitCharacters)

ASSUME CharactersAssumption ==
    /\ DOMAIN DigitCharacters = 1 .. 10 /\ IsInjective(DigitCharacters)
    /\ \A c \in DOMAIN CapitalLetters :
        CapitalLetters[c] \in SmallLetters /\ c \notin SmallLetters \cup ToSet(DigitCharacters)
    /\ {Mark, Dash} \cap (Alphanumeric \cup {SpaceCharacter}) = {} /\ Mark # Dash
    /\ Fallback \in Seq(SmallLetters) \ {<<>>}

ToLower(c) == IF c \in DOMAIN CapitalLetters THEN CapitalLetters[c] ELSE c

(***************************************************************************)
(* One character: a letter or digit goes in, after a hyphen if a run of    *)
(* others came before it; a mark goes in only where it is attached; all    *)
(* else starts such a run, unless nothing has gone in so far.              *)
(***************************************************************************)
Scan(state, c) ==
    CASE c \in Alphanumeric ->
           [slug |-> state.slug \o (IF state.separator /\ state.any THEN <<Dash>> ELSE <<>>)
                                \o <<ToLower(c)>>,
            separator |-> FALSE, any |-> TRUE]
      [] c = Mark /\ state.any /\ ~state.separator ->
           [state EXCEPT !.slug = Append(@, c)]
      [] OTHER ->
           [state EXCEPT !.separator = @ \/ state.any]

Unscanned == [slug |-> <<>>, separator |-> FALSE, any |-> FALSE]

\* Scanned(title)[n]: the state after n characters.
Scanned(title) ==
    LET state[n \in 0 .. Len(title)] ==
            IF n = 0 THEN Unscanned ELSE Scan(state[n - 1], title[n])
    IN  state

Slugify(title) ==
    LET end == Scanned(title)[Len(title)]
    IN  IF end.any THEN end.slug ELSE Fallback

-----------------------------------------------------------------------------
Decimal[n \in Nat] ==
    IF n < 10 THEN <<DigitCharacters[n + 1]>>
    ELSE Append(Decimal[n \div 10], DigitCharacters[(n % 10) + 1])

Numbered(slug, n) == slug \o <<Dash>> \o Decimal[n]

\* The n-th slug that a creation tries: base, base-2, base-3, ...
SlugTried(base, n) == IF n = 1 THEN base ELSE Numbered(base, n)

\* Only the base itself is compared with the slugs in use.
BackfilledOnce(used, title, id) ==
    LET base == Slugify(title) IN IF base \in used THEN Numbered(base, id) ELSE base

(***************************************************************************)
(* The slug that the migration gives to a post: its base, else base-id,    *)
(* else base-id-2, base-id-3 and so on.                                    *)
(***************************************************************************)
Backfilled(used, title, id) ==
    LET base  == Slugify(title)
        freeAt == {n \in 1 .. Cardinality(used) + 1 : SlugTried(Numbered(base, id), n) \notin used}
    IN  IF base \in used THEN SlugTried(Numbered(base, id), Min(freeAt)) ELSE base

\* addPostSlugs: in the order of the ids, which count from 1 here.
AddPostSlugs(titles) ==
    LET slugs[n \in 0 .. Len(titles)] ==
            IF n = 0 THEN <<>>
            ELSE LET before == slugs[n - 1]
                 IN  Append(before, Backfilled(ToSet(before), titles[n], n))
    IN  slugs[Len(titles)]

\* WriteInput.Validate, what concerns an explicit slug (its length aside).
AcceptedSlug(slug) == slug # <<>> /\ Slugify(slug) = slug
=============================================================================
