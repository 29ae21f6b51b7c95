---------------------------- MODULE TextAnalysis ----------------------------
(***************************************************************************)
(* What the anti-spam service reads in the text of a comment               *)
(* (backend/internal/antispam/content.go): ValidateContent, Fingerprint.   *)
(* A text is a sequence of graphemes, each one rune and one UTF-16 unit;   *)
(* the marker of a link ("https://", "www.") is read as one grapheme, so   *)
(* that no others spell one, and only in Fingerprint are texts with links  *)
(* judged.  A grapheme has its lower case by itself and as one grapheme,   *)
(* and none but letters have another.  A verdict is the reason of the      *)
(* refusal, "ok" for none; a hash is what it is a hash of.                 *)
(***************************************************************************)
EXTENDS Integers, SequencesExt

CONSTANTS
    Letters, Capitals,  \* letters without and with another lower case
    LowerCase,          \* [Capitals -> Letters]
    Digits, Numbers,    \* "0" to "9", and unicode's other numbers
    Symbols, Marks,     \* unicode's symbols and pictographs, and all else
    Spaces, Links,      \* JavaScript's whitespace, the markers of links
    Vowels,
    Latin,              \* those of the letters that are "a" to "z", "A" to "Z"
    Connectors,         \* those of the marks that connect words: "_", "-"
    Unprinted,          \* those of the marks that TrimSpace removes: U+0085
    Angles,             \* those of the symbols that are "<" and ">"
    \* config.Comments
    MaxLength, MaxURLCount, MaxTokenLength,
    RandomTextMinLength, RandomTokenMinLength, RandomTokenMinCount,
    MaxRepeatedCharRun, MaxRepeatedSymbolRun, MaxRepeatedTokenRun,
    DiversityMinTokens, DiversityMinLength,
    \* thresholds of the code, and shares of the configuration, in percent
    DominanceMin, VarietyMin, SymbolsMin,
    RandomShare, DiversityShare, DominanceShare, VarietyShare, SymbolsShare,
    FingerprintLength

\* The classes of graphemes; a mark is what is in none of the others.
Classes == <<Letters, Capitals, Digits, Numbers, Symbols, Marks, Spaces, Links>>

Graphemes == UNION Range(Classes)

ASSUME TextAssumption ==
    /\ \A i, j \in DOMAIN Classes : i # j => Classes[i] \cap Classes[j] = {}
    \* What a fingerprint is written with, see Fingerprint.
    /\ {"0", " ", "<url>"} \cap (Letters \cup Numbers \cup Symbols \cup Marks \cup Links) = {}
    /\ {" ", "<url>"} \cap Digits = {} /\ {"0", "<url>"} \cap Spaces = {}
    /\ LowerCase \in [Capitals -> Letters] /\ Vowels \subseteq Letters
    /\ Latin \subseteq Letters \cup Capitals
    /\ Connectors \cup Unprinted \subseteq Marks /\ Angles \subseteq Symbols
    /\ {MaxLength, MaxURLCount, MaxTokenLength, RandomTextMinLength, RandomTokenMinLength,
        RandomTokenMinCount, MaxRepeatedCharRun, MaxRepeatedSymbolRun, MaxRepeatedTokenRun,
        DiversityMinTokens, DiversityMinLength, DominanceMin, VarietyMin, SymbolsMin,
        FingerprintLength}
            \subseteq Nat \ {0}
    /\ MaxRepeatedSymbolRun <= MaxRepeatedCharRun  \* config.Load
    \* Shares are at most 1, and 0.72 of 20 words is more than one of them.
    /\ RandomShare \in Nat /\ DiversityShare \in 0 .. 100 /\ VarietyShare \in 1 .. 100
    /\ DominanceShare \in 1 .. 100 /\ SymbolsShare \in 1 .. 100
    /\ DominanceShare * DominanceMin > 100

WordLike == Letters \cup Capitals \cup Digits \cup Numbers \cup Links
Lower(g) == IF g \in Capitals THEN LowerCase[g] ELSE g
Lowered(s) == [i \in DOMAIN s |-> Lower(s[i])]

\* The state after all elements of s, one step for each.
Through(Step(_, _), start, s) ==
    LET state[n \in 0 .. Len(s)] == IF n = 0 THEN start ELSE Step(state[n - 1], s[n])
    IN  state[Len(s)]

\* The elements that are in a set, in their order.
Filter(s, set) ==
    LET Step(kept, e) == IF e \in set THEN Append(kept, e) ELSE kept
    IN  Through(Step, <<>>, s)

Without(s, set) == Filter(s, Range(s) \ set)
Count(s, set) == Len(Filter(s, set))

-----------------------------------------------------------------------------
\* A word ends where a grapheme is no part of it; there are no empty words.
NoWords == [word |-> <<>>, done |-> <<>>]
Flushed(state) == IF state.word = <<>> THEN state.done ELSE Append(state.done, state.word)

FieldStep(state, g) ==
    IF g \in Spaces THEN [word |-> <<>>, done |-> Flushed(state)]
    ELSE [word |-> Append(state.word, g), done |-> state.done]

\* splitJSWhitespace.
Fields(s) == Flushed(Through(FieldStep, NoWords, s))

\* trimJSWhitespace.
Trim(s) ==
    LET ink == {i \in DOMAIN s : s[i] \notin Spaces}
    IN  IF ink = {} THEN <<>>
        ELSE SubSeq(s, CHOOSE i \in ink : \A j \in ink : i <= j,
                       CHOOSE i \in ink : \A j \in ink : j <= i)

\* Graphemes that are no token: whitespace of JavaScript or of TrimSpace.
Invisible == Spaces \cup Unprinted

TokenStep(state, g) ==
    IF g \in WordLike THEN [word |-> Append(state.word, Lower(g)), done |-> state.done]
    ELSE [word |-> <<>>,
          done |-> IF g \in Invisible THEN Flushed(state) ELSE Append(Flushed(state), <<g>>)]

\* dominanceTokens: words in lower case, every other visible grapheme alone.
Tokens(s) == Flushed(Through(TokenStep, NoWords, s))

SymbolToken(t) == \A i \in DOMAIN t : t[i] \in Symbols
WordToken(t) == t[1] \in WordLike

\* likelyRandomToken.
LikelyRandom(t) ==
    LET length == Len(t)
        letters == Count(t, Letters \cup Capitals)
        vowels == Count(Lowered(t), Vowels)
        others == Len(Without(t, WordLike))
        Has(set) == Range(t) \cap set # {}
    IN  /\ length >= RandomTokenMinLength
        /\ letters > 0 /\ ~(letters >= 2 /\ letters = length)
        /\ 100 * Cardinality(Range(Lowered(t))) >= 45 * length
        /\ 100 * vowels <= 45 * length
        /\ \/ Has(Digits) \/ Has(Connectors) \/ (Has(Letters \cap Latin) /\ Has(Capitals \cap Latin))
           \/ 100 * others > 18 * length

-----------------------------------------------------------------------------
\* Mutant: a run that was broken goes on.
RunLoopUnbroken(s, limit) ==
    LET Step(state, e) ==
            LET run == IF <<e>> = state.last THEN state.run + 1 ELSE state.run
            IN  [last |-> <<e>>, run |-> run,
                 refused |-> IF state.refused = <<>> /\ run > limit[e] THEN <<e>> ELSE state.refused]
    IN  Through(Step, [last |-> <<>>, run |-> 1, refused |-> <<>>], s).refused

\* The loop over neighbours: the first run that is too long.  "limit" gives
\* the longest run allowed of each element.
RunLoop(s, limit) ==
    LET Step(state, e) ==
            LET run == IF <<e>> = state.last THEN state.run + 1 ELSE 1
            IN  [last |-> <<e>>, run |-> run,
                 refused |-> IF state.refused = <<>> /\ run > limit[e] THEN <<e>> ELSE state.refused]
    IN  Through(Step, [last |-> <<>>, run |-> 0, refused |-> <<>>], s).refused

GraphemeRun(g) == IF g \in Symbols THEN MaxRepeatedSymbolRun ELSE MaxRepeatedCharRun

Blame(symbol) == IF symbol THEN "symbols" ELSE "repetitive"

\* The checks on runs, on graphemes that are no whitespace and on tokens.
RunVerdict(content) ==
    LET graphemes == Without(content, Spaces)
        tokens == Tokens(content)
        char == RunLoop(graphemes, [g \in Range(graphemes) |-> GraphemeRun(g)])
        token == RunLoop(tokens, [t \in Range(tokens) |-> MaxRepeatedTokenRun])
    IN  IF char # <<>> THEN Blame(char[1] \in Symbols)
        ELSE IF token # <<>> THEN Blame(SymbolToken(token[1]))
        ELSE "ok"

\* The word or mark that is most of a text of many.
Dominant(tokens) ==
    {t \in Range(tokens) : /\ Len(tokens) >= DominanceMin
                           /\ 100 * Count(tokens, {t}) >= DominanceShare * Len(tokens)}

\* The checks on shares of the whole text.
ShareVerdict(content) ==
    LET graphemes == Without(content, Spaces)
        tokens == Tokens(content)
        words == Filter(tokens, {t \in Range(tokens) : WordToken(t)})
        analyzed == IF Len(words) >= DominanceMin THEN words ELSE tokens
        dominant == Dominant(analyzed)
        symbols == Count(graphemes, Symbols)
    IN  IF dominant # {} THEN Blame(\E t \in dominant : SymbolToken(t))
        ELSE IF \/ /\ Len(content) >= DiversityMinLength /\ Len(words) >= DiversityMinTokens
                   /\ 100 * Cardinality(Range(words)) < DiversityShare * Len(words)
                \/ /\ Len(graphemes) >= VarietyMin
                   /\ 100 * Cardinality(Range(graphemes)) < VarietyShare * Len(graphemes)
        THEN "repetitive"
        ELSE IF /\ Len(graphemes) >= SymbolsMin
                /\ 100 * symbols >= SymbolsShare * Len(graphemes)
                /\ Count(graphemes, WordLike) < 8
        THEN "symbols" ELSE "ok"

\* ValidateContent.
Verdict(raw) ==
    LET content == Trim(raw)
        pieces == Fields(content)
        random == Count(pieces, {p \in Range(pieces) : LikelyRandom(p)})
    IN  IF content = <<>> THEN "empty"
        ELSE IF Len(content) > MaxLength THEN "length"
        ELSE IF Count(content, Links) > MaxURLCount THEN "links"
        ELSE IF \E i \in DOMAIN pieces : Len(pieces[i]) > MaxTokenLength THEN "token"
        ELSE IF /\ Len(content) >= RandomTextMinLength /\ Len(pieces) >= RandomTokenMinCount
                /\ random >= RandomTokenMinCount /\ 100 * random >= RandomShare * Len(pieces)
        THEN "random"
        ELSE IF RunVerdict(content) # "ok" THEN RunVerdict(content)
        ELSE ShareVerdict(content)

-----------------------------------------------------------------------------
\* replaceURLs: a link up to the next whitespace is one word.
ReplaceURLs(s) ==
    LET Step(state, g) ==
            IF state.inside /\ g \notin Spaces THEN state
            ELSE IF g \in Links
            THEN [inside |-> TRUE, out |-> state.out \o <<" ", "<url>", " ">>]
            ELSE [inside |-> FALSE, out |-> Append(state.out, g)]
    IN  Through(Step, [inside |-> FALSE, out |-> <<>>], s).out

\* A run of graphemes of a set becomes one replacement: the numbers,
\* replaceNoise and collapseWhitespace.
ReplaceRuns(s, set, replacement) ==
    LET Step(state, g) ==
            IF g \notin set THEN [inside |-> FALSE, out |-> Append(state.out, g)]
            ELSE [inside |-> TRUE, out |-> IF state.inside THEN state.out ELSE Append(state.out, replacement)]
    IN  Through(Step, [inside |-> FALSE, out |-> <<>>], s).out

\* replaceNoise keeps letters, all numbers, whitespace and the angles.
Noise == (Symbols \ Angles) \cup Marks
White == Spaces \cup {" "}

\* The text that is hashed, at most so much of it.
Fingerprint(content) ==
    LET numbered == ReplaceRuns(ReplaceURLs(Lowered(Trim(content))), Digits, "0")
        words == ReplaceRuns(ReplaceRuns(numbered, Noise, " "), White, " ")
    IN  SubSeq(words, 1, Min({Len(words), FingerprintLength}))
=============================================================================
