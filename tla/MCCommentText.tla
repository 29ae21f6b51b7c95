--------------------------- MODULE MCCommentText ---------------------------
(***************************************************************************)
(* Every text over a few of the graphemes, typed one after the other.      *)
(***************************************************************************)
EXTENDS TextAnalysis

CONSTANTS
    Typed,    \* the graphemes that are typed, no markers of links
    MaxTyped  \* bound: graphemes of a text

ASSUME TypedAssumption == Typed \subseteq Graphemes \ Links /\ MaxTyped \in Nat

VARIABLE text

MCLowerCase == [c \in {"A"} |-> "a"]

TextInit == text = <<>>

TypeText(g) ==
    /\ Len(text) < MaxTyped
    /\ text' = Append(text, g)

TextNext == \E g \in Typed : TypeText(g)

TextSpec == TextInit /\ [][TextNext]_text

-----------------------------------------------------------------------------
Run(s, length) ==
    {e \in Range(s) : \E i \in DOMAIN s : i + length <= Len(s) /\ \A j \in 0 .. length : s[i + j] = e}

(***************************************************************************)
(* The loops over neighbours refuse a text exactly when it has a run: more *)
(* than so many equal graphemes after another, whatever whitespace is      *)
(* between them, fewer of a symbol, or equal words or marks in a row       *)
(* (ValidateContent: a counter that starts anew at every change).          *)
(***************************************************************************)
RunsAreRefused ==
    LET ink == Without(text, Spaces)
        long == \/ Run(ink, MaxRepeatedCharRun) # {}
                \/ Run(ink, MaxRepeatedSymbolRun) \cap Symbols # {}
                \/ Run(Tokens(text), MaxRepeatedTokenRun) # {}
    IN  RunVerdict(text) # "ok" <=> long

(***************************************************************************)
(* The words and marks that the checks count are all that is visible of    *)
(* the text, nothing of it lost or counted twice (dominanceTokens).  The   *)
(* control U+0085 counts as a grapheme and is no token.                    *)
(***************************************************************************)
TokensAreTheText ==
    LET ink == Without(text, Invisible)
    IN  FlattenSeq(Tokens(text)) = Lowered(ink)

(***************************************************************************)
(* A comment of different words in lower case, without a run, not too long *)
(* and too short for the variety of its letters to count, is not taken for *)
(* spam: none of the shares that ValidateContent compares is reached by so *)
(* few words.                                                              *)
(***************************************************************************)
DifferentWordsPass ==
    LET content == Trim(text)
        words == Fields(content)
    IN  /\ content # <<>> /\ Len(content) <= MaxLength /\ Len(content) < VarietyMin
        /\ Range(content) \subseteq Letters \cup Spaces
        /\ \A i \in DOMAIN words : Len(words[i]) <= MaxTokenLength
        /\ IsInjective(words) /\ RunVerdict(content) = "ok"
        => Verdict(text) = "ok"
=============================================================================
