-------------------------- MODULE MCFingerprints --------------------------
(***************************************************************************)
(* A comment and a variation of it: both are typed side by side, and the   *)
(* second may differ in what a campaign changes from one comment to the    *)
(* next (the test "similar comments have different fingerprints").         *)
(***************************************************************************)
EXTENDS MCCommentText

CONSTANT MaxEdits  \* bound: pieces of a comment

ASSUME EditsAssumption == MaxEdits \in Nat

VARIABLES first, second, alike

variationVars == <<first, second, alike>>

\* What a fingerprint says of a text, and what is written for it.
Signs == Letters \cup Numbers \cup Angles
Words == Signs \cup Capitals
One(set) == {<<x>> : x \in set}
Some(set) == One(set) \cup [1 .. 2 -> set]

VariationInit == first = <<>> /\ second = <<>> /\ alike = TRUE

\* Every piece ends the piece before it: a link is followed by whitespace.
AddPiece(p, q) ==
    /\ Len(first) < MaxEdits
    /\ first' = Append(first, p)
    /\ second' = Append(second, q)

Sign == \E p, q \in Words : AddPiece(<<p>>, <<q>>) /\ alike' = (alike /\ Lower(p) = Lower(q))

Number == \E p \in One(Digits), q \in Some(Digits) : AddPiece(p, q) /\ UNCHANGED alike

Noises == \E p \in One(Noise), q \in Some(Noise) : AddPiece(p, q) /\ UNCHANGED alike

Whitespace == \E p \in One(Spaces), q \in Some(Spaces) : AddPiece(p, q) /\ UNCHANGED alike

Link ==
    \E l, m \in Links, p, q \in Letters \cup Marks, s \in Spaces :
        /\ AddPiece(<<l, p, s>>, <<m, q, s>>)
        /\ UNCHANGED alike

VariationNext == Sign \/ Number \/ Noises \/ Whitespace \/ Link

VariationSpec == VariationInit /\ [][VariationNext]_variationVars

-----------------------------------------------------------------------------
(***************************************************************************)
(* A comment and its variation have one fingerprint, whatever case,        *)
(* digits, links, punctuation and whitespace changed, and another          *)
(* fingerprint as soon as a letter, a number of another kind or one of the *)
(* angles changed outside a link, as long as the fingerprint is not cut.   *)
(* A link is one sign of it here, whatever is typed for it.                *)
(***************************************************************************)
SameExactlyForVariations ==
    LET x == Fingerprint(FlattenSeq(first))
        y == Fingerprint(FlattenSeq(second))
    IN  /\ alike => x = y
        /\ ~alike /\ Len(x) < FingerprintLength => x # y

(***************************************************************************)
(* A comment is judged by what it says: repetition is found wherever it    *)
(* stands, different words pass, and a variation of a comment is taken for *)
(* the same one (ValidateContent, Fingerprint).                            *)
(***************************************************************************)
CommentsAreJudged ==
    /\ RunsAreRefused
    /\ TokensAreTheText
    /\ DifferentWordsPass
    /\ SameExactlyForVariations
=============================================================================
