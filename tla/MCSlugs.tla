------------------------------ MODULE MCSlugs ------------------------------
(***************************************************************************)
(* Slugs for TLC: titles are typed a character at a time, one after the    *)
(* other, so that every list of titles up to the bounds is a state.        *)
(***************************************************************************)
EXTENDS Slugs, TLC

CONSTANTS
    Alphabet,   \* the characters typed
    MaxTitle,   \* bound: characters of one title
    MaxTitles,  \* bound: posts
    MaxTyping   \* bound: characters of all titles, when there are several

VARIABLE titles

TitleLetters == {"a", "o", "s", "p", "t"}
UpperToLower == "A" :> "a"
DecimalDigits == <<"0", "1", "2", "3", "4", "5", "6", "7", "8", "9">>
Post == <<"p", "o", "s", "t">>

TitlesInit == titles = <<<<>>>>

Length == Len(FlattenSeq(titles))

TypeTitle ==
    /\ Length < IF Len(titles) = 1 THEN MaxTitle ELSE MaxTyping
    /\ \E c \in Alphabet : titles' = [titles EXCEPT ![Len(titles)] = Append(@, c)]

NextTitle ==
    /\ Len(titles) < MaxTitles /\ Length <= MaxTyping
    /\ titles' = Append(titles, <<>>)

TitlesNext == TypeTitle \/ NextTitle

TitlesSpec == TitlesInit /\ [][TitlesNext]_titles

-----------------------------------------------------------------------------
(***************************************************************************)
(* Whatever slug the program itself gives a post, by the migration or by   *)
(* the numbered candidates of a creation, is one it accepts back: the      *)
(* editor sends the slug along with every later save of the post, and a    *)
(* slug that Slugify changes would make the post impossible to save.       *)
(***************************************************************************)
GivenSlugsAreAccepted ==
    /\ \A i \in DOMAIN titles : AcceptedSlug(AddPostSlugs(titles)[i])
    /\ \A n \in {1, 2, 12} : AcceptedSlug(SlugTried(Slugify(Last(titles)), n))

(***************************************************************************)
(* The backfill gives no slug twice, although one title's slug may be what *)
(* another's becomes by its number; so the unique index can be created.    *)
(***************************************************************************)
BackfillIsUnique == IsInjective(AddPostSlugs(titles))

(***************************************************************************)
(* The documented policy: the first post of each base keeps the base, and  *)
(* no post's slug depends on the posts after it.                           *)
(***************************************************************************)
FirstKeepsItsBase ==
    LET slugs == AddPostSlugs(titles)
    IN  /\ SubSeq(slugs, 1, Len(titles) - 1) = AddPostSlugs(Front(titles))
        /\ \A i \in DOMAIN titles :
              slugs[i] # Slugify(titles[i]) =>
                 \E j \in 1 .. i - 1 : slugs[j] = Slugify(titles[i])

(***************************************************************************)
(* Every slug the program gives is unique, is accepted when it is sent     *)
(* back, and does not depend on the posts that come later.                 *)
(***************************************************************************)
SlugsHold == GivenSlugsAreAccepted /\ BackfillIsUnique /\ FirstKeepsItsBase
=============================================================================
