--------------------------- MODULE MCPostContent ---------------------------
(***************************************************************************)
(* Documents an administrator may send and the column may hold: the first  *)
(* block is any of many, the others show how blocks stand together.        *)
(***************************************************************************)
EXTENDS PostContent

CONSTANT MaxDocument  \* bound: blocks of a document

VARIABLE document

MCNumerals == (<<"2">> :> 2)
MCSafeLinks == {<<"u">>}
MCSafeSources == {<<"/">>, <<"/", " ", "a">>}

Null == [is |-> "null"]
Optional(values) == values \cup {Absent}

FewTexts == {String(<<" ", "x">>), Null}

Texts == {String(t) : t \in {<<" ">>, <<"x">>, <<" ", "x", " ">>, <<"x", "x", "x">>}} \cup {Null}

MarksTried == [type : {"bold", "link", "underline"}, href : {<<>>, <<" ", "u">>, <<"e">>}]
MarkLists == {<<>>} \cup {<<m>> : m \in MarksTried} \cup {<<m, n>> : m, n \in MarksTried}
Nodes == [type : {"text"}, text : {<<>>, <<" ">>, <<"x", " ">>}, marks : MarkLists]
            \cup [type : {"html"}, text : {<<"x">>}, marks : {<<>>}]
Plain(text) == [type |-> "text", text |-> text, marks |-> <<>>]
Array(nodes) == [is |-> "array", of |-> nodes]

FewContents == {Null, Array(<<>>), Array(<<Plain(<<" ">>)>>), Array(<<Plain(<<"x">>), Plain(<<" ">>)>>)}
Contents == FewContents \cup {Array(<<n>> \o t) : n \in Nodes, t \in {<<>>, <<Plain(<<"x">>)>>}}

Levels == {[is |-> "int", of |-> n] : n \in 0 .. 4} \cup {[is |-> "float", of |-> 2]}
            \cup {String(<<" ", "2">>), String(<<"x">>), Null}

Flags == {[is |-> "bool", of |-> b] : b \in BOOLEAN} \cup {Null, String(<<"x">>)}

Paragraphs ==
    {Present([type |-> String(<<"paragraph">>), text |-> t, content |-> c]) :
        t \in Optional(FewTexts), c \in Optional(Contents)}
    \cup {Present([type |-> String(<<"paragraph">>), text |-> t, content |-> c]) :
            t \in Optional(Texts), c \in Optional(FewContents)}
Headings ==
    {Present([type |-> String(<<"heading">>), level |-> l, text |-> t, content |-> c]) :
        l \in Optional(Levels), t \in Optional(Texts), c \in Optional(FewContents)}
Kinds == {String(<<"image">>), String(<<" ", "audio">>), String(<<"x">>)}
Sources == {String(<<"/">>), String(<<" ", "/", " ", "a">>), String(<<"e">>), Null}
MediaBlocks ==
    {Present([type |-> String(<<"media">>), mediaKind |-> k, src |-> s, name |-> n,
              caption |-> c, spoiler |-> f]) :
        k \in Optional(Kinds), s \in Optional(Sources), n \in Optional(Texts),
        c \in Optional(FewTexts), f \in Optional(Flags)}

Medium(kind, src) ==
    [type |-> String(<<"media">>), mediaKind |-> String(<<kind>>), src |-> String(src)]
Others ==
    {<<>>, TypeField("divider"), TypeField("future"), [type |-> Null],
     [type |-> String(<<"quote">>), text |-> String(<<"x">>)],
     [type |-> String(<<"paragraph">>), text |-> String(<<"x", "x">>)],
     Medium("audio", <<"/">>), Medium("audio", <<"/", " ", "a">>), Medium("gif", <<"/">>)}

DocumentInit == document = <<>>

Write(raw) ==
    /\ Len(document) < MaxDocument
    /\ document' = Append(document, raw)

FirstBlock == document = <<>> /\ \E raw \in Paragraphs \cup Headings \cup MediaBlocks : Write(raw)

AnotherBlock == \E raw \in Others : Write(raw)

DocumentNext == FirstBlock \/ AnotherBlock

DocumentSpec == DocumentInit /\ [][DocumentNext]_document

-----------------------------------------------------------------------------
\* The blocks of the document, if it is accepted.
Accepted == {ValidateBlocks(document)} \ {<<>>}

(***************************************************************************)
(* What the administrator sends is what readers get: a document that is    *)
(* accepted is read leniently exactly as it was checked (parseBlock with   *)
(* and without strict).                                                    *)
(***************************************************************************)
CheckedAsRead == \A blocks \in Accepted : ParseBlocks(document) = blocks

(***************************************************************************)
(* Saving loses nothing: the accepted blocks can be written, the column is *)
(* read back as the same blocks, and the editor, which sends back what it  *)
(* was served, is not refused and changes nothing (ValidateBlocksJSON,     *)
(* MarshalBlocksJSON, ParseBlocksJSON).                                    *)
(***************************************************************************)
StoredReadsBack ==
    \A blocks \in Accepted : \A stored \in {MarshalBlocks(blocks)} :
        /\ Unwritable \notin Range(stored)
        /\ ParseBlocks(stored) = blocks /\ ValidateBlocks(stored) = blocks

(***************************************************************************)
(* Whatever the column holds, a post can be served: of blocks that were    *)
(* read none fails to be written as JSON, which would fail the whole       *)
(* answer, and the reader is shown the blocks that were read.              *)
(***************************************************************************)
AnythingIsServed ==
    \A blocks \in {ParseBlocks(document)} :
        \A served \in {[i \in DOMAIN blocks |-> Served(blocks[i])]} :
            Unwritable \notin Range(served) /\ ParseBlocks(served) = blocks

(***************************************************************************)
(* A post stands in the feed with its first paragraph and its first audio  *)
(* block, or its first medium when it has none (FeedSummary).              *)
(***************************************************************************)
FirstStandsForAll ==
    \A blocks \in {ParseBlocks(document)} :
        LET paragraphs == {i \in DOMAIN blocks : blocks[i].type = "paragraph"}
            media == {i \in DOMAIN blocks : blocks[i].type = "media"}
            audio == {i \in media : blocks[i].mediaKind = <<"audio">>}
            FirstOf(places) == IF places = {} THEN <<>> ELSE <<blocks[Min(places)]>>
        IN  /\ FeedSummary(blocks).media = FirstOf(IF audio = {} THEN media ELSE audio)
            /\ FeedSummary(blocks).text =
                  IF paragraphs = {} THEN <<>> ELSE blocks[Min(paragraphs)].text

(***************************************************************************)
(* An accepted document is read as it was checked and again after it was   *)
(* stored, and whatever is stored can be served, with its first blocks in  *)
(* the feed.                                                               *)
(***************************************************************************)
ContentIsKept ==
    /\ CheckedAsRead
    /\ StoredReadsBack
    /\ AnythingIsServed
    /\ FirstStandsForAll
=============================================================================
