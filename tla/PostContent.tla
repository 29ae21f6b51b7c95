---------------------------- MODULE PostContent ----------------------------
(***************************************************************************)
(* The blocks of a post (backend/internal/content/content.go): how a       *)
(* document of JSON is read, strictly from the administrator and leniently *)
(* from the database, written back, served, and summed up for the feed.    *)
(*                                                                         *)
(* A document is a sequence of objects, an object a record of the fields   *)
(* it has, a field a JSON value [is, of]; a text is a sequence of UTF-16   *)
(* units.  A node or mark of another shape than the code's structure fails *)
(* like one of an unsupported type and is not a case of its own.           *)
(***************************************************************************)
EXTENDS Integers, SequencesExt

CONSTANTS
    Blanks,                   \* the units that TrimSpace removes
    Numerals,                 \* the texts that are a number, with the number
    SafeLinks, SafeSources,   \* texts that safeLink and safeMediaSource accept
    MaxBlocks, MaxText, MaxMediaText  \* Limits

ASSUME ContentAssumption ==
    /\ {MaxBlocks, MaxText, MaxMediaText} \subseteq Nat \ {0}
    /\ <<>> \notin SafeLinks \cup SafeSources
    /\ Blanks \cap {"paragraph", "heading", "quote", "divider", "media", "unknown",
                    "image", "gif", "video", "audio", "file"} = {}

TrimSpace(s) ==
    LET ink == {i \in DOMAIN s : s[i] \notin Blanks}
    IN  IF ink = {} THEN <<>> ELSE SubSeq(s, Min(ink), Max(ink))

\* An object with the fields that are not absent.
Absent == [is |-> "absent"]
Present(fields) == [f \in {g \in DOMAIN fields : fields[g] # Absent} |-> fields[f]]

ParseError == [type |-> "error"]
UnknownBlock == [type |-> "unknown"]
Is(raw, name, kind) == name \in DOMAIN raw /\ raw[name].is = kind

-----------------------------------------------------------------------------
\* textField: <<>> stands for no text.
TextField(raw, name) == IF Is(raw, name, "string") THEN TrimSpace(raw[name].of) ELSE <<>>

ReadMark(mark) == [mark EXCEPT !.href = TrimSpace(@)]

MarkAllowed(mark) ==
    \/ mark.type \in {"bold", "italic", "code"} /\ mark.href = <<>>
    \/ mark.type = "link" /\ mark.href \in SafeLinks

ReadNode(node) == [node EXCEPT !.marks = [i \in DOMAIN @ |-> ReadMark(@[i])]]

NodeAllowed(node) ==
    /\ node.type = "text"
    /\ \A i \in DOMAIN node.marks :
        /\ MarkAllowed(node.marks[i])
        /\ \A j \in 1 .. i - 1 : node.marks[j].type # node.marks[i].type

\* parseInline: the nodes and their plain text, or no nodes.
ParseInline(value) ==
    LET nodes == IF value.is = "array" THEN [i \in DOMAIN value.of |-> ReadNode(value.of[i])]
                 ELSE <<>>
        text == TrimSpace(FlattenSeq([i \in DOMAIN nodes |-> nodes[i].text]))
    IN  IF (\A i \in DOMAIN nodes : NodeAllowed(nodes[i])) /\ text # <<>>
        THEN [nodes |-> nodes, text |-> text]
        ELSE [nodes |-> <<>>, text |-> <<>>]

\* headingLevel: read leniently, a number may be written as 2.0 or "2".
HeadingLevel(raw, strict) ==
    LET value == raw["level"]
        text == TrimSpace(value.of)
        level ==
            IF Is(raw, "level", "int") THEN value.of
            ELSE IF Is(raw, "level", "float") /\ ~strict THEN value.of
            ELSE IF Is(raw, "level", "string") /\ ~strict /\ text \in DOMAIN Numerals
            THEN Numerals[text]
            ELSE 0
    IN  IF level \in 1 .. 3 THEN level ELSE 0

\* Mutant: the nodes that could not be read are kept beside the text.
ParseTextKeeping(raw, strict) ==
    LET text == TextField(raw, "text")
        inline == IF "content" \in DOMAIN raw THEN ParseInline(raw["content"])
                  ELSE [nodes |-> <<>>, text |-> text]
    IN  IF inline.text # <<>> THEN inline
        ELSE IF strict THEN inline
        ELSE [nodes |-> IF Is(raw, "content", "array") THEN raw["content"].of ELSE <<>>, text |-> text]

\* The nodes and text of a text block; invalid nodes are given up for the
\* text of older posts when reading leniently.  No text: no block.
ParseText(raw, strict) ==
    LET text == TextField(raw, "text")
        inline == IF "content" \in DOMAIN raw THEN ParseInline(raw["content"])
                  ELSE [nodes |-> <<>>, text |-> text]
    IN  IF inline.text # <<>> \/ strict THEN inline ELSE [nodes |-> <<>>, text |-> text]

ParseTextBlock(raw, type, strict) ==
    LET level == HeadingLevel(raw, strict)
        parsed == ParseText(raw, strict)
    IN  IF parsed.text = <<>> \/ (type = "heading" /\ level = 0) THEN ParseError
        ELSE IF type = "heading"
        THEN [type |-> type, text |-> parsed.text, content |-> parsed.nodes, level |-> level]
        ELSE [type |-> type, text |-> parsed.text, content |-> parsed.nodes]

MediaKinds == {<<"image">>, <<"gif">>, <<"video">>, <<"audio">>, <<"file">>}

ParseMedia(raw, strict) ==
    LET kind == TextField(raw, "mediaKind")
        src == TextField(raw, "src")
        spoilt == "spoiler" \in DOMAIN raw /\ raw["spoiler"].is \notin {"bool", "null"}
    IN  IF kind \notin MediaKinds \/ src \notin SafeSources \/ (spoilt /\ strict) THEN ParseError
        ELSE [type |-> "media", mediaKind |-> kind, src |-> src,
              spoiler |-> Is(raw, "spoiler", "bool") /\ raw["spoiler"].of,
              name |-> TextField(raw, "name"), alt |-> TextField(raw, "alt"),
              caption |-> TextField(raw, "caption")]

TextTypes == {"paragraph", "heading", "quote"}
TypeNames == [t \in {<<"paragraph">>, <<"heading">>, <<"quote">>, <<"divider">>, <<"media">>} |-> t[1]]

\* parseBlock.  A raw block that is no object has no fields.
ParseBlock(raw, strict) ==
    LET name == TextField(raw, "type")
        type == IF name \in DOMAIN TypeNames THEN TypeNames[name] ELSE "other"
    IN  CASE type \in TextTypes -> ParseTextBlock(raw, type, strict)
          [] type = "divider" -> [type |-> "divider"]
          [] type = "media" -> ParseMedia(raw, strict)
          [] OTHER -> ParseError

-----------------------------------------------------------------------------
\* ParseBlocksJSON: a block that cannot be read is an unknown one.
ParseBlocks(document) ==
    [i \in DOMAIN document |->
        LET block == ParseBlock(document[i], FALSE)
        IN  IF block = ParseError THEN UnknownBlock ELSE block]

WithinLimits(block) ==
    /\ block.type \in TextTypes => Len(block.text) <= MaxText
    /\ block.type = "media" =>
        \A text \in {block.name, block.alt, block.caption} : Len(text) <= MaxMediaText

\* ValidateBlocksJSON: the blocks, or none.
ValidateBlocks(document) ==
    LET blocks == [i \in DOMAIN document |-> ParseBlock(document[i], TRUE)]
    IN  IF /\ Len(document) <= MaxBlocks
           /\ \A i \in DOMAIN blocks : blocks[i] # ParseError /\ WithinLimits(blocks[i])
        THEN blocks ELSE <<>>

String(text) == [is |-> "string", of |-> text]
TypeField(type) == [type |-> String(<<type>>)]

Unwritable == TypeField("error")

\* A field with "omitempty".
Unless(empty, value) == IF empty THEN Absent ELSE value

StoredText(block) ==
    Present([type |-> String(<<block.type>>),
             text |-> String(TrimSpace(block.text)),
             content |-> Unless(block.content = <<>>, [is |-> "array", of |-> block.content]),
             level |-> IF block.type = "heading" THEN [is |-> "int", of |-> block.level] ELSE Absent])

StoredMedia(block) ==
    LET Optional(text) == Unless(TrimSpace(text) = <<>>, String(TrimSpace(text)))
    IN  Present([type |-> String(<<"media">>), mediaKind |-> String(block.mediaKind),
                 src |-> String(block.src), spoiler |-> [is |-> "bool", of |-> block.spoiler],
                 name |-> Optional(block.name), alt |-> Optional(block.alt),
                 caption |-> Optional(block.caption)])

\* storageBlock: what is written of a block.
StorageBlock(block) ==
    CASE block.type \in TextTypes ->
            LET again == ParseInline([is |-> "array", of |-> block.content])
            IN  IF block.type = "heading" /\ block.level \notin 1 .. 3 THEN Unwritable
                ELSE IF block.content = <<>>
                THEN IF TrimSpace(block.text) = <<>> THEN Unwritable ELSE StoredText(block)
                ELSE IF again.text = <<>> THEN Unwritable
                ELSE StoredText([block EXCEPT !.content = again.nodes, !.text = again.text])
      [] block.type = "divider" -> TypeField("divider")
      [] block.type = "media" ->
            IF block.mediaKind \in MediaKinds /\ block.src \in SafeSources
            THEN StoredMedia(block) ELSE Unwritable
      [] OTHER -> Unwritable

\* MarshalBlocksJSON, of blocks that can all be written.
MarshalBlocks(blocks) == [i \in DOMAIN blocks |-> StorageBlock(blocks[i])]

\* Block.MarshalJSON: what the API serves of a block.
Served(block) == IF block = UnknownBlock THEN TypeField("unknown") ELSE StorageBlock(block)

-----------------------------------------------------------------------------
Better(preview, block) ==
    \/ preview = <<>>
    \/ block.mediaKind = <<"audio">> /\ preview[1].mediaKind # <<"audio">>

Summarise(summary, block) ==
    CASE block.type = "paragraph" /\ summary.text = <<>> -> [summary EXCEPT !.text = block.text]
      [] block.type = "media" /\ Better(summary.media, block) -> [summary EXCEPT !.media = <<block>>]
      [] OTHER -> summary

\* FeedSummary: the text and the medium that stand for a post in the feed.
FeedSummary(blocks) ==
    LET summary[n \in 0 .. Len(blocks)] ==
            IF n = 0 THEN [text |-> <<>>, media |-> <<>>]
            ELSE Summarise(summary[n - 1], blocks[n])
    IN  summary[Len(blocks)]
=============================================================================
