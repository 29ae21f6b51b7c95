\* Titles of up to six characters, or three of up to five together; texts of
\* up to six graphemes, with small thresholds; comments of up to three
\* pieces, cut at five units; documents of up to three blocks; three tables,
\* and three changes from outside.
SPECIFICATION AlgorithmsSpec
CONSTANTS
    SmallLetters <- TitleLetters
    CapitalLetters <- UpperToLower
    DigitCharacters <- DecimalDigits
    Mark = "mark"
    SpaceCharacter = " "
    Dash = "-"
    Fallback <- Post
    Alphabet = {"a", "A", "3", "mark", " ", "-"}
    MaxTitle = 6
    MaxTitles = 3
    MaxTyping = 5
    Letters = {"a", "b"}
    Capitals = {"A"}
    LowerCase <- MCLowerCase
    Vowels = {"a"}
    Digits = {"1", "2"}
    Numbers = {"1/2"}
    Symbols = {"+", "<"}
    Marks = {"nel"}
    Spaces = {" "}
    Links = {"http", "www"}
    Latin = {"a", "b", "A"}
    Connectors = {}
    Unprinted = {"nel"}
    Angles = {"<"}
    MaxLength = 6
    MaxURLCount = 1
    MaxTokenLength = 5
    RandomTextMinLength = 4
    RandomTokenMinLength = 2
    RandomTokenMinCount = 2
    MaxRepeatedCharRun = 3
    MaxRepeatedSymbolRun = 2
    MaxRepeatedTokenRun = 2
    DiversityMinTokens = 3
    DiversityMinLength = 5
    DominanceMin = 3
    VarietyMin = 6
    SymbolsMin = 4
    RandomShare = 50
    DiversityShare = 50
    DominanceShare = 72
    VarietyShare = 50
    SymbolsShare = 85
    FingerprintLength = 5
    Typed = {"a", "b", "A", "+", "nel", " "}
    MaxTyped = 6
    MaxEdits = 3
    Blanks = {" "}
    Numerals <- MCNumerals
    SafeLinks <- MCSafeLinks
    SafeSources <- MCSafeSources
    MaxBlocks = 2
    MaxText = 2
    MaxMediaText = 2
    MaxDocument = 3
    Required <- MCRequired
    EarlyColumns <- MCEarlyColumns
    AddedColumns <- MCAddedColumns
    LaterIndexes = {"status"}
    ParentKey <- MCParentKey
    MigrationTable <- MCMigrationTable
    SlugIndex = "slugs"
    MaxChanges = 3
INVARIANTS
    SlugsHold
    CommentsAreJudged
    ContentIsKept
    SchemasAreKnown
\* An input is not built any further than the bounds.
CHECK_DEADLOCK FALSE
