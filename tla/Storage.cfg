\* Two processes that start on a production database, with two faults; or two
\* files and two clients that ask for backups, with two crashes.
SPECIFICATION StorageSpec
CONSTANTS
    PostIds <- MCPostIds
    t1 = t1
    t2 = t2
    Titles <- MCTitles
    NoPost = NoPost
    NoSlug = NoSlug
    None = None
    Processes = {p1, p2}
    Production = TRUE
    MaxFaults = 2
    MaxUses = 1
    Files = {f1, f2}
    Admins = {a1, a2}
    MaxCrashes = 2
    MaxBackups = 3
INVARIANTS
    StartsSafely
    ArchivesAreWhole
    RefusesOnlyUnknown
    NothingLeft
PROPERTIES
    Upgrades
    StorageRecovers
\* A start that is refused is over.
CHECK_DEADLOCK FALSE
