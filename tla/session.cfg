\* In the log a tool result that does not end its batch stands for an
\* assistant's message.
SPECIFICATION TalkSpec
CONSTANTS
    MaxEntries = 4
    Roles = {"system", "user", "tool"}
    Says <- MCSays
    MaxHistory = 4
    Tables <- MCTables
    Showings <- MCShows
    Setups <- MCSetups
    Talks <- MCTalks
    Replies <- MCReplies
    Reasons <- MCReasons
    MaxHeard <- MCMaxHeard
    Nodes <- MCNodes
    Feeds <- MCFeeds
    MaxFed <- MCMaxFed
INVARIANTS
    ToldOnce
    PairingHolds
    RequestLegal
    WireHolds
    RetriesFit
    AnswersHold
PROPERTIES PrefixKept KeepsTranscript
\* A conversation ends with its feeds, and a log when MaxEntries entries were
\* made and the file cannot be loaded.
CHECK_DEADLOCK FALSE
