SPECIFICATION MCSpec
CONSTANTS
    Pieces = {"x", "y"}
    Garbage = "garbage"
    MaxEvents = 7
    FeedsFile <- MCFeedsFile
    Document <- MCDocument
    Articles <- MCArticles
    ServerOf <- MCServerOf
    Answers <- MCAnswers
    Text <- MCText
    Words = {"x", "y", "the"}
    StopWordsFile <- MCStopWordsFile
    MaxFeedCalls = 2
    MaxCalls = 6
    Thread = {t1, t2}
    Key = {1, 3}
    Same <- MCSame
    Positions = {0}
    NoThread = NoThread
    TSCalls = 3
    Player = {1, 2, 3, 4}
    Film <- MCFilm
    NameLength <- MCNameLength
    Casts <- MCCasts
    NumToPrint = 1
    HOW_FAR = 3
    Nonterminal = {"<start>", "<np>", "<vp>", "<pp>"}
    START_NON_TERM = "<start>"
    GrammarFiles <- MCGrammarFiles
    VERSION_NUMBER = 3
    MaxTokens = 7
    Bases = {"A", "C", "G"}
    Space = "-"
    MaxLength = 3
    Star = {"s1", "s2", "s3"}
    Distance = {4, 5}
    Ratings = {0, 1}
    MaxGuess = 4
INVARIANTS
    ItemsAsWritten
    NoDuplicateArticles
    IndexExact
    RedirectsLeaveServers
    Linearizable
    CostarsExact
    ShortestPathFound
    QueueByLength
    ScoreOfAlignment
    GuessesRanked
PROPERTIES
    ArticlesReturn
    CallsReturn
    DerivesText
CHECK_DEADLOCK FALSE
