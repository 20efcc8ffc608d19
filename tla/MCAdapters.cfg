SPECIFICATION AdaptersSpec
CONSTANTS
    Quote <- MCQuote
    Duration = 20
    Drafts <- MCDrafts
    Captions = {1, 2, 3}
    Local = local
    Hosted = hosted
    VideoJobs <- MCVideoJobs
    MaxFaulty = 1
    MusicJobs <- MCMusicJobs
    HostedSheets <- MCHostedSheets
    HostedTries = 2
INVARIANTS
    AdaptersTypeOK
    UserLinesSurvive
    GoneAreGone
    LocalIsAsked
    DecoderSurvives
    PlanIsWhole
    BarNeverHeldBack
    SungAsAsked
    AcceptableIsShipped
    SongIsWhole
PROPERTIES
    CancelledEnds
\* A job that is over stays so.
CHECK_DEADLOCK FALSE
