\* Sending: a wallet and two emails, one visitor besides the panel, three
\* transactions, one press and one switch.  The session: two wallet accounts,
\* two events.  Swapping: three edits of the form, the registry or the window's focus;
\* an amount and the empty field; one split, in halves; inputs of 14 and more are
\* written with a separator.  Sacrificing: three moves.
\* Holders: a pool and a newcomer, five polls, one change of the ledger.  The
\* scene: five frames of them.  Tools: two presses, two card toggles.
SPECIFICATION Spec
CONSTANTS
    Account = {"wal", "ann", "bob"}
    Sponsor = "sponsor"
    Slot = {"panel", "visitor"}
    InitialLedger <- NewLedger
    MaxTxs = 3
    Wallet = "wal"
    Emails = {"ann@mail", "bob@mail"}
    Derived <- AccountOf
    Typed = {"bob"}
    PanelSlot = "panel"
    MaxSwitches = 1
    MaxPresses = 1
    WalletKeys = {"w1", "w2"}
    EmailKey = "ann"
    MaxEvents = 2
    Hitz = "HITZ"
    Probe = 10
    SplitStep = 50
    Amounts = {0, 10}
    Registries <- TwoRegistries
    Graphs <- TwoGraphs
    SlippageBps = 50
    GroupFrom = 14
    MaxEdits = 3
    Scale = 5
    Purses <- SomePurses
    TypedAmounts = {2, 4, 6}
    Drifts <- UpAndDown
    MaxMoves = 3
    Shown = {"growth"}
    MaxCalls = 2
    MaxToggles = 2
    Address = {"new", "pol"}
    Horizon = 4
    Held = {0, 5}
    IndexRefresh = 1
    EdgeLife = 1
    MaxPolls = 5
    MaxChanges = 1
    Frames <- SomeFrames
    Limits = {4, 5}
    Masses = {6, 8}
    Sizes = {1, 2}
INVARIANTS
    QuoteMatchesForm
    HeaderIsTrue
    OkMeansReady
    ReportedTransfersLanded
    NewcomersAppear
    SceneMatchesPage
    ResultsAreTrue
PROPERTIES
    ActivityNeverRewinds
    SuggestedSacrificeFrees
CHECK_DEADLOCK FALSE
