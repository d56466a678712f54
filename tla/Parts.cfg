SPECIFICATION PartsSpec
CONSTANTS
    Window = 2
    PerArc = 2
    Verbatim = 1
    MaxTurns = 5
    MaxRows = 5
    MaxPins = 1
    MaxCalls = 2
    Windows = {40, 60}
    Rulesets = {16, 90}
    Policies = {8}
    Outcomes = {30}
    Pinned = {0, 40}
    ItemLengths = {4, 13}
    MaxItems = 2
    ReservePct = 20
    SystemPct = 15
    ScenePct = 40
    MemoryPct = 30
    ContinuityPct = 30
    Retries = 1
    ParseAttempts = 2
    Items = {i, j}
    Known = {i}
    MaxTales = 1
    MaxTurn = 3
    MaxMoves = 3
    Sentences = {"denial", "ghost", "stock"}
    Silence = Silence
    StockLine = "stock"
    Places = {1, 2}
    Opening = 1
    Entries = {1}
    Voices = {"anselm"}
    Dead = {"anselm"}
    Lore = {"oath", "law"}
    Claims = {"vow", "spend"}
    Pins <- LoreOf
    Against <- Denials
    Heard <- Ghosts
    Restates <- Boasts
    FirstCanon <- LawOrNone
    MaxTold = 1
    MaxTries = 2
    sa = sa
    sb = sb
    sc = sc
    Statements = {sa, sb, sc}
    Similar <- TwoAlike
    Fighters = {"hero", "wolf"}
    Enemies = {"wolf"}
    Under = {"wolf"}
    Archers = {"wolf"}
    NoOne = NoOne
    MaxHp = 12
    MaxStamina = 4
    Might <- HeroIsStrong
    Reduction <- HeroIsClad
    Techniques <- BlowAndBalm
    BaseCost <- Costs
    Modes = {"standard", "iron"}
    StartBands = {1}
    EnvDamage = 8
    Regen = 2
    BruisedRegen = 1
    DeepBlow = 8
    MaxRepeats = 1
    MaxTurnsTaken = 2
    MaxPauses = 2
    Chronicles = {c1, c2}
    Sends = {1, 2}
    Boundaries = {mild, free}
    Nil = Nil
    c1 = c1
    c2 = c2
    mild = mild
    free = free
    FirstLimits = {mild}
    FirstStored = {"absent", "foreign", "live"}
    MaxChanges = 2
    MaxTroubles = 2
    Inputs <- Typed
    Completions <- Tales
    Environments = {"broken", "whole"}
    FirstRows <- EmptyOrBroken
    Faces = {1, 20}
    Shifts <- Warmth
    RepeatAfter = 3
    IdleAfter = 2
    FirstPoints = 1
    MaxActs = 3
    MaxSaves = 1
    People = {"borin", "anselm"}
    Events <- Happenings
    Spans = {90}
    Approaches = {"coin", "pressure"}
    Bands = {13}
    Cap = 2
    MaxBeats = 4
    MaxFlips = 1
    Asked = 3
    Points = 2
    plain = plain
    Choices = {plain, odd}
    Default = odd
    Blank = Blank
    Heroes <- Roll
    Tabs = {1, 2}
    MaxJourneys = 1
VIEW OwnPart
SYMMETRY TalesAlike
INVARIANTS
    TypeOK
    MemorySound
    WithinBudget
    LinkHonest
    MindSteady
    CanonHolds
    FightSound
    PilotSound
    TellingSound
    RegardSound
    WizardSound
PROPERTY
    FightGoesOn
CHECK_DEADLOCK FALSE
