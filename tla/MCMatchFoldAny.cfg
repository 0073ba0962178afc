SPECIFICATION Spec
CONSTANTS
    Event <- MCEvent
    Correction <- MCCorrection
    Home = "H"
    Away = "A"
    NoTeam = "none"
    Shuffled <- MCShuffled
    MaxLog = 5
    MaxInOrder = 7
    Swing <- MCSwing
    MAX_MOMENTS = 4
    BIG_CHANCE_XG = 30
    Second <- MCSecond
INVARIANTS
    OrderIrrelevant
    GoalsCountByLastDecision
    OneScore
    LabelCountsEveryGoal
    AskedLaterAnswersAsThen
    ViewsAgree
    GoalOutlivesChance
    LedeIsTrue
    ReplayTellsTheMatch
PROPERTIES
    GoalsStayVisible
CHECK_DEADLOCK FALSE
