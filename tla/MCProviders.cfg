SPECIFICATION FairSpec
CONSTANTS
    Analyses = {a1}
    Requests = {r1}
    Main = "H1"
    Others <- MCOthers
    Keys = {"twelve_data"}
    Limit = 1
    MaxDay = 1
INVARIANTS
    OvershootBounded
    SpentIsAnswered
    BundleIsTrue
PROPERTY FetchesEnd
