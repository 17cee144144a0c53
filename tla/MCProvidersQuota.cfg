SPECIFICATION Spec
CONSTANTS
    Analyses = {a1, a2}
    Requests = {r1}
    Main = "H1"
    Others <- MCOthers
    Keys = {"twelve_data"}
    Limit = 2
    MaxDay = 0
INVARIANT DailyQuota
