SPECIFICATION FairSpec
CONSTANTS
    Runs = {r1}
    Workers = {w1, w2}
    Clients = {c1}
    Nobody = Nobody
    Former = Former
    NoRun = NoRun
    Budget <- LiveBudget
PROPERTIES
    RunProgress
