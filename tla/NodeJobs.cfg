SPECIFICATION Spec
CONSTANTS
    NumJobs = 1
    Conns = {1, 2}
    AutoAccept = {}
    Scenarios <- PairsAndSingles
INVARIANTS AtMostOnce ResultKept
PROPERTIES FinalStatus OutcomeArrives OfferArrives
