CONSTANTS
    Worker = {w1, w2}
    Kinds = {"image", "song", "video"}
    MaxFailures = 2
    MaxExtras <- Extras
SPECIFICATION Spec
INVARIANTS Generations Objects
PROPERTIES FinalStays CardSettles
CHECK_DEADLOCK FALSE
