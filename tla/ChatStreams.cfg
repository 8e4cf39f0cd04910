SPECIFICATION Spec
CONSTANTS
    MaxTurns = 2
    N = 2
    MaxExtras = 1
INVARIANTS TextInOrder CompletedIsWhole EndsOnce SnapshotIsLive TemporaryForgotten
PROPERTIES StopKeepsPartial QuestionsEnd
CHECK_DEADLOCK FALSE
