SPECIFICATION Spec
CONSTANTS
    N = 2
    SeqMod = 4
    MaxFrames = 4
    MaxFlight = 2
    Keys <- MCKeys
    Points <- MCPoints
    Width = 32
    Height = 16
    Scale = 10
INVARIANTS
    TypeOK
    LinesMergeOnce
    GameOverIsDead
    ScoreLaw
    Mirror
    InputsSurviveWire
CHECK_DEADLOCK FALSE
