SPECIFICATION FairSpec
CONSTANTS
    Harts = {0}
    NoHart = NoHart
    Values = {0, 1}
    DmiGap = 1
    Controls <- SomeControls
INVARIANTS
    TypeOK
    HaltedIsParked
    BusyWhileExecuting
    ResumeAckIsFresh
PROPERTIES
    CommandEffect
    NoCommandLost
    CommandFinishes
    HaltTaken
    ResumeTaken
