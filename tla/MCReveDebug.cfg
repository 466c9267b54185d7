SPECIFICATION FairSpec
CONSTANTS
    v1 = v1
    Values = {v1}
    LastSlot = 1
    Hosts <- SomeHosts
    Patience = 27
INVARIANTS StatusIsCurrent DoneAsAsked ProgramUntouched
PROPERTIES CommandFinishes HaltTaken ResumeTaken
