SPECIFICATION Spec
CONSTANTS
    Runs = {r1, r2}
    Rivals = {r2}
    Edited = {"manifest", "supervisor"}
    MaxEdits = 1
INVARIANTS
    PublishedEvidenceIsTrue
    AnswerMatchesTheDisk
PROPERTIES
    DestinationIsWrittenOnce
    EveryRunEnds
