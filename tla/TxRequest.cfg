SPECIFICATION Spec
CONSTANTS
    Announced <- MCAnnounced
    ComputePriority <- MCComputePriority
    MaxTime = 1
    MaxSequence = 4
INVARIANTS SanityCheck AnswersExact PostGetRequestableSanityCheck
PROPERTIES ImplementsNaive
