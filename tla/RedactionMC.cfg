CONSTANTS
    MaxTokens = 5
    Messages <- SomeMessages

SPECIFICATION Spec

CHECK_DEADLOCK FALSE

PROPERTIES
    NothingShows
    PlainSettles
    ProseStays
