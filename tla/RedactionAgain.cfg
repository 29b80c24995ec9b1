CONSTANTS
    MaxTokens = 3
    Messages <- ShortMessages

SPECIFICATION Spec

CHECK_DEADLOCK FALSE

PROPERTY ScrubsToItself
