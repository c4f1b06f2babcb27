CONSTANTS
    Steps = 2
    Attachments = {a1}
SPECIFICATION LifecycleFairSpec
CHECK_DEADLOCK FALSE
PROPERTIES DrainNotSkipped TaintRemoved EndsAfterKnown
