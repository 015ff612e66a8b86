\* Three callers that put back what they were given, and a few calls after the
\* first backward merge.
SPECIFICATION Spec
CHECK_DEADLOCK FALSE
CONSTANTS
    NPages = 10
    MaxOrder = 2
    Handle = {h1, h2, h3}
    None = None
    MaxAfter = 5
INVARIANTS
    HonestPutAccepted
