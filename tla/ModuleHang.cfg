\* A module that leaves a process behind; one call of it.
SPECIFICATION RuntimeSpec
CONSTANTS
    Calls = {h1}
CHECK_DEADLOCK FALSE
PROPERTY CallsEnd
