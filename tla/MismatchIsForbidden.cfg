SPECIFICATION Spec
CONSTANTS
    Supported = {1, 2, 3}
    Foreign = {9}
INVARIANT
    MismatchIsForbidden
