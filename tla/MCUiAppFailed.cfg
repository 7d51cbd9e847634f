SPECIFICATION Spec
CONSTANTS
    MaxElements = 1
    MaxDepth = 3
PROPERTIES
    FailedOnlyShutsDown
