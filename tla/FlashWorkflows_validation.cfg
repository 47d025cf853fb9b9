SPECIFICATION FairSpec
CONSTANTS
    Deploys = {}
    Validations = {v1}
    Writers = {}
    Debuggers = {}
    None = None
    MaxFaults = 0
PROPERTIES
    ValidationPasses
CHECK_DEADLOCK FALSE
