SPECIFICATION GraceSpec
CONSTANTS
    Orders = {o1}
    Instances = {i1}
    StepMaxRetries = 1
    AttemptCap = 3
    MaxRestarts = 1
PROPERTIES
    NoDowntimeCharged
