\* Spec P7: timestamps strictly increase; expected to be violated.
CONSTANTS
    LogicalTimeBits = 6
    MaxMillis = 2
SPECIFICATION Spec
PROPERTY Monotonic
