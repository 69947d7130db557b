SPECIFICATION Spec
CONSTANTS
    Wait = 1
    MaxChanges = 1
    MaxFaults = 1
PROPERTIES
    AllAgreed
