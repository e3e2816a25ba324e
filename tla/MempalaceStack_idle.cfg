SPECIFICATION Spec
CONSTANTS
    Checks = {c1, c2}
    Window = 1
    Grace = 2
    MaxManual = 2
    MaxFaults = 1
PROPERTIES StaysUp GoesDown VerdictsRunOut
CHECK_DEADLOCK FALSE
