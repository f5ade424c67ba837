SPECIFICATION Spec
CONSTANTS
    f1 = f1
    f2 = f2
    File = {f1, f2}
    Kinds = {"message", "assistant", "label"}
    Faults = {}
    MaxEntries = 4
    MaxFaults = 0
PROPERTY CloneKeepsHistory
CHECK_DEADLOCK FALSE
