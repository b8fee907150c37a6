SPECIFICATION Spec
CONSTANTS
    Lbas = {0, 1, 2}
    LbaModulus = 2
    Values = {v1, v2}
    Zero = zero
    Geometry = {size}
    None = none
    Firmware <- MCFirmware
PROPERTIES
    ReadReturnsDisk
    WriteStored
    EveryRequestReturns
CHECK_DEADLOCK FALSE
