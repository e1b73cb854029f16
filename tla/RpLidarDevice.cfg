\* Every step of bring-up may fail, the sensor is unplugged and plugged twice.
SPECIFICATION DeviceSpec
CONSTANTS
    MaxReplug = 2
INVARIANTS
    FullyOpenOrClosed
    
