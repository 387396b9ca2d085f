\* One control thread that may set the hotkey flag again after it has unplugged a function.
CONSTANTS
    Caller = {c1}
    Iface = {i1, i2}
    NoIface = NoIface
    HotkeyValues = {0}
    AntennaValues = {}
SPECIFICATION Spec
SYMMETRY Symmetry
INVARIANTS
    StartWithOSOnlyOnce
CHECK_DEADLOCK FALSE
