\* Two processes, the card plugged and pulled between commands, opens may fail.
CONSTANTS
    Caller = {p1, p2}
    Iface = {i1, i2}
    NoIface = NoIface
    NoProcess = NoProcess
    HotkeyValues = {0}
    AntennaValues = {}
    Goals = {"query", "remove", "bt", "wlan", "combo"}
    AllowedModes = {"bt", "wlan", "combo"}
    ConfiguredHotkey = 0
    HotPlug = FALSE
    Tries = 2
SPECIFICATION ToolSpec
INVARIANTS
    CommandsNeverOverlap
    OpensInOrder
PROPERTIES
    SwitchSucceeds
