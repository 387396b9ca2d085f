\* One process, the card coming and going at any time, opens may fail.
CONSTANTS
    Caller = {p1}
    Iface = {i1, i2}
    NoIface = NoIface
    NoProcess = NoProcess
    HotkeyValues = {0}
    AntennaValues = {}
    Goals = {"query", "remove", "bt", "wlan", "combo"}
    AllowedModes = {"bt", "wlan", "combo"}
    ConfiguredHotkey = 0
    HotPlug = TRUE
    Tries = 2
SPECIFICATION ToolSpec
PROPERTIES
    CommandsEnd
CHECK_DEADLOCK FALSE
