\* The tray program against a card that comes and goes and whose opens may fail.
CONSTANTS
    g = g
    Caller = {g}
    Gui = g
    Iface = {i1, i2}
    NoIface = NoIface
    HotkeyValues = {0}
    AntennaValues = {0}
    Configs <- MCConfigs
    ConfiguredHotkey = 0
    ConfiguredAntenna = 0
    Overlaps = FALSE
    Tries = 2
SPECIFICATION GuiSpec
INVARIANTS
    SwitchesAreAsked
    AnnouncedIsReal
PROPERTIES
    SwitchesEnd
    MenuComesBack
CHECK_DEADLOCK FALSE
