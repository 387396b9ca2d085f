\* Two ioctl threads and the USB core contending for openLock, re-insertion
\* of the card and a second one.
CONSTANTS
    Caller = {c1, c2}
    HubThread = khubd
    Iface = {i1}
    NoIface = NoIface
    Hdev = {h1}
    NoHdev = NoHdev
    SecondCard = TRUE
    WaitList = wait_list
    HotkeyValues = {}
    AntennaValues = {}
SPECIFICATION BtSpec
INVARIANTS
    PointerGuarded
    HciTracksBus
    HciNeedsPower
    MemoryErrorsNeedOverlap
PROPERTIES
    CallsReturn
CHECK_DEADLOCK FALSE
