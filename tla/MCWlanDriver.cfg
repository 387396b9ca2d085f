\* Two ioctl threads and the USB core, with re-insertion of the card.
CONSTANTS
    Caller = {c1, c2}
    HubThread = khubd
    Iface = {i1, i2}
    NoIface = NoIface
    Netdev = {n1, n2}
    NoNetdev = NoNetdev
    HotkeyValues <- MCHotkeyValues
    AntennaValues <- MCAntennaValues
SPECIFICATION WlanSpec
SYMMETRY MCSymmetry
INVARIANTS
    NetdevUsable
    WlanTracksBus
    WlanErrorsNeedCause
PROPERTIES
    RefusedStaysOff
CHECK_DEADLOCK FALSE
