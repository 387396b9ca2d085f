\* Two threads inside the ioctl handler and the USB core; both hotkey flags
\* and an antenna that makes a difference.
CONSTANTS
    Caller = {c1, c2}
    Iface = {i1, i2}
    NoIface = NoIface
    HotkeyValues = {0, 1}
    AntennaValues = {2}
SPECIFICATION Spec
SYMMETRY Symmetry
INVARIANTS
    RegistrySound
    PnpTracksRegistry
    FaultsNeedOverlap
    StateTracksRadio
    ParaTracksConfig
    QueriesAgree
    AutoOpenJustified
PROPERTIES
    EachFunctionLives
CHECK_DEADLOCK FALSE
