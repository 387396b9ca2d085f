\* One tray program and one command: the lock does not keep them apart.
CONSTANTS
    g1 = g1
    t1 = t1
    Gui = {g1}
    Tool = {t1}
    Nobody = Nobody
SPECIFICATION Spec
INVARIANTS
    GuiExcludesTool
