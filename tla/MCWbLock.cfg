\* Two tray programs and three commands, each started again and again.
CONSTANTS
    g1 = g1
    g2 = g2
    t1 = t1
    t2 = t2
    t3 = t3
    Gui = {g1, g2}
    Tool = {t1, t2, t3}
    Nobody = Nobody
SYMMETRY Symmetry
SPECIFICATION Spec
INVARIANTS
    OneTool
    OneGui
