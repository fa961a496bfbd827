SPECIFICATION FairSpec
CONSTANTS
    KB_BUFFER_SIZE = 4
    Scancodes = {"E0", "c", "c_up", "ctrl", "ctrl_up", "arrow", "slash"}
INVARIANTS ReadNeverWaits SlotKept
PROPERTIES RefinesQueue KeysDelivered
