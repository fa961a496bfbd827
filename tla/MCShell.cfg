SPECIFICATION Spec
CONSTANTS
    COLS = 3
    ROWS = 2
    SCROLLBACK = 3
    Blank = blank
    NL = nl
    BS = bs
    Other = other
    MAX_CMD = 4
    Letter = {c, e, s, x}
    Clear = c
    Echo = e
    Show = s
    Exec = x
    Prompt = prompt
    Text = text
    Programs <- MCPrograms
    SLIDE = 2
    MemSize = 4
    Zero = zero
    Dirt = dirt
INVARIANTS InkBehindCursor EchoFaithful ImageExact
