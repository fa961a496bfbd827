------------------------------- MODULE Shell -------------------------------
(***************************************************************************)
(* The shell of kernel/shell.c on the console, with the loader of          *)
(* kernel/mach_o.c behind its exec command.  One key is one step: the      *)
(* loop of kmain takes the next one when the command has returned.  The    *)
(* name of a command is one character, its output stands for itself by one *)
(* line, and the memory the loader writes is a few addresses from SLIDE on.*)
(***************************************************************************)
EXTENDS Console, SequencesExt

CONSTANTS
    MAX_CMD,        \* size of cmd_buf
    Letter,         \* letters that can be typed
    Clear, Echo, Show, Exec,    \* the commands told apart, letters
    Prompt, Text,   \* what stands for "ovsb> " and for a message
    Programs,       \* the files exec finds
    SLIDE, MemSize, \* where programs are loaded, and the bytes looked at
    Zero, Dirt      \* a byte 0, and any byte an earlier program left

ASSUME ShellAssumption == (Letter \union {Prompt, Text}) \cap {NL, BS, Other} = {}

VARIABLES
    con,            \* the console
    cmd_buf,        \* the characters before cmd_pos
    mem,            \* memory from SLIDE on when mach_o_load has returned, Unknown
                    \* once the program has run: it may store anything there
    image,          \* the program loaded, Running once it has run, or NoProgram
    start, plain    \* history: the column behind the prompt; whether the line has
                    \* stayed printable and in its row since then

vars == <<con, cmd_buf, mem, image, start, plain>>

(* A file exec can read: its load commands.                                *)
Segment(vmaddr, vmsize, fileoff, filesize) ==
    [cmd |-> "segment", vmaddr |-> vmaddr, vmsize |-> vmsize,
     fileoff |-> fileoff, filesize |-> filesize]

(* The file that macho_pack.py makes of size bytes of code: one segment    *)
(* at the address where the loader puts it, behind a header of CODE_OFF    *)
(* bytes.                                                                  *)
CODE_OFF == 3
pack(name, size, entry_offset) ==
    [name |-> name, magic |-> TRUE,
     cmds |-> <<Segment(SLIDE, size, CODE_OFF, size),
                [cmd |-> "main", entryoff |-> entry_offset]>>]

NoProgram == [cmds |-> <<>>]
Running == [cmds |-> <<>>, name |-> "running"]
Mem == SLIDE .. SLIDE + MemSize - 1
Unknown == <<>>

-----------------------------------------------------------------------------
(* mach_o_load                                                             *)

(* file_base when command i is reached: the address of the first segment   *)
(* with bytes in the file.  An address of 0 counts as none.                *)
FileBase(p, i) ==
    LET segs == {j \in 1 .. i : /\ p.cmds[j].cmd = "segment"
                                /\ p.cmds[j].filesize > 0 /\ p.cmds[j].vmaddr # 0}
    IN  IF segs = {} THEN 0
        ELSE p.cmds[CHOOSE j \in segs : \A k \in segs : j <= k].vmaddr

Place(p, i) == p.cmds[i].vmaddr - FileBase(p, i) + SLIDE

(* Mutant: what the file does not fill keeps its old value.                *)
CopiedOver(m, p, i) ==
    LET s == p.cmds[i] IN
    [a \in Mem |-> IF s.filesize > 0 /\ a \in Place(p, i) .. Place(p, i) + s.filesize - 1
                   THEN <<p.name, s.fileoff + a - Place(p, i)>> ELSE m[a]]

(* Memory once segment i is there: the bytes of the file, then zeros.      *)
Copied(m, p, i) ==
    LET s == p.cmds[i]
        at == Place(p, i)
    IN  [a \in Mem |->
            CASE s.filesize > 0 /\ a \in at .. at + s.filesize - 1
                                  -> <<p.name, s.fileoff + a - at>>
              [] s.filesize > 0 /\ a \in at + s.filesize .. at + s.vmsize - 1
                                  -> Zero
              [] OTHER            -> m[a]]

LoadStep(p, m, i) == IF p.cmds[i].cmd = "segment" THEN Copied(m, p, i) ELSE m

Loaded(m, p) ==
    LET after[i \in 0 .. Len(p.cmds)] == IF i = 0 THEN m ELSE LoadStep(p, after[i - 1], i)
    IN  after[Len(p.cmds)]

(* The entry point: that of the last command that gives one, 0 for none.   *)
(* Of the thread state in LC_UNIXTHREAD the loader reads the fifth word,   *)
(* which is rdi; rip is the seventeenth.  A negative number stands for one *)
(* near 2^64, outside the memory.                                          *)
EntryOf(p, i) ==
    CASE p.cmds[i].cmd = "main"                               -> SLIDE + p.cmds[i].entryoff
      [] p.cmds[i].cmd = "unixthread" /\ FileBase(p, i) # 0   -> p.cmds[i].rdi - FileBase(p, i) + SLIDE
      [] OTHER                                                -> p.cmds[i].rdi

Gives(p) == {i \in 1 .. Len(p.cmds) : p.cmds[i].cmd # "segment"}
LastGiving(p) == CHOOSE i \in Gives(p) : \A j \in Gives(p) : j <= i

Entry(p) == IF ~p.magic \/ Gives(p) = {} THEN 0 ELSE EntryOf(p, LastGiving(p))

Segments(p) == {i \in 1 .. Len(p.cmds) : p.cmds[i].cmd = "segment" /\ p.cmds[i].filesize > 0}
Span(p, i) == Place(p, i) .. Place(p, i) + p.cmds[i].vmsize - 1

(* What the linker and macho_pack.py make and the loader does not check,   *)
(* in the addresses of the file: the segments with bytes in it are apart,  *)
(* the first is the lowest, all fit into the memory, and an entry point    *)
(* that LC_MAIN gives is in the first, which comes before it.  Nothing is  *)
(* assumed of rdi.                                                         *)
WellLinked(p) ==
    LET base == FileBase(p, Len(p.cmds)) IN
    /\ \A i \in Segments(p) : LET s == p.cmds[i] IN
          /\ s.vmaddr > 0 /\ s.filesize <= s.vmsize
          /\ base <= s.vmaddr /\ s.vmaddr + s.vmsize <= base + MemSize
          /\ \A j \in Segments(p) : LET t == p.cmds[j] IN
                i # j => s.vmaddr + s.vmsize <= t.vmaddr \/ t.vmaddr + t.vmsize <= s.vmaddr
    /\ \A e \in Gives(p) : p.cmds[e].cmd = "main" =>
          \E i \in Segments(p) : LET s == p.cmds[i] IN
             i < e /\ s.vmaddr = base /\ p.cmds[e].entryoff < s.vmsize

LoadCommand ==
    [cmd : {"segment"}, vmaddr : Nat, vmsize : Nat, fileoff : Nat, filesize : Nat]
        \union [cmd : {"main"}, entryoff : Nat] \union [cmd : {"unixthread"}, rdi : Nat]

ASSUME ProgramAssumption ==
    /\ SLIDE \in Nat \ {0} /\ MemSize \in Nat
    /\ \A p \in Programs : p.cmds \in Seq(LoadCommand) /\ (Entry(p) # 0 => WellLinked(p))

-----------------------------------------------------------------------------
(* Commands                                                                *)

Line(s) == Append(s, NL)
Message == Line(<<Text>>)

SkipBlanks(s) ==
    LET rest == {i \in 1 .. Len(s) : s[i] # Blank} IN
    IF rest = {} THEN <<>> ELSE SubSeq(s, Min(rest), Len(s))

UpToBlank(s) ==
    LET blanks == {i \in 1 .. Len(s) : s[i] = Blank} IN
    IF blanks = {} THEN s ELSE SubSeq(s, 1, Min(blanks) - 1)

Command(s) == UpToBlank(SkipBlanks(s))
Args(s) == SkipBlanks(SubSeq(SkipBlanks(s), Len(Command(s)) + 1, Len(SkipBlanks(s))))

cmd_help(c) == console_write(c, FlattenSeq([i \in 1 .. 12 |-> Message]))
cmd_clear(c) == Cleared
cmd_echo(c, args) == console_write(c, Line(args))

(* Three lines with numbers and one without.                               *)
cmd_info(c) ==
    LET number(d) == console_printf(d, <<Converted(<<Text>>), Plain(<<NL>>)>>)
    IN  console_printf(number(number(number(c))), <<Plain(Message)>>)

(* Four rows of up to COLS - 1 characters: an address, then the bytes as   *)
(* numbers and as characters.                                              *)
cmd_hexdump(c, args) ==
    IF args = <<>> THEN console_write(c, Message)
    ELSE console_write(c, FlattenSeq([i \in 1 .. 4 |-> Line([j \in 1 .. COLS - 1 |-> Text])]))

(* One line for each of the n entries.                                     *)
cmd_ls(c, n) == console_write(c, FlattenSeq([i \in 1 .. n |-> Message]))

(* Without an argument it goes up and prints nothing.                      *)
cmd_cd(c, args) == IF args = <<>> THEN c ELSE console_write(c, Message)

(* The console after a command that only prints.  Show stands for the      *)
(* commands whose lines do not depend on the shell.                        *)
execute(c, s) ==
    CASE Command(s) = <<>>          -> {c}
      [] Command(s) = <<Clear>>     -> {cmd_clear(c)}
      [] Command(s) = <<Echo>>      -> {cmd_echo(c, Args(s))}
      [] Command(s) = <<Show>>      -> {cmd_help(c), cmd_info(c), cmd_hexdump(c, Args(s)),
                                        cmd_cd(c, Args(s))}
                                        \union {cmd_ls(c, n) : n \in 0 .. 2}
      [] OTHER                      -> {console_write(c, Line(<<Text>> \o SkipBlanks(s)))}

Prompted(c) == console_write(c, <<Prompt>>)

shell_init == Prompted(console_write(console_init, Message))

(* kmain up to its loop: what it prints before console_init is cleared,    *)
(* and the framebuffer, that of the boot loader or the one it assumes,     *)
(* shows all ROWS and COLS.                                                *)
Init ==
    /\ con = shell_init
    /\ cmd_buf = <<>>
    /\ mem = Unknown
    /\ image = NoProgram
    /\ start = con.col /\ plain = TRUE

(* A new line begins on console c.                                         *)
Fresh(c) ==
    /\ con' = Prompted(c)
    /\ cmd_buf' = <<>>
    /\ start' = Prompted(c).col /\ plain' = TRUE

-----------------------------------------------------------------------------
(* shell_input                                                             *)

Waiting == image = NoProgram

Enter ==
    /\ Waiting
    /\ Command(cmd_buf) # <<Exec>>
    /\ \E c \in execute(console_write(con, <<NL>>), cmd_buf) : Fresh(c)
    /\ UNCHANGED <<mem, image>>

(* reboot, another of the commands of Show.                                *)
cmd_reboot ==
    /\ Waiting
    /\ Command(cmd_buf) = <<Show>>
    /\ con' = shell_init
    /\ cmd_buf' = <<>>
    /\ start' = shell_init.col /\ plain' = TRUE
    /\ mem' = Unknown
    /\ UNCHANGED image

(* exec of a fixed name, another of the commands of Show.                  *)
cmd_desktop == Command(cmd_buf) = <<Show>>

(* cmd_exec that ends early: no argument, no file, no memory, a file that  *)
(* is no Mach-O or gives no entry point.                                   *)
ExecFails ==
    /\ Waiting
    /\ cmd_desktop \/ Command(cmd_buf) = <<Exec>>
    /\ Fresh(console_write(con, <<NL>> \o Message))
    /\ UNCHANGED <<mem, image>>

(* The program is loaded, over what others left in memory, and runs.  No   *)
(* byte depends on another, so one value for all of them is enough.  What  *)
(* cmd_exec does between loading and starting (a stack from kmalloc, the   *)
(* process, kfree of the file) is in Process and in Slab, whose heap is    *)
(* taken here not to reach the image.                                      *)
ExecRuns(p) ==
    /\ Waiting
    /\ cmd_desktop \/ (Command(cmd_buf) = <<Exec>> /\ Args(cmd_buf) # <<>>)
    /\ Entry(p) # 0
    /\ \E left \in {Zero, Dirt} : mem' = Loaded([a \in Mem |-> left], p)
    /\ image' = p
    /\ cmd_buf' = <<>> /\ plain' = FALSE
    /\ con' = console_write(con, <<NL>> \o Message)
    /\ UNCHANGED start

(* The program built into the kernel is copied below SLIDE.                *)
user_prog_launch ==
    /\ Waiting
    /\ Command(cmd_buf) = <<Show>>
    /\ image' = Running
    /\ cmd_buf' = <<>> /\ plain' = FALSE
    /\ con' = console_write(con, <<NL>> \o Message)
    /\ UNCHANGED <<mem, start>>

(* SYS_write to the console.                                               *)
SysWrite(c) ==
    /\ ~Waiting
    /\ con' = console_putchar(con, c)
    /\ mem' = Unknown /\ image' = Running
    /\ UNCHANGED <<cmd_buf, start, plain>>

(* The number of a system call that does not exist.                        *)
SysUnknown ==
    /\ ~Waiting
    /\ con' = console_printf(con, <<Plain(<<Text>>), Converted(<<Text>>), Plain(<<NL>>)>>)
    /\ mem' = Unknown /\ image' = Running
    /\ UNCHANGED <<cmd_buf, start, plain>>

(* SYS_disp_flush: the program paints over the whole screen.               *)
disp_flush ==
    /\ ~Waiting
    /\ con' = [con EXCEPT !.screen = [r \in DOMAIN @ |-> [c \in Cols |-> Dirt]]]
    /\ mem' = Unknown /\ image' = Running
    /\ UNCHANGED <<cmd_buf, start, plain>>

ExecEnds ==
    /\ ~Waiting
    /\ Fresh(console_write(con, Message))
    /\ image' = NoProgram
    /\ mem' = Unknown

(* Mutant: a backspace with nothing typed erases the prompt.               *)
ErasePrompt ==
    /\ Waiting
    /\ cmd_buf' = IF cmd_buf = <<>> THEN <<>> ELSE Front(cmd_buf)
    /\ con' = console_write(con, <<BS, Blank, BS>>)
    /\ UNCHANGED <<mem, image, start, plain>>

Erase ==
    /\ Waiting
    /\ cmd_buf # <<>>
    /\ cmd_buf' = Front(cmd_buf)
    /\ con' = console_write(con, <<BS, Blank, BS>>)
    /\ UNCHANGED <<mem, image, start, plain>>

Type(c) ==
    /\ Waiting
    /\ Len(cmd_buf) < MAX_CMD - 1
    /\ cmd_buf' = Append(cmd_buf, c)
    /\ con' = console_putchar(con, c)
    /\ plain' = (plain /\ c # Other /\ start + Len(cmd_buf) < COLS)
    /\ UNCHANGED <<mem, image, start>>

Next ==
    \/ Enter \/ cmd_reboot \/ ExecFails \/ Erase
    \/ \E c \in Letter \union {Blank, Other} : Type(c)
    \/ \E p \in Programs : ExecRuns(p)
    \/ \E c \in {Text, NL, BS} : SysWrite(c)
    \/ SysUnknown \/ disp_flush \/ user_prog_launch \/ ExecEnds

Spec == Init /\ [][Next]_vars

-----------------------------------------------------------------------------
(* Every cell behind the cursor is blank, in the scrollback and in the     *)
(* rows below it: no sequence of wraps, scrolls and backspaces leaves      *)
(* characters there, and the newline that writes to column COLS of its row *)
(* destroys nothing.                                                       *)
InkBehindCursor ==
    /\ con.row \in 0 .. ROWS - 1 /\ con.col \in 0 .. COLS
    /\ \A r \in Rows, c \in Cols :
          r > con.row \/ (r = con.row /\ c >= con.col) => con.text[r][c] = Blank

(* The line on the screen is the line that Enter will execute: behind the  *)
(* prompt the row of the cursor shows cmd_buf and nothing else, through any*)
(* keys and backspaces and whatever a program has painted before, as long  *)
(* as no control character was typed and the line has not left its row.    *)
EchoFaithful ==
    Waiting /\ plain =>
        /\ con.col = start + Len(cmd_buf)
        /\ \A i \in 1 .. Len(cmd_buf) : con.screen[con.row][start + i - 1] = cmd_buf[i]
        /\ \A c \in Cols : c >= con.col => con.screen[con.row][c] = Blank
        /\ con.screen[con.row][start - 1] = Prompt

(* mach_o_load leaves exactly the image of the program, whatever ran       *)
(* before: each segment with bytes in the file is in memory at its distance*)
(* from the first one, followed by zeros, and an entry point that LC_MAIN  *)
(* gives is inside.                                                        *)
ImageExact ==
    mem # Unknown =>
        /\ \A i \in Segments(image) : \A a \in Span(image, i) :
              LET s == image.cmds[i]
                  k == a - Place(image, i)
              IN  mem[a] = IF k < s.filesize THEN <<image.name, s.fileoff + k>> ELSE Zero
        /\ image.cmds[LastGiving(image)].cmd = "main" =>
              \E i \in Segments(image) : Entry(image) \in Span(image, i)

=============================================================================
