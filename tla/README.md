# TLA+ models of OvsbMkM

OvsbMkM is a small x86-64 kernel: a page and slab allocator, a PS/2 keyboard
driver, a process table with a timer-driven scheduler, a FAT32 driver, a system
call layer, a text console and a shell. This directory holds TLA+ models of its
core, the TLC configurations that check them on small instances, and proofs
checked by TLAPS for every size.

## 1. Inventory

| Component | State | Operations | What makes it hard | What makes it correct |
|---|---|---|---|---|
| Buddy allocator (`kernel/memory.c`) | `frames[]`, `free_area[]`, `memlock` | `buddy_alloc`, `buddy_free`, reached by `kmalloc`, `mmap_user`, `page_alloc`, `kfree`, `munmap_user`, `page_free`; `munmap_all_user` | reads of `frames[]` before the lock; stale entries inside larger blocks; long sequences of splits and merges | blocks never overlap, no frame is lost, entries are exact where they are read, buddies are always joined |
| Slab allocator (`kernel/memory.c`) | slab headers and object links inside the pages, `kmalloc_caches[].slabs` | `kmalloc`, `kfree` (`slab_alloc`, `slab_free`) | no lock; a magic number inside the page decides the path of `kfree`; pages change their role | each object has one owner, the free list and `in_use` agree, no stale magic number is met |
| Keyboard (`drivers/keyboard.c`) | ring `kb_buffer`/`kb_head`/`kb_tail`, modifier flags | interrupt handler; `keyboard_avail`, `keyboard_read` from the loop of `kmain` | interrupts between any two steps of the reader; a full ring; a key between the test and the `hlt` | keys come out once and in order, the reader never spins, every key is delivered |
| Processes (`kernel/process.c`, `switch.asm`, `tss.c`) | `pcb_table`, `current_pid`, `pcb_count`, `next_pid`, the saved stacks, `rsp0` | create, spawn, switch, exit, wait, `schedule` from the timer | the timer between any two steps; `current_pid` is both a pid and a slot; frames built in C and consumed in assembly | the program that runs is the one `current_pid` names, on its own stack; stacks and slots are freed once and in time; a wait ends |
| Page tables (`kernel/memory.c`) | PML4, PDPT and PD entries, CR3 | `pml4_create`, `pml4_load`, `pml4_destroy`, `pml4_map_phys` | copies share the tables below them; pages are used again | every table in reach is in use, as one table |
| Interrupts (`kernel/idt.c`, `idt.asm`, `pic.c`) | the gates, the registers on the stack | the stubs of the timer, the keyboard, `int 0x80`, exceptions | interrupts nest inside the system call stub; three push orders | whoever is interrupted gets its registers back |
| System calls (`kernel/syscall.c`) | `fds[16]` and one static buffer, shared by all | open, close, read, write, lseek, stat, unlink, mkdir, rmdir, and the rest | descriptors hold names; 32-bit positions | reads return the bytes of the file, keys come once |
| FAT32 (`fs/fat32.c`, `drivers/ata.c`) | the FAT, directory clusters, `current_dir_cluster` | create, delete, read, write, mkdir, rmdir, rename, cd, stat, list | several sector writes per operation, each of which may be the last; a full disk in the middle of a write; names that become ambiguous | no two chains share a cluster, no entry points into free space, a file reads back as it was written, `..` and the printed path are right |
| Console (`kernel/console.c`, `lib/gui/vesa.c`) | `scrollback`, cursor, framebuffer | `putchar`, `write`, `clear` | wrapping, scrolling, a cursor behind the last column | no ink behind the cursor |
| Shell (`kernel/shell.c`) | `cmd_buf`, `cmd_pos` | `shell_input`, the commands | backspaces, full buffers, output of programs in between | the line on the screen is the line that runs |
| Mach-O loader (`kernel/mach_o.c`, `macho_pack.py`) | memory at the load address | `mach_o_load`, `pack` | memory that earlier programs left dirty | a program starts on exactly its image |
| Environment, boot, RTC, serial, mouse, VESA, WM, OWT, userland | see `PROJECT.json` | | | |

Interactions: the timer interrupt calls `schedule`; the keyboard interrupt fills
the ring that `kmain`'s loop (and `SYS_read`) empties into the shell; the shell
calls the file system, the loader, the allocator and the process table; system
calls reach the allocator, the ring and the file system. `int 0x80` is a trap
gate, so a system call runs with interrupts on and can be preempted anywhere;
IRQ0 and IRQ1 are interrupt gates, so their handlers run whole.

The tree under `src/src` is an earlier version that the Makefile does not build.

`PROJECT.json` lists every component and, under `hazards`, each place where this
code is hard to test.

## 2. Modules

| Module | Models |
|---|---|
| `HeapSpec` | abstract: what an allocation promises (memory that nobody else has, until it is given back) |
| `Buddy` | `buddy_alloc`, `buddy_free`, the lock, and the unlocked part of `kfree` / `munmap_user`, for any set of preemptible contexts |
| `BuddyReap` | `munmap_all_user` on top of `Buddy` |
| `Slab` | `kmalloc`, `kcalloc` and `kfree` with the slab caches on top of `Buddy` |
| `Memory` | `Slab` and `BuddyReap` together: the whole of the allocator on one heap |
| `KeyQueue` | abstract: a bounded FIFO queue that drops from the end |
| `Keyboard` | the keyboard driver, its interrupt, and the loop of `kmain` |
| `Fat32` | the FAT32 driver, cut at every sector write, for one caller |
| `Fat32Faults` | `Fat32` with loss of power between two writes |
| `PageTables` | the `pml4_*` functions, as operators on the tables |
| `Process` | the process table, the scheduler, the timer, `context_switch` and the TSS, on `PageTables` |
| `Files` | the system calls on files and the keyboard |
| `Console` | the console and what the framebuffer shows, as operators |
| `Shell` | the shell on `Console`, with the Mach-O loader behind `exec` |
| `Traps` | the interrupt table and the stubs, instruction by instruction |
| `MCBuddy`, `MCMemory`, `MCFat32`, `MCFiles`, `MCShell` | the instances TLC runs (`Keyboard`, `Process` and `Traps` are run as they are) |
| `BuddyProofs`, `MemoryProofs`, `KeyboardProofs`, `Fat32Proofs`, `FilesProofs`, `ProcessProofs`, `TrapsProofs`, `ShellProofs` | the theorems, each about the module it is named after |

### Buddy

`frames[i]` is a record of the order and the two flags of the byte;
`free_area[o]` is the sequence of block starts that the doubly linked list
spells; `memlock` is the word of the spinlock. A context is one flow of control
inside the allocator: `pc` says where it is, `req`/`usr` are its arguments,
`blk`/`ord` its `block_idx`/`idx` and `o`/`order`. `live` is a ghost: the blocks
that callers own. `Size[o]` stands for `1UL << o`; its assumption says what a
power of two satisfies, and `MCBuddy` assumes (and TLC evaluates) that `Buddy`
is then the code's xor.

| Action | Code |
|---|---|
| `AllocCall`, `AllocLock` | the call and `mem_lock` |
| `AllocFind`, `AllocNull` | the search for a list, the pop, and the return of NULL |
| `AllocSplit` | one iteration of the splitting loop |
| `AllocDone` | the entry, the unlock and the return |
| `FreeCall` | `kfree` / `munmap_user` up to the call: `frames[]` is read without the lock |
| `FreeLock` | `mem_lock` and the store that clears the flags |
| `FreeMerge`, `FreeDone` | one iteration of the merging loop; `list_add`, unlock |

A stale pointer may be freed at any time (the flag test must then stop it); the
one thing assumed of callers is that two frees of the same block are not under
way at once. Calls that change nothing (NULL pointers, orders out of range,
entries without `FRAME_ALLOC`) are stuttering steps.

At this commit the only flow of control that gets past its first switch is
`kmain` itself, so the interleavings of `Buddy` are those the lock is there for,
not ones that a running system shows today.

### Slab

`hdr[p]` and `link[p]` are the words of a page that the slab layer writes;
`list_add` of the buddy allocator overwrites the first of them (`Overwritten`),
which is why a page that becomes a free block of its own loses the magic number,
and a page merged into a block below it does not. Callers never store the magic
number in the first word of their own blocks: that is assumed
(`BlockFree`), since `kfree` could not tell. Nor do programs pass the page of a
slab to `SYS_munmap`, which they never got from `SYS_mmap`: `munmap_user` looks
at `frames[]` alone and would give the page back under its objects.

`Memory` puts `munmap_all_user` beside it: the two layers share `frames[]`, the
free lists and the first words of the pages. It has one context (`OneContext`), as
nothing else calls the slab layer, which has no lock, and nothing calls
`munmap_all_user` yet. `CacheAssumption` says of the caches that one object fits
into a page at least. `munmap_all_user` holds the lock from its first look at
`frames[]` to its return; it is cut at each frame of its scan and at each turn
of the loop that merges, which is the loop of `buddy_free` (`Join`, `PutBack`).

### Keyboard

One scancode of each kind that `process_scancode` tells apart stands for its
kind; `ArrowSeq` stands for the escape sequences. The handler is one step; the
reader is cut at each access (`keyboard_avail`, `ReadTest`, `ReadLoad`,
`ReadAdvance`, `Halt`). `key` is the character last passed to `shell_input`,
whose work does not touch the ring. The software key repeat needs an empty ring
inside `keyboard_read`, which `ReadNeverWaits` excludes for this caller, so its
variables are left out.

### Fat32

`fat[c]` is the FAT, with `EOC` for the end marks; `dir[c]` and `data[c]` are
the two ways to read the sector of a cluster (a write through one of them leaves
nothing for the other); `cwd` is `current_dir_cluster`. An operation that writes
one sector is one action. `fat32_write_file`, `fat32_mkdir` and `fat32_rmdir`
write several, and are cut at each: `pc` names the next write, `job` holds the
locals.

| Action | Code |
|---|---|
| `fat32_create_file`, `fat32_delete_file`, `fat32_rename` | one directory sector |
| `fat32_change_dir`, `fat32_init` | `current_dir_cluster` |
| `fat32_write_file`, `WriteData`, `WriteLink`, `WriteMark`, `WriteNoSpace`, `WriteEntry` | the lookup and the first cluster; one turn of `write_chain`; the two writes that make a chain longer; a full disk; size and first cluster in the entry |
| `fat32_mkdir`, `MkdirSet`, `MkdirMark`, `MkdirInit` | the entry, its cluster, the FAT, the sector with `.` and `..` |
| `fat32_rmdir`, `RmdirFree`, `RmdirErase` | the tests, one turn of the freeing loop, the entry |

The loops over a directory are one definition, `Search`: the first slot in the
order of the chain (`Walk`) that belongs to a set. `find_entry` stops at the
first unused slot, the other loops do not, and the model keeps that difference.
What a file reads back as (`Content`) and the path that `cd` prints (`Climb`,
`EntryFor`) are operators; the properties `ReadBack`, `Isolation` and
`PathRight` are about them.

Abstractions: a cluster is one sector (`mkfs.fat -F 32` on the 64 MB image of
the Makefile), a sector has two bytes and three entries instead of 512 and 16,
names are model values, as `name_to_83` leaves them, time stamps and long-name
entries are left out, and only the first FAT exists (the driver writes no
other). The disk answers: reads and writes that time out are not modelled.
Calls that return without a write are stuttering steps.

The driver takes `.` and `..` for names like any other, and looks at the
attribute of an entry only in `cd`, `mkdir` and `rmdir`. `SYS_unlink`,
`SYS_mkdir2`, `SYS_rmdir2` and `SYS_write` pass it any path, so a program can
delete `..`, remove `.` or write bytes into a directory. These calls are the
action `Misuse`, which sets the history variable `misused`. `FileNames` and
`DirNames` are the names that callers use for the one and for the other; `Misuse`
is every call that crosses them, or that is made with a dot entry (`cd` apart).
The invariants say what holds until the first such call. Afterwards they do not:
`rmdir("..")` from a directory in the root, for example, frees the root directory
although its own entry is in it, since the test for emptiness skips the first two
entries (`fat32.c:666`) and the root has no dot entries; `unlink("..")` leaves a
directory without a parent.

`fat32_get_cwd_name` prints a name up to its first space, without the dot: a
directory `A.B` is printed as `A`. The constant `Cut` is what `name_to_83` makes of
the printed part of a name; the run `fat` has the names `D` and `D.X`, both printed as
`D`. `PathRight` claims that a printed name leads back only where it is printed
whole. The array of names in that function has 16 rows (`STACK`) and no test of
the depth: `PathRight` claims that the names are right at depths up to `STACK`
and nothing beyond, where the code writes behind the array. The only caller
passes a buffer of 256 bytes (`shell.c:167`), and 16 names of 11 characters
with their separators take 192, so the cut at `maxlen` is not reached before.

`Fat32Faults` adds `PowerLoss`, after which `fat32_init` finds what was written
so far.

### Process and PageTables

`pcb` is `pcb_table`; `ctx` of an entry stands for what `context_switch` would
find at `kernel_rsp`: a frame of n register words, a thread inside a call of
`context_switch` (of its own, or of `irq0`), or the entry of the idle thread.
`cpu` is the thread that executes, `ints` its interrupt flag, `pc` where each
thread is, `sw` the locals of its call of `schedule`, of `process_switch_to` or of
an exit.

The timer handler runs with interrupts off and is one step (`Tick`). It may come
between any two steps of a thread that has interrupts on, in system calls too.
The functions are cut wherever the timer could see a difference:

| Steps | Code |
|---|---|
| `FindNext`, `Leave`, `Enter`, `SetCurrent`, `Switch` | `schedule` called by `proc_yield`, `proc_waitpid`, `proc_exit`: `next_idx` may be stale from the second step on |
| `alloc_pcb`, `CreateFails`, `process_create_user`, `setup_user_stack` | the slot, its fields with READY among them, the first frame |
| `SwitchReady`, `SwitchPid`, `SwitchRunning`, `Switch`, `ExecDone` | `process_switch_to`, and what `cmd_exec` does when it comes back |
| `proc_spawn`, `SpawnFrame` | as for `process_create_user` |
| `proc_waitpid`, `WaitNone`, `WaitFree`, `WaitReap`, `WaitLook`, `WaitBlock` | the look, the two frees and EMPTY, the mark BLOCKED |
| `process_exit_current`, `proc_exit`, `ExitWake`, `ExitParent`, then `SetCurrent` or `FindNext` | ZOMBIE, the wakeup, and the way to the parent or to `schedule` |

A process that is READY and has no frame yet faults if a tick switches to it
(`Unframed`). A thread that is resumed by the `ret` of `context_switch` has the
interrupt flag of the one that left for it: after a tick that switched to a thread
inside a call, interrupts stay off and the timer does not come, until an `iretq`.
A tick inside `process_switch_to` or `schedule` can leave slots marked RUNNING that do not
run; the model has them. Loops over the table and `context_switch` are one step
each; a tick inside `context_switch` saves the thread in the slot that
`current_pid` names, as one just before it does.

`kmain` makes the calls of `process.h` in any order: `exec` (the only one that a
command makes), `proc_spawn`, `proc_waitpid` for any pid, `proc_yield`. Programs
make `SYS_exit` and `SYS_disp_get_fb`, and `proc_exit`, for which there is no system
call. At this commit `proc_spawn`, `proc_waitpid`, `proc_yield` and `proc_exit` have
no caller at all.

`kstacks` and `ustacks` are the pids whose stacks are allocated, `rsp0` the pid
whose stack the TSS names. `vm` holds the page tables: of each table only the
entry on the way to the framebuffer, the one address that is mapped, the pages
that are tables, and which of those are PML4s. The heap
hands out the lowest free page, so that freed pages are used again at once.

`current_pid` is used as a pid in some places and as a slot in others. They
agree until a `kmalloc` fails in `process_create_user`, a slot is used again, or
`process_create_user` and `proc_spawn`, which choose slots in different ways, meet.
`mixed` is history: it is set when a process is in a slot that is not its pid
(`SlotIsPid`). The invariants say what holds until then; the model goes on after
it: `process_create_user` after `proc_spawn` takes the slot that the spawned process
is in (`process.c:34`), `SYS_exit` marks whichever slot has the number of its own
as pid.

A tick while a program of `exec` runs switches to slot 0, which is READY, and
`cmd_exec` frees the stack of the program and prints "processo encerrou" although
it has not ended (`shell.c:148`). The program faults when it is switched to again,
so nothing runs on the freed stack.

The words that `setup_user_stack` and `proc_spawn` push are constants. The code
has 16 and 14; `context_switch` pops 15. With 16 and 14 the first switch to any
process faults, which the run `process_frames` shows, and nothing behind it
would be reached. The runs `process` and `process_wait` therefore take
15 for both, the layout that `switch.asm` documents, so that the rest of the
component is looked at. The theorems hold for every pair.

### Files

`disk` is the current directory as `fat32_read_file`, `fat32_write_file` and
`fat32_stat` show it; `Byte` is the set of values of a byte. `fds`, `tmp` and the
positions are the code's; `WORD`
stands for 2^32, so that a position can become negative as an `int`, and the
bytes in front of `tmp` that are then read are `Foreign`. `from` and `got` are
history: where a descriptor was set, and what it has read since. A call on a
file is one step, since a process preempted inside one is not resumed; the read
of the keyboard is one step per key, with `owed` as history. `SysStat` and
`SysFstat` are operators; the calls that answer with a constant, the clock or the
pid change nothing and are left out.

### Console, Shell

The console is a record (scrollback, cursor, screen) and its functions are
operators from console to console. One key is one step of the shell, with the
whole command that Enter starts, except that a program runs in steps of its own
(`SysWrite` for each character it prints, `SysUnknown` for the message about a
number that is no system call, `disp_flush` when it paints the whole screen). The
names of commands are one letter;
`Show` stands for all commands whose output depends on nothing in the shell.
`mem` is the memory the loader writes, from the load address on; once the
program has run it is `Unknown`, and the next one is loaded over zeros or over
dirt. A program is its table of load commands; its n-th byte in the file is
`<<name, n>>`. The loader takes every file with the right magic number and an
entry point; it does not check that segments are apart, fit into the memory in
front of it or hold the entry point. `WellLinked` says so, in the addresses of the
file, and `ProgramAssumption` assumes it of the programs that can start: it is what
the linker makes, and what `macho_pack.py` makes if the code is not empty, fits
and holds the entry point (theorem `PackedLinked`). Of the thread state in
`LC_UNIXTHREAD` the loader reads the word 48 bytes into the command, which is
`rdi`, not `rip` at 144 (`mach_o.c:57`), although `mach_o.c:5` says that it supports
that command as entry point. The model reads `rdi`, assumes nothing of it, and
`ImageExact` says that the entry point is inside the image only for `LC_MAIN`.

`mem` is what `mach_o_load` leaves when it returns. What `cmd_exec` does between
that and the start of the program (the user stack, the kernel stack, the release of
the file's buffer) is not in it: the load address, 32 MB, lies inside the heap (9
to 73 MB), and once the heap has handed those pages out the two overwrite each
other. The addresses in the source settle that; it is listed as a hazard.
`console_printf` formats into 256 bytes and copies `%s` without a test; the model
has the test that follows, and the longest string that is passed is the command
line of 127 characters.
`ShellAssumption` says that letters, the prompt and the text of messages are no
control characters.

### Traps

Each push, pop, call and `iretq` of the stubs is a step. Registers hold a value
named like themselves until C code or a stub changes them; C code keeps the
registers that its calling convention says. Interrupts come wherever the
interrupt flag is on, which is the program and the system call stub with its C
code.

## 3. Runs

| Run | Instance | Shows |
|---|---|---|
| `buddy` | 2 contexts, 4 frames (`MAX_ORDER` 2), weak fairness inside a call | all invariants, the refinement of `HeapSpec` and `LockReleased` under every interleaving; two orders of splitting and merging above the page |
| `memory` | 1 context, 4 frames, caches of 1024 (3 objects) and 2048 (1 object), at most 3 objects at a time | `SlabExact`, `ObjectsBacked`, `MagicExact` while pages merge, split and change their role; `munmap_all_user` is complete, spares the kernel's blocks and keeps the tiling, with slabs among the blocks |
| `keyboard` | ring of 4 slots, seven kinds of scancode | `ReadNeverWaits`, `SlotKept`, refinement of `KeyQueue`, `KeysDelivered`; a three-character sequence meets a ring with room for none, one, two and all of it |
| `fat` | 3 clusters of 2 bytes, 3 entries a sector, a root directory of one or two clusters; one file name, two directory names of which one is printed in part; writes of 1 and 3 bytes; an array for 2 names | `NoCrossLink`, `SizeCovered`, `NoDangling`, `PathRight`, `TreeOK`, `NothingHidden`, `Isolation`, `ReadBack`, `OnlyEmptyFreed`, `OperationsEnd`: files of one name, in one directory and in two, grow, shrink and compete for the last cluster, the disk fills up in the middle of a write; directories are nested, renamed onto each other, removed, and their clusters used again |
| `process` | 3 slots, 2 pids, 4 pages for tables, frames of 15 words | `StacksTracked`, `TablesBacked`, `Identity`: the timer between any two steps, inside `schedule` and half-made processes too; `ChildReaped`: a wait for an only child that has ended returns, although the child may have ended before the parent was BLOCKED |
| `files` | 2 descriptors, 2 names, contents of 0 to 3 bytes, `tmp` of 2 bytes, words of 3 bits; keyboard reads of up to 2 keys | `ReadsExact`, `KeysReturned` |
| `terminal` | 2 rows of 3 columns, 3 rows kept, lines of 3 characters, programs with `LC_MAIN` and with `LC_UNIXTHREAD` | `InkBehindCursor`, `EchoFaithful`, `ImageExact`: lines that wrap, scroll and are taken back, programs over the memory of others |
| `traps` | timer, keyboard, another line, two exceptions (with and without an error code) | `RegistersKept` at every depth of nesting the gates allow |
| `fat_crash` | the same disk with two file names and one directory name, and `PowerLoss` | **violation**: a reference written before the FAT entry it relies on; after a restart the cluster gets a second owner |
| `process_frames` | as `process`, frames of 16 and 14 words | **violation**: the first switch to a process faults |
| `syscall_return` | as `traps` | **violation**: the result of a system call is in R15, not in RAX |
| `process_wait` | 2 slots, 1 pid | **violation** (`WaitReturns`): `SYS_exit` does not find a process of `proc_spawn`, and the wait for it never returns |

Why the bounds are enough. Three clusters: the root, and two that files and
directories take from each other; all loops over clusters make at most one turn
per cluster of a chain. `fat` and `fat_crash` do not go on behind
the first misuse (`CONSTRAINT Used`), of which their properties claim nothing.
Two pids in three slots: `exec` and `proc_spawn` in either order, a slot spent
by a failed allocation, a slot used again, two processes and `kmain` to choose
from; the invariants are proved for every number of each. Two descriptors on two
names meet on one file and on different ones; the contents end before, at and
behind the end of `tmp`. On two rows of three columns every line wraps and every
command scrolls, and a full command buffer is longer than the rest of its row.
Four frames give two orders above the page, so that a merge can go on.

`process` and `traps` do not check for deadlock: a machine that has faulted, or
whose last thread halts, stops.

Fairness. `buddy` assumes weak fairness of each context inside a call: a
preempted context runs again. It assumes nothing about who wins the lock, and
nothing about calls being made. `keyboard` assumes that `kmain` runs when it is
not halted and that the timer keeps ticking (the PIT is programmed once and
free-running); nothing is assumed about keys. `fat` assumes that the
processor goes on with an operation it has begun. `process` assumes that the
processor executes the thread it is on, that the timer keeps ticking where
interrupts are on, and that a program ends sooner or later; not that `kmain` makes
another call.

Every property of a passing run has a mutant in `PROJECT.json`: a plausible bug
in one mapped definition that makes TLC refute the property under the same
configuration.

## 4. Proofs

`BuddyProofs` proves, for every `MAX_ORDER`, every set of contexts and every
interleaving: `TypeOK`, `Exclusive` (mutual exclusion), `NoOverlap`, `NoLeak`,
`FlagsExact`, `Coalesced`, `NoFalseOOM`, `OwnedStable` and the refinement of
`HeapSpec`. Assumptions: `MAX_ORDER` is a natural number and `Size` doubles from
order to order (`OrderAssumption`, `SizeAssumption`).

None of the invariants is inductive alone. The inductive invariant is

    IInv == VarsOK /\ Exclusive /\ FreeAreaOK /\ Tiling(Pieces) /\ Apart
            /\ FlagsExact /\ MergeOK

where `Pieces` are the free blocks, the owned blocks and the blocks in the hands
of calls under way. `Tiling` says that they cut the heap into disjoint aligned
blocks. The key lemma is `BuddyIsStart`: in a tiling by aligned blocks, the
buddy of a block is the *start* of a piece that is no larger. So the byte that
the merge loop reads belongs to the start of a piece, `FlagsExact` says it is
exact there, and therefore a byte with the right order and no flag is a free
block that really is on that list (`MergeableIsFree`). Without `FlagsExact` the
tiling cannot be kept, and without the tiling a stale byte inside a block could
pass for a free one: the two need each other.

`NullIsHonest` (`NoFalseOOM`) rests on `FreeRunIsCovered`: take the smallest
free block in a run of frames without an owned one; its buddy lies in the run
too, starts a free block that is no larger, hence exactly as large, and the two
would have been joined.

`MemoryProofs` proves `SlabExact`, `ObjectsBacked`, `MagicExact`, `ReapTiled`,
`ReapComplete` and `ReapSparesKernel` for every heap size and every set of
caches, for one context. The inductive invariant is

    MInv == IInv /\ SlabTypes /\ ListsOK /\ PagesOK /\ ObjsOK /\ SubOK
            /\ MagicOK /\ ReapOK

`IInv` is the invariant above, which the steps of `munmap_all_user` keep too.
`PagesOK` says of every page on a list that it is an owned block of order 0, not
a user's, and `SlabOK`: there is a sequence, the free list, without repetitions,
that has exactly the objects no caller holds, and the links spell it from
`freelist` on. `TakeKeeps`, `PushKeeps`, `ClearKeeps` and `NewSlab` say what
`slab_alloc`, `slab_free` and `kcalloc` do to that sequence (`kcalloc` clears
only a word that is no link any more), and `ChainExact` that following the
links meets each of its objects once and then ends. `LastObject` says that
`in_use` reaches 0 only when no caller has an object left, so the page that goes
back to the buddy allocator backs nothing. `MagicOK` says where a number left
over from a slab can be: where no free, owned or half-split block begins. It
holds because a block that `buddy_free` puts on a list loses the word, and a
page that merges into a block below it is not the start of one; when that block
is split again, the upper half is put on a list and loses it then. `ReapOK` says
of the scan that the block it took lies inside the block that has come of it by
merging; so the step by the old order stays in the heap, and an entry with
`FRAME_ALLOC` that it skips would be the start of a piece inside another one.

`KeyboardProofs` proves `TypeOK`, `ReadNeverWaits`, `SlotKept` and the
refinement of `KeyQueue` (`ImplementsQueue`) for every ring size of at least 2
and every set of scancodes. The refinement needs that appending to the ring is
appending to the sequence its indices cut out (`PutAppends`), also where the head
wraps round, and that a handler which puts several characters is a queue step
for each of them that fits.

`Fat32Proofs` proves `NoCrossLink`, `NoDangling`, `TreeOK`, `NothingHidden`,
`PathRight` and `OnlyEmptyFreed` for every number of clusters, every length of
the root directory, every size of a sector and every set of names, at every
sector write until the first misuse. Assumptions: `DiskAssumption`, and
`NameAssumption`, which says that the names of files, of directories and the
dots differ; that callers keep to them is not assumed, it is what `misused`
records. The inductive invariant (`Inv`, theorem `DiskInvariant`: `[](misused \/
Inv)`) says that there are a set `X` of directory sectors, the sectors `R` of
the root among them, a path `q[1..n]` from the root to `cwd`, and the slot `e`
that the operation under way is about, with `Good(X, R, q, n, e)`:

- `Areas`: the chain of the root is `R`; every other directory is one sector
  that ends its chain; no chain of a file leads into `X`;
- `Layout`: entries are in `X` only, `.` and `..` are where `fat32_mkdir` writes
  them, and the attribute agrees with the name;
- `Single`: at most one link or entry leads to a cluster, none to the root;
- `Kinds`: an entry of a file leads to a cluster outside `X` or to none, one of a
  directory into `X` without `R`, to a sector whose `..` leads back;
- `Alive`: what is led to is not free;
- `Tidy`: behind an unused slot of a directory there are only unused ones;
- `Path`: the directories of the path are different, and `find_entry` in each of
  them finds the next;
- `WriteJob`, `MakeJob`, `RemoveJob`: what holds between the writes of
  `fat32_write_file`, `fat32_mkdir` and `fat32_rmdir`. There `e` is excepted from
  `Kinds` and `Alive` (an entry whose directory does not exist yet, or any more),
  and the cluster that `write_chain` has linked and not marked yet from `Alive`.

The parts need each other. `NoCrossLink` needs `Alive`, because a cluster is
taken when its FAT entry is 0; `Alive` needs `Single`, because freeing the
cluster of one entry must not free that of another; `Single` needs `Areas` and
`Layout`, because data that is written into a sector of a directory would be read
as entries. `Path` is there because `fat32_rmdir` must not free the current
directory or one above it: its argument is an entry of `cwd`, and by `Single` the
only entry that leads to a directory of the path lies in the one before it
(`NotOnPath`). `Path` survives `fat32_rename` because only a slot of `cwd` is
rewritten, and no link of the path starts there; `cd ..` shortens it by one
(`ChangeTo`), and since its directories are different it is shorter than the
disk, so the loop of `fat32_get_cwd_name` reaches the root (`PathShort`,
`ClimbPath`). The lemmas `SlotShape`, `SectorFile`, `SectorDir`, `FatMark`,
`FatLink` and `FatFree` say what each kind of sector write does to the shape of
the disk; the proof for an operation is then one of them and the facts about the
slot that its search returned (`FindSearch`, `EntrySearch`, `VacantSearch`,
`FreeCluster`).

What files hold needs more than the shape of the disk. The second invariant of
`Fat32Proofs` is `Inv /\ Held` (theorem `ContentInvariant`), and from it follow
`SizeCovered`, `Isolation` and `ReadBack`, for files of any length. `Held` says

- `Sized`: from the first cluster of every entry of a file, a deleted one too, the
  links lead through as many clusters as its size needs;
- `WritesAt`, inside `fat32_write_file`: `job.cur` is the j-th cluster on the way
  from `job.first`, `job.off` is where that cluster begins (or ends, once it is
  written), and the clusters up to it hold the buffer up to `job.off` (`Holds`).

`Sized` is stated with a path of j links (`Steps`) instead of a count of clusters:
links are only ever added (`LinksKept`: no step changes one that leads to a
cluster; what `fat32_rmdir` frees is a directory, which is its own last sector),
so a path that exists stays. By `Single` two paths from clusters that no link leads
to never meet, unless they are the same (`StepsMeet`); hence a path has no cluster
twice, is no longer than the disk, and the loop of `read_chain` visits all of it
(`StepsShort`, `StepsVisited`, `StepsLength`). `Isolation` then needs, step by step,
that a sector that is written is on the path of no other file (`Elsewhere`): a
directory sector is in `X` and paths of files stay outside (`ChainOutside`), and
`job.cur` is on the path from `job.first`, to which no other entry leads. The two
contents are equal because they are the bytes of the same clusters (`BytesSame`).
`ReadBack` is `Holds` at the last step, with byte i at offset `(i - 1) % SectorSize`
of cluster `(i - 1) \div SectorSize` (`Place`). `Sized` quantifies over paths of any
length and is not an invariant that TLC could evaluate; `SizeCovered`, which it
implies, is.

`FilesProofs` proves `ReadsExact` and `KeysReturned` for every size of `tmp`,
every width of `int`, every set of names, of bytes and of contents. The position
of a descriptor moves only by the bytes that were copied, and the copy stops at
the smallest of the count, the size and `TMP`; the invariant adds where a
position may stand between two reads, and the types of what the program holds.

`ProcessProofs` proves `StacksTracked`, `Identity` and `TablesBacked` for every
number of slots, pids and pages and for every pair of frame sizes. The theorem
behind them is `ProcessInvariant`, `Spec => [](mixed \/ PInv)`, with

    PInv == VarsOK /\ TableOK /\ FrameOK /\ ZeroOK /\ KmainOK /\ KmainRuns
            /\ UserOK /\ IdleOK /\ TablesOK(vm) /\ RootsOK /\ StacksOK

- `TableOK`: slot 0 is idle's and kmain's, a process is in the slot of its pid;
- `FrameOK`: who has a first frame has not run yet and does not run now;
- `ZeroOK`: what a switch to slot 0 resumes: `kmain` at a place where it may be
  resumed, idle, or a program that a tick caught on the point of leaving for slot 0;
- `KmainOK`: what `kmain` made, runs, reaps or is about to enter is in the table,
  whether `kmain` runs or not, as it alone takes processes out of the table;
- `KmainRuns`, `UserOf(t)`, `IdleOK`: what `current_pid`, CR3 and `rsp0` are at each
  place of the thread that runs;
- `TablesOK`, `RootsOK`: the tables are a forest of pages in use, PML4s, PDPTs and PDs
  are different pages, and two processes never have the same PML4.

`Identity` alone is not inductive: to know that the program a switch enters is
the one `current_pid` names, one has to know what can be saved in the slot. The
argument is that a user process is resumed from its first frame only, since
whatever is saved of it later is no such frame and faults. So each program comes on
to the processor once, except one that a tick catches inside its own last switch to
slot 0, which `context_switch` then saves in slot 0, a kernel slot, and which is
resumed from there by `ret`; `ZeroOK` is about it. A stale `next_idx` in `schedule`
is harmless for a program, because `kmain` does not run between its steps without the
program being lost, and for `kmain` because only `kmain` itself empties slots
(`KmainOK`). There is a lemma for each way to change the processor (`Saved`,
`Resumes`, `Switched`) and for each way to change the table or the tables alone
(`UseKept`, `KmainMove`, `UserMove`, `PlacedInv`, `FramedInv`, `FreeInv`, `ReapInv`,
`MapInv`); `Steps` has one case per action. That a process never gets out of step with its
slot is not claimed: `mixed` ends the invariant, and the step that sets it is
outside the proof.

`TrapsProofs` proves `RegistersKept` for every set of exceptions and every depth
of nesting. The invariant (`TrapsInv`, theorem `StackIsLayered`) says that the
stack is a pile of layers, one for each entry that has not returned, each of
them what the processor and the stub have pushed so far in the order of that
stub, and that a layer holds the registers as its entry found them. It follows
that each pop takes the word its register was pushed to: the order of the pops
of every stub is the reverse of its pushes, and everything above a layer is gone
when its code goes on. Only a program makes system calls, so only the outermost
layer can change R15.

`ShellProofs` proves `InkBehindCursor`, `EchoFaithful` and `ImageExact` for
every number of rows and columns, every length of the scrollback and of the
command line, every set of letters and every set of programs that satisfies
`ProgramAssumption`. The inductive invariant (`ShellInv`) says that the cursor
stays on the screen and every cell of the scrollback behind it is blank
(`Good`); that while a line is plain its row has the prompt and then exactly
`cmd_buf`, and the screen shows that row (`Echoed`; once the line has left its
row, nothing is claimed of it); and that what is in memory when a program starts
is what the loader makes of it over uniform left-over content (`Imaged`). `Good`
is kept by `console_putchar`, and therefore by `console_write` of any string, so
whatever a command printed, the next prompt starts a line of which `Echoed`
holds (`PromptEchoed`). That a loaded memory is the exact image is an argument
over the load commands in the order in which the loader takes them: a segment,
once copied, is not touched by the ones behind it, because they are apart, and
what is copied lies where the first segment's address says, because that is the
lowest. `PackedLinked` says of `macho_pack.py` for which code and entry points
the assumption holds of what it writes.

None of these theorems assumes more than the named assumptions of the modules.
They rest on two techniques that the prover's limits call for: an induction is
an argument from the least counterexample (`LeastNat`, from
`NatLessThanWellFounded`), and whatever depends on the state is first named by a
constant (`PICK`), so that the lemmas are about constants only.

Only model-checked: the liveness properties (`LockReleased`, `KeysDelivered`,
`OperationsEnd`, `ChildReaped`), which are outside the prover's reach. Every
invariant, every action property and both refinements that a run checks are
theorems.

## 5. Not modelled, and what is left

- Environment and aliases: nothing calls them.
- Userland: the system call is in `Traps`; `malloc` keeps the link of a block in
  bytes that belong to the caller once the block is handed out, so its list holds
  what programs store there; the rest is formatting.
- Pixel loops, widgets, the window manager: no state that other parts read. The
  two primitives that the console uses are in `Console`.
- Serial port, RTC, mouse, ATA port I/O, the programming of the PIT: port I/O. A
  disk that does not answer would make `fat_read_entry` say "free".
- Boot: runs once, before there is anything to interleave with. Its page tables
  are the initial state of `PageTables`.
- `fat32_set_cwd`, `enter_umode`: nothing calls them.
- System calls that answer with a constant, the clock or the pid.
- What the slab layer does with two callers at once: it has no lock, and all its
  callers run in the context of `kmain`.
- The loops that only read a chain: they are one step, and that they end is not
  checked.
- The tree under `src/src`, which is not built.
- Sizes before they become an order or a cache: lengths close to 2^64 wrap.

Left to prove: the liveness properties, with a prover that handles fairness. Worth
modelling next: a disk that does not answer, in `Fat32`, for which the proofs say
what each read has to be trusted for.
