------------------------------ MODULE Process ------------------------------
(***************************************************************************)
(* The process table of kernel/process.c, the context switch of            *)
(* kernel/switch.asm and the timer interrupt that calls schedule.          *)
(*                                                                         *)
(* current_pid is used both as a pid (process_current, process_switch_to)  *)
(* and as an index of pcb_table (schedule, proc_exit, proc_waitpid).  The  *)
(* timer can come between any two steps of a thread that has interrupts    *)
(* on, in system calls too (the gate of int 0x80 leaves them on); its      *)
(* handler runs with interrupts off and is one step.  A stack is           *)
(* represented by what context_switch would find at kernel_rsp.            *)
(*                                                                         *)
(* kmain calls whatever it likes in any order: "exec" of the shell         *)
(* (process_create_user, then process_switch_to), and proc_spawn,          *)
(* proc_waitpid and proc_yield of process.h, which no command uses yet.    *)
(***************************************************************************)
EXTENDS PageTables, FiniteSets

CONSTANTS
    MAX_PROC,       \* slots of pcb_table
    MaxPid,         \* bound: pids handed out
    CreateWords,    \* register words that setup_user_stack pushes
    SpawnWords      \* register words that proc_spawn pushes

ASSUME ProcAssumption ==
    /\ MAX_PROC \in Nat \ {0}
    /\ MaxPid \in 1 .. MAX_PROC - 1
    /\ CreateWords \in Nat /\ SpawnWords \in Nat

VARIABLES
    pcb,            \* pcb_table
    current_pid, pcb_count, next_pid,
    cpu,            \* the thread that executes
    ints,           \* its interrupt flag
    pc,             \* where each thread continues
    sw,             \* prev, next_idx and the place of return of a thread's switch
    child,          \* kmain: the process it started or waits for
    kstacks,        \* pids whose kernel stack is allocated
    ustacks,        \* pids whose user stack is allocated (cmd_exec)
    vm,             \* the page tables
    rsp0,           \* of the TSS: whose stack the next interrupt in ring 3 uses
    mixed           \* history: a process has been in a slot that is not its pid

table == <<pcb, current_pid, pcb_count, next_pid>>
machine == <<cpu, ints, vm, rsp0>>
memory == <<kstacks, ustacks>>
vars == <<table, machine, pc, sw, child, memory, mixed>>

Slots == 0 .. MAX_PROC - 1
Pids == 1 .. MaxPid
Kmain == 0              \* the thread of kmain and the shell
IdleThread == -1        \* idle_entry
Halted == -2            \* idt_handler: cli; hlt
Threads == Pids \union {Kmain}

POPPED == 15            \* registers context_switch pops before iretq

Ctx(kind, thread, words) == [kind |-> kind, thread |-> thread, words |-> words]
Frame(t, n) == Ctx("frame", t, n)   \* n register words below an iretq frame
InCall(t) == Ctx("call", t, 0)      \* inside a call of context_switch
InTick(t) == Ctx("tick", t, 0)      \* the same, below an interrupt frame of irq0
Spent == Ctx("spent", Kmain, 0)     \* nothing, or what was resumed and moved on
Fresh == Ctx("idle", Kmain, 0)      \* idle_entry, never run

NoPcb == [pid |-> -1, state |-> "EMPTY", is_user |-> FALSE, parent_pid |-> 0,
          pml4 |-> None, ctx |-> Spent]
Idle == [pid |-> 0, state |-> "READY", is_user |-> FALSE, parent_pid |-> 0,
         pml4 |-> pml4_get_current(Booted), ctx |-> Fresh]

NoStack == -1           \* a null rsp0, as it is in a slot without a process
tss_init == NoStack     \* the TSS is all zeros
tss_set_rsp0(p) == rsp0' = p.pid

NoSwitch == [prev |-> 0, next |-> 0, ret |-> "hlt"]

Init ==
    /\ pcb = [s \in Slots |-> IF s = 0 THEN Idle ELSE NoPcb]
    /\ current_pid = 0 /\ pcb_count = 1 /\ next_pid = 1
    /\ cpu = Kmain /\ ints = TRUE
    /\ pc = [t \in Threads |-> IF t = Kmain THEN "loop" ELSE "user"]
    /\ sw = [t \in Threads |-> NoSwitch]
    /\ child = 0
    /\ kstacks = {} /\ ustacks = {}
    /\ vm = Booted
    /\ rsp0 = tss_init
    /\ mixed = FALSE

(* Thread t executes, and is at a place; it goes on to another.  When a    *)
(* call is over its variables are gone.                                    *)
At(t, place) == cpu = t /\ pc[t] = place
Goto(t, place) == pc' = [pc EXCEPT ![t] = place]
Back == Goto(Kmain, "loop") /\ child' = 0

-----------------------------------------------------------------------------
(* Context switch and scheduler                                            *)

(* The thread that runs once the context of a slot is loaded: a user       *)
(* process is resumed by popping registers and iretq, which faults unless  *)
(* the stack holds exactly that; a kernel thread is resumed by ret.        *)
Resumed(p) ==
    CASE p.is_user /\ p.ctx.kind = "frame" /\ p.ctx.words = POPPED -> p.ctx.thread
      [] ~p.is_user /\ p.ctx.kind \in {"call", "tick"}  -> p.ctx.thread
      [] ~p.is_user /\ p.ctx.kind = "idle"              -> IdleThread
      [] OTHER                                          -> Halted

(* The table tab with the caller's context saved in prev; next's is used.  *)
(* iretq turns interrupts on, of a first frame or of a thread that irq0    *)
(* interrupted; a thread that called context_switch returns with the flag  *)
(* of the one that left for it, which is off in irq0.                      *)
context_switch(tab, prev, next, here, flag) ==
    LET saved == [tab EXCEPT ![prev].ctx = here] IN
    /\ cpu' = Resumed(saved[next])
    /\ ints' = (saved[next].ctx.kind \in {"frame", "tick"} \/ flag)
    /\ pcb' = [saved EXCEPT ![next].ctx = Spent]
    /\ vm' = pml4_load(vm, saved[next].pml4)
    /\ tss_set_rsp0(saved[next])

(* The first READY slot from current_pid on, current_pid itself included.  *)
find_next_ready ==
    LET at(i) == (current_pid + i) % MAX_PROC
        ready == {i \in Slots : pcb[at(i)].state = "READY"}
    IN  IF ready = {} THEN current_pid
        ELSE at(CHOOSE i \in ready : \A j \in ready : i <= j)

Stays == find_next_ready = current_pid

(* The table once schedule has left slot prev, and once it has entered one.*)
Left(prev) ==
    IF pcb[prev].state = "RUNNING" THEN [pcb EXCEPT ![prev].state = "READY"] ELSE pcb

(* Mutant: the slot schedule enters is not marked.                         *)
EnteredUnmarked(tab, next) == tab

Entered(tab, next) == [tab EXCEPT ![next].state = "RUNNING"]

(* irq0 and timer_tick_handler, with interrupts off.                       *)
Tick ==
    /\ cpu # Halted /\ ints /\ ~Stays
    /\ context_switch(Entered(Left(current_pid), find_next_ready), current_pid,
                      find_next_ready, InTick(cpu), FALSE)
    /\ current_pid' = find_next_ready
    /\ UNCHANGED <<pcb_count, next_pid, pc, sw, child, memory>>

(* schedule as a thread calls it: the timer may come between any two of    *)
(* these steps, so that next_idx is stale when the thread goes on.         *)
Schedule(t, ret) ==
    /\ sw' = [sw EXCEPT ![t].ret = ret]
    /\ Goto(t, "find")

FindNext(t) ==
    /\ At(t, "find")
    /\ sw' = [sw EXCEPT ![t].next = find_next_ready]
    /\ Goto(t, "leave")
    /\ UNCHANGED <<table, machine, child, memory>>

Leave(t) ==
    /\ At(t, "leave")
    /\ \/ /\ sw[t].next = current_pid
          /\ Goto(t, sw[t].ret)
          /\ sw' = [sw EXCEPT ![t] = NoSwitch]
          /\ UNCHANGED pcb
       \/ /\ sw[t].next # current_pid
          /\ sw' = [sw EXCEPT ![t].prev = current_pid]
          /\ pcb' = Left(current_pid)
          /\ Goto(t, "enter")
    /\ UNCHANGED <<current_pid, pcb_count, next_pid, machine, child, memory>>

Enter(t) ==
    /\ At(t, "enter")
    /\ pcb' = Entered(pcb, sw[t].next)
    /\ Goto(t, "current")
    /\ UNCHANGED <<current_pid, pcb_count, next_pid, machine, sw, child, memory>>

SetCurrent(t) ==
    /\ At(t, "current")
    /\ current_pid' = sw[t].next
    /\ Goto(t, "switch")
    /\ UNCHANGED <<pcb, pcb_count, next_pid, machine, sw, child, memory>>

(* tss_set_rsp0 and context_switch, which writes the TSS again.  A tick    *)
(* inside context_switch saves the thread in the slot current_pid names,   *)
(* as one just before it does.                                             *)
Switch(t) ==
    /\ At(t, "switch")
    /\ context_switch(pcb, sw[t].prev, sw[t].next, InCall(t), ints)
    /\ Goto(t, sw[t].ret)
    /\ sw' = [sw EXCEPT ![t] = NoSwitch]
    /\ UNCHANGED <<current_pid, pcb_count, next_pid, child, memory>>

-----------------------------------------------------------------------------
(* cmd_exec and user_prog_launch: create a process, run it, free its stack *)

(* What the slot of a new process holds when schedule can see it, before   *)
(* its first frame is made: kernel_rsp is still the one of the last        *)
(* process, or the empty top of the new stack, and resuming it faults.     *)
Unframed(slot, pml4) ==
    [pcb EXCEPT ![slot] =
        [pid |-> next_pid, state |-> "READY", is_user |-> TRUE,
         parent_pid |-> current_pid, pml4 |-> pml4, ctx |-> @.ctx]]

Framed(words) ==
    [s \in Slots |-> IF pcb[s].pid = child
                     THEN [pcb[s] EXCEPT !.ctx = Frame(child, words)] ELSE pcb[s]]

(* The next slot, counted whether or not a process comes into it.          *)
alloc_pcb ==
    /\ At(Kmain, "loop")
    /\ pcb_count < MAX_PROC
    /\ pcb_count' = pcb_count + 1
    /\ Goto(Kmain, "alloc")
    /\ UNCHANGED <<pcb, current_pid, next_pid, machine, sw, child, memory>>

(* kmalloc of the kernel stack fails.                                      *)
CreateFails ==
    /\ At(Kmain, "alloc")
    /\ Back
    /\ UNCHANGED <<table, machine, sw, memory>>

process_create_user ==
    /\ At(Kmain, "alloc")
    /\ next_pid <= MaxPid
    /\ pcb' = Unframed(pcb_count - 1, pml4_get_current(vm))
    /\ next_pid' = next_pid + 1
    /\ child' = next_pid
    /\ kstacks' = kstacks \union {next_pid}
    /\ ustacks' = ustacks \union {next_pid}
    /\ Goto(Kmain, "create")
    /\ UNCHANGED <<current_pid, pcb_count, machine, sw>>

setup_user_stack ==
    /\ At(Kmain, "create")
    /\ pcb' = Framed(CreateWords)
    /\ Goto(Kmain, "created")
    /\ UNCHANGED <<current_pid, pcb_count, next_pid, machine, sw, child, memory>>

(* The slots below pcb_count with a pid; at most one.                      *)
WithPid(p) == {s \in 0 .. pcb_count - 1 : pcb[s].pid = p}
process_current == WithPid(current_pid)

(* process_switch_to finds both slots, then marks the one it leaves.       *)
SwitchReady ==
    /\ At(Kmain, "created")
    /\ \/ /\ process_current = {} \/ WithPid(child) = {}
          /\ Goto(Kmain, "back")
          /\ UNCHANGED <<pcb, sw>>
       \/ /\ \E cur \in process_current, next \in WithPid(child) :
                sw' = [sw EXCEPT ![Kmain] = [prev |-> cur, next |-> next, ret |-> "back"]]
          /\ pcb' = [pcb EXCEPT ![current_pid].state = "READY"]
          /\ Goto(Kmain, "ready")
    /\ UNCHANGED <<current_pid, pcb_count, next_pid, machine, child, memory>>

SwitchPid ==
    /\ At(Kmain, "ready")
    /\ current_pid' = child
    /\ Goto(Kmain, "running")
    /\ UNCHANGED <<pcb, pcb_count, next_pid, machine, sw, child, memory>>

SwitchRunning ==
    /\ At(Kmain, "running")
    /\ pcb' = Entered(pcb, sw[Kmain].next)
    /\ Goto(Kmain, "switch")
    /\ UNCHANGED <<current_pid, pcb_count, next_pid, machine, sw, child, memory>>

(* Back in cmd_exec: kfree(ustack), "processo encerrou".                   *)
ExecDone ==
    /\ At(Kmain, "back")
    /\ ustacks' = ustacks \ {child}
    /\ Back
    /\ UNCHANGED <<table, machine, sw, kstacks>>

-----------------------------------------------------------------------------
(* proc_spawn, proc_waitpid and proc_yield                                 *)

Empty == {s \in Slots : pcb[s].state = "EMPTY"}

proc_spawn ==
    /\ At(Kmain, "loop")
    /\ Empty # {} /\ next_pid <= MaxPid
    /\ \E p \in page_alloc(vm) :
          LET slot == CHOOSE s \in Empty : \A o \in Empty : s <= o IN
          /\ vm' = pml4_create(vm, p)
          /\ pcb' = Unframed(slot, p)
    /\ next_pid' = next_pid + 1
    /\ child' = next_pid
    /\ kstacks' = kstacks \union {next_pid}
    /\ Goto(Kmain, "spawn")
    /\ UNCHANGED <<current_pid, pcb_count, cpu, ints, rsp0, sw, ustacks>>

SpawnFrame ==
    /\ At(Kmain, "spawn")
    /\ pcb' = Framed(SpawnWords)
    /\ Back
    /\ UNCHANGED <<current_pid, pcb_count, next_pid, machine, sw, memory>>

proc_yield ==
    /\ At(Kmain, "loop")
    /\ Schedule(Kmain, "loop")
    /\ UNCHANGED <<table, machine, child, memory>>

(* The slot of the awaited process, or none.                               *)
Awaited == {s \in Slots : pcb[s].pid = child}

proc_waitpid(pid) ==
    /\ At(Kmain, "loop")
    /\ child' = pid
    /\ Goto(Kmain, "wait")
    /\ UNCHANGED <<table, machine, sw, memory>>

WaitNone ==
    /\ At(Kmain, "wait")
    /\ Awaited = {}
    /\ Back
    /\ UNCHANGED <<table, machine, sw, memory>>

(* Mutant: the stack freed is that of the next slot.                       *)
StackOfNext(s) == pcb[(s + 1) % MAX_PROC].pid

(* The process whose stack and PML4 are freed with slot s.                 *)
StackOf(s) == pcb[s].pid

WaitFree ==
    /\ At(Kmain, "wait")
    /\ \E s \in Awaited :
          /\ pcb[s].state = "ZOMBIE"
          /\ kstacks' = kstacks \ {StackOf(s)}
          /\ vm' = pml4_destroy(vm, pcb[s].pml4)
    /\ Goto(Kmain, "reap")
    /\ UNCHANGED <<table, cpu, ints, rsp0, sw, child, ustacks>>

WaitReap ==
    /\ At(Kmain, "reap")
    /\ \E s \in Awaited : pcb' = [pcb EXCEPT ![s].state = "EMPTY"]
    /\ Back
    /\ UNCHANGED <<current_pid, pcb_count, next_pid, machine, sw, memory>>

(* The child still lives.  The next step blocks, whatever happened since.  *)
WaitLook ==
    /\ At(Kmain, "wait")
    /\ \E s \in Awaited : pcb[s].state # "ZOMBIE"
    /\ Goto(Kmain, "block")
    /\ UNCHANGED <<table, machine, sw, child, memory>>

WaitBlock ==
    /\ At(Kmain, "block")
    /\ pcb' = [pcb EXCEPT ![current_pid].state = "BLOCKED"]
    /\ Schedule(Kmain, "wait")
    /\ UNCHANGED <<current_pid, pcb_count, next_pid, machine, child, memory>>

-----------------------------------------------------------------------------
(* The end of a process                                                    *)

(* Mutant: nobody is woken.                                                *)
proc_wake_nobody(tab, pid) == tab

(* The first BLOCKED slot whose process is the parent of pid becomes READY.*)
proc_wake_parent(tab, pid) ==
    LET waiting == {s \in Slots : /\ tab[s].state = "BLOCKED"
                                  /\ \E j \in Slots : /\ tab[j].pid = pid
                                                      /\ tab[j].parent_pid = tab[s].pid}
    IN  IF waiting = {} THEN tab
        ELSE [tab EXCEPT ![CHOOSE s \in waiting : \A o \in waiting : s <= o].state = "READY"]

(* The process in slot s has ended; its thread goes on at place.           *)
Zombie(t, s, place) ==
    /\ pcb' = [pcb EXCEPT ![s].state = "ZOMBIE"]
    /\ sw' = [sw EXCEPT ![t].prev = s]
    /\ Goto(t, place)

(* SYS_exit.  Without a process process_exit_current returns, and the      *)
(* system call halts.                                                      *)
process_exit_current(t) ==
    /\ At(t, "user")
    /\ \/ /\ process_current = {}
          /\ Goto(t, "hlt")
          /\ UNCHANGED <<pcb, sw>>
       \/ \E s \in process_current : Zombie(t, s, "exit")
    /\ UNCHANGED <<current_pid, pcb_count, next_pid, machine, child, memory>>

(* proc_exit, which no system call uses.                                   *)
proc_exit(t) ==
    /\ At(t, "user")
    /\ Zombie(t, current_pid, "zombie")
    /\ UNCHANGED <<current_pid, pcb_count, next_pid, machine, child, memory>>

(* Either wakes the parent; proc_exit goes on with schedule.               *)
ExitWake(t) ==
    /\ \E to \in {<<"exit", "parent">>, <<"zombie", "find">>} : At(t, to[1]) /\ Goto(t, to[2])
    /\ pcb' = proc_wake_parent(pcb, pcb[sw[t].prev].pid)
    /\ UNCHANGED <<current_pid, pcb_count, next_pid, machine, sw, child, memory>>

(* Back to the parent, slot 0 if it is outside the table.                  *)
ExitParent(t) ==
    /\ At(t, "parent")
    /\ LET up == pcb[sw[t].prev].parent_pid
           parent == IF up \in Slots THEN up ELSE 0
       IN  /\ pcb' = IF pcb[parent].state \in {"BLOCKED", "READY"}
                     THEN [pcb EXCEPT ![parent].state = "READY"] ELSE pcb
           /\ sw' = [sw EXCEPT ![t].next = parent]
    /\ Goto(t, "current")
    /\ UNCHANGED <<current_pid, pcb_count, next_pid, machine, child, memory>>

-----------------------------------------------------------------------------
(* SYS_disp_get_fb maps the framebuffer for the current process.  It loads *)
(* CR3 with a null pointer's pml4 if there is none, and, if slot and pid   *)
(* differ and the slot it finds is EMPTY again, with a page that was given *)
(* back: list_add has overwritten its first entries, or it is now another  *)
(* table, perhaps a PML4 again.  Only a PML4 maps the kernel.              *)
Mappable == {s \in process_current : pcb[s].pml4 \in vm.roots \union {Boot}}

disp_get_fb(t) ==
    /\ At(t, "user")
    /\ \/ Mappable = {} /\ cpu' = Halted /\ UNCHANGED vm
       \/ /\ \E s \in Mappable : vm' \in pml4_map_phys(vm, pcb[s].pml4)
          /\ UNCHANGED cpu
    /\ UNCHANGED <<table, ints, rsp0, pc, sw, child, memory>>

-----------------------------------------------------------------------------
(* No failed kmalloc, no reused slot and no mix of the two ways to start a *)
(* process has made pid and slot differ (then SYS_exit marks whichever     *)
(* slot has the number of its own as pid).                                 *)
SlotIsPid == \A s \in Slots : pcb[s].pid \in {-1, s}

SchedulerStep(t) == FindNext(t) \/ Leave(t) \/ Enter(t) \/ SetCurrent(t) \/ Switch(t)

Call == alloc_pcb \/ proc_spawn \/ proc_yield \/ \E pid \in Pids : proc_waitpid(pid)

Kernel ==
    \/ CreateFails \/ process_create_user \/ setup_user_stack
    \/ SwitchReady \/ SwitchPid \/ SwitchRunning \/ ExecDone
    \/ SpawnFrame \/ WaitNone \/ WaitFree \/ WaitReap \/ WaitLook \/ WaitBlock
    \/ SchedulerStep(Kmain)

User(t) ==
    \/ process_exit_current(t) \/ proc_exit(t) \/ ExitWake(t) \/ ExitParent(t)
    \/ SchedulerStep(t) \/ disp_get_fb(t)

Next ==
    /\ Call \/ Kernel \/ Tick \/ \E t \in Pids : User(t)
    /\ mixed' = (mixed \/ ~SlotIsPid')

Spec == Init /\ [][Next]_vars

(* The processor executes the call or the program it is in, a program ends *)
(* sooner or later, and the timer keeps interrupting.                      *)
LiveSpec ==
    /\ Spec
    /\ WF_vars(Next /\ Kernel) /\ WF_vars(Next /\ Tick)
    /\ \A t \in Pids : WF_vars(Next /\ User(t))

-----------------------------------------------------------------------------
(* The processes in the table; proc_waitpid has freed what the one that it *)
(* is about to forget had.                                                 *)
Alive ==
    {s \in Slots : pcb[s].state # "EMPTY" /\ ~(pc[Kmain] = "reap" /\ pcb[s].pid = child)}

(* As long as slots are pids: the kernel stacks that are allocated are     *)
(* those of the processes in the table, ended ones included, until         *)
(* proc_waitpid has reaped them.  None is freed under a process, none is   *)
(* forgotten, whoever waits for whom and wherever the timer comes.         *)
StacksTracked == mixed \/ kstacks = Pids \intersect Alive

(* Every page table that a process in the table, or CR3, leads to is in    *)
(* use as that table and as no other, although the copies that pml4_create *)
(* makes share the tables below and pml4_destroy gives pages back.         *)
TablesBacked ==
    mixed \/
        LET roots == {pcb[s].pml4 : s \in Alive} \union {vm.cr3, Boot}
            pdpts == {vm.entry[r] : r \in roots} \ {None}
            pds   == {vm.entry[p] : p \in pdpts} \ {None}
        IN  /\ (roots \ {Boot}) \union pdpts \union pds \subseteq vm.used
            /\ roots \intersect pdpts = {} /\ roots \intersect pds = {}
            /\ pdpts \intersect pds = {}
            /\ \A s, o \in Alive : pcb[s].pml4 = pcb[o].pml4 => s = o \/ pcb[s].pml4 = Boot

(* As long as slots are pids: a program runs in the slot that current_pid  *)
(* names, it is marked RUNNING, and its interrupts use its own stack,      *)
(* wherever the timer came in the calls of schedule before.                *)
Identity ==
    ~mixed /\ cpu \in Pids /\ pc[cpu] = "user" =>
        current_pid = cpu /\ pcb[cpu].state = "RUNNING" /\ rsp0 = cpu

(* kmain is in proc_waitpid.                                               *)
Waiting ==
    \/ pc[Kmain] \in {"wait", "block"}
    \/ pc[Kmain] \in {"find", "leave", "enter", "current", "switch"} /\ sw[Kmain].ret = "wait"

(* The wakeup of the only child is not lost: once it has ended, by         *)
(* proc_exit or by SYS_exit, proc_waitpid comes back, whether the timer    *)
(* came before kmain looked, before it was BLOCKED or inside schedule.     *)
OnlyChildEnded ==
    /\ Waiting /\ ~mixed
    /\ \E s \in Awaited : /\ pcb[s].state = "ZOMBIE"
                          /\ \A o \in Slots \ {0, s} : pcb[o].state = "EMPTY"

ChildReaped == OnlyChildEnded ~> (pc[Kmain] = "loop" \/ cpu = Halted)

(* proc_waitpid comes back from a wait for a process of the table, if      *)
(* every program ends by calling SYS_exit or proc_exit (process.h: "Agora  *)
(* com scheduler round-robin, waitpid, yield~").                           *)
WaitReturns ==
    (Waiting /\ \E s \in Awaited : pcb[s].state # "EMPTY")
        ~> (pc[Kmain] = "loop" \/ cpu = Halted \/ mixed)

(* context_switch enters ring 3 with the layout it expects on the stack,   *)
(* [r15,r14,...,rax, RIP,CS,RFLAGS,RSP,SS]: no switch ends in a fault.     *)
NoFault == cpu # Halted

=============================================================================
