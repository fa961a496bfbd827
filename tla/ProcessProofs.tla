--------------------------- MODULE ProcessProofs ---------------------------
(***************************************************************************)
(* The process table under the timer, for every number of slots, pids and  *)
(* pages and for every layout of the first frames, as long as no process   *)
(* is in a slot that is not its pid.                                       *)
(***************************************************************************)
EXTENDS Process, WellFoundedInduction, TLAPS

-----------------------------------------------------------------------------
(* The inductive invariant.  User processes are resumed from their first   *)
(* frame only, so what is saved of a thread elsewhere than in slot 0 is    *)
(* lost; that is what keeps the possible states few.                       *)

States == {"EMPTY", "READY", "RUNNING", "BLOCKED", "ZOMBIE"}
Contexts == [kind : {"frame", "call", "tick", "spent", "idle"},
             thread : Threads \union {IdleThread}, words : Nat]
Roots == {Boot} \union Pages
Pcb == [pid : Int, state : States, is_user : BOOLEAN, parent_pid : {0},
        pml4 : Roots \union {None}, ctx : Contexts]
Tables == [entry : [Roots -> Pages \union {None, Framebuffer}],
           used : SUBSET Pages, roots : SUBSET Pages, cr3 : Roots]
Switches == [prev : Slots, next : Slots, ret : {"hlt", "loop", "wait", "back"}]
KmainPc == {"loop", "alloc", "create", "created", "ready", "running", "back", "spawn",
            "wait", "reap", "block", "find", "leave", "enter", "current", "switch"}
UserPc == {"user", "exit", "zombie", "parent", "find", "leave", "enter", "current",
           "switch", "hlt"}

VarsOK ==
    /\ pcb \in [Slots -> Pcb]
    /\ current_pid \in Slots /\ pcb_count \in 1 .. MAX_PROC /\ next_pid \in 1 .. MaxPid + 1
    /\ cpu \in Threads \union {IdleThread, Halted}
    /\ pc \in [Threads -> KmainPc \union UserPc]
    /\ pc[Kmain] \in KmainPc /\ \A t \in Pids : pc[t] \in UserPc
    /\ sw \in [Threads -> Switches]
    /\ child \in 0 .. MaxPid
    /\ vm \in Tables

Used(s) == pcb[s].state # "EMPTY"

(* Slot 0 is idle's and kmain's, the others are programs, each in the slot *)
(* of its pid.                                                             *)
TableOK ==
    /\ pcb[0].pid = 0 /\ ~pcb[0].is_user /\ pcb[0].pml4 = Boot
    /\ pcb[0].state \notin {"EMPTY", "ZOMBIE"}
    /\ \A s \in Slots \ {0} :
          /\ pcb[s].pid \in {-1, s}
          /\ pcb[s].pid = -1 => pcb[s].state = "EMPTY"
          /\ pcb[s].pid = s => s < next_pid /\ pcb[s].is_user

(* A program that has not run yet.                                         *)
FrameOK ==
    /\ \A s \in Slots : pcb[s].ctx.kind = "frame" =>
          /\ s # 0 /\ pcb[s].pid = s /\ pcb[s].ctx.thread = s
          /\ cpu # s /\ pc[s] = "user"
          /\ ~(pc[Kmain] \in {"create", "spawn"} /\ s = child)
    /\ \A p \in Pids : p >= next_pid \/ (pc[Kmain] \in {"create", "spawn"} /\ p = child) =>
          cpu # p /\ pc[p] = "user"

(* What is saved in slot 0: kmain, idle, or a program that was interrupted *)
(* on the point of leaving for slot 0.                                     *)
ZeroOK ==
    pcb[0].ctx.kind \in {"call", "tick"} =>
        LET t == pcb[0].ctx.thread IN
        /\ t = Kmain => cpu # Kmain /\ pc[Kmain] \notin {"running", "switch"}
        /\ t \in Pids => /\ cpu # t /\ pc[t] = "switch" /\ sw[t].next = 0
                         /\ pc[Kmain] = "current" => t # sw[Kmain].next

(* Where kmain is, whether it runs or not: the process it makes, runs or   *)
(* reaps is in the table, and so is the one that it is about to enter,     *)
(* since kmain alone takes processes out of the table.                     *)
KmainOK ==
    /\ pc[Kmain] \in {"create", "created", "spawn", "ready", "running", "reap"} =>
          child \in Pids /\ pcb[child].pid = child /\ Used(child)
    /\ pc[Kmain] = "reap" => pcb[child].state = "ZOMBIE"
    /\ pc[Kmain] \in {"ready", "running"} =>
          sw[Kmain].prev = 0 /\ sw[Kmain].next = child /\ sw[Kmain].ret = "back"
    /\ pc[Kmain] \in {"find", "leave", "enter", "current", "switch"} => sw[Kmain].ret # "hlt"
    /\ pc[Kmain] = "leave" => Used(sw[Kmain].next)
    /\ pc[Kmain] \in {"enter", "current", "switch"} =>
          sw[Kmain].prev = 0 /\ sw[Kmain].next # 0 /\ Used(sw[Kmain].next)
    /\ pc[Kmain] = "current" =>
          pcb[sw[Kmain].next].state = "RUNNING" /\ cpu # sw[Kmain].next

(* What current_pid is while kmain runs, and while a program runs.         *)
KmainRuns ==
    cpu = Kmain =>
        /\ vm.cr3 = Boot /\ pcb[0].ctx.kind \notin {"call", "tick"}
        /\ pc[Kmain] \notin {"running", "switch"} => current_pid = 0
        /\ pc[Kmain] = "running" => current_pid = child
        /\ pc[Kmain] = "switch" =>
              current_pid = sw[Kmain].next /\ pcb[current_pid].state = "RUNNING"

UserOf(t) ==
    /\ sw[t].ret = "hlt"
    /\ pc[t] \notin {"user", "hlt"} => sw[t].prev = t
    /\ cpu = t =>
          /\ pc[t] # "switch" => current_pid = t /\ pcb[t].pid = t
          /\ pc[t] = "user" => pcb[t].state = "RUNNING" /\ rsp0 = t
          /\ pc[t] = "leave" => sw[t].next = t \/ pcb[sw[t].next].state = "READY"
          /\ pc[t] = "enter" => sw[t].next # t /\ pcb[sw[t].next].state = "READY"
          /\ pc[t] \in {"current", "switch"} =>
                /\ sw[t].next # t
                /\ sw[t].next # 0 => pcb[sw[t].next].state = "RUNNING"
                /\ pc[Kmain] = "current" => sw[t].next # sw[Kmain].next
          /\ pc[t] = "switch" => current_pid = sw[t].next

UserOK == \A t \in Pids : UserOf(t)

IdleOK == cpu = IdleThread => current_pid = 0

(* Page tables: a PML4 leads to a PDPT, that to a PD, each of them a page  *)
(* in use as that.                                                         *)
Tops(v) == v.roots \union {Boot}

TablesOK(v) ==
    /\ v.roots \subseteq v.used
    /\ \A r \in Tops(v) : v.entry[r] # None =>
          LET pdpt == v.entry[r]
              pd == v.entry[pdpt]
          IN  /\ pdpt \in v.used \ v.roots
              /\ pd # None => pd \in v.used \ v.roots /\ v.entry[pd] \in {None, Framebuffer}
              /\ \A q \in Tops(v) : pd # None => v.entry[q] # pd

RootsOK ==
    /\ vm.cr3 \in Tops(vm)
    /\ \A s \in Alive : pcb[s].pml4 \in Tops(vm)
    /\ \A s, o \in Alive : pcb[s].pml4 = pcb[o].pml4 => s = o \/ pcb[s].pml4 = Boot

StacksOK == kstacks = Pids \intersect Alive

PInv ==
    /\ VarsOK /\ TableOK /\ FrameOK /\ ZeroOK /\ KmainOK /\ KmainRuns
    /\ UserOK /\ IdleOK /\ TablesOK(vm) /\ RootsOK /\ StacksOK

-----------------------------------------------------------------------------
(* The constants, and the least element of a set of numbers.               *)

(* The constants as sets of numbers.                                       *)
LEMMA Numbers ==
    /\ MAX_PROC \in Nat /\ MaxPid \in Nat /\ MaxPid < MAX_PROC /\ 1 <= MaxPid
    /\ Slots = 0 .. MAX_PROC - 1 /\ 0 \in Slots
    /\ Pids \subseteq Slots /\ 0 \notin Pids /\ -1 \notin Pids /\ -2 \notin Pids
    /\ Threads = Pids \union {0} /\ Kmain = 0 /\ IdleThread = -1 /\ Halted = -2
    /\ Pages \subseteq Nat \ {0} /\ Boot = 0 /\ None = -1 /\ Framebuffer = -2
BY ProcAssumption, PageAssumption
   DEF Slots, Pids, Threads, Kmain, IdleThread, Halted, Boot, None, Framebuffer

(* A set of natural numbers that is not empty has a least element.         *)
LEMMA Least ==
    ASSUME NEW T, T \subseteq Nat, T # {}
    PROVE  \E m \in T : \A n \in T : m <= n
<1>1. PICK m \in T : \A n \in T : ~ (<<n, m>> \in OpToRel(<, Nat))
  BY NatLessThanWellFounded, WFMin
<1>2. ASSUME NEW n \in T PROVE m <= n
  <2>1. n \in Nat /\ m \in Nat /\ ~ (<<n, m>> \in {ss \in Nat \X Nat : ss[1] < ss[2]})
    BY <1>1 DEF OpToRel
  <2> QED
    BY <2>1
<1> QED
  BY <1>2

-----------------------------------------------------------------------------
(* What the scheduler and the context switch do to the table.              *)

(* The table tab has the processes of pcb, with the same contexts.         *)
SameProcesses(tab) ==
    /\ tab \in [Slots -> Pcb]
    /\ \A s \in Slots : /\ tab[s].pid = pcb[s].pid /\ tab[s].is_user = pcb[s].is_user
                        /\ tab[s].parent_pid = pcb[s].parent_pid
                        /\ tab[s].pml4 = pcb[s].pml4 /\ tab[s].ctx = pcb[s].ctx

(* Only CR3 is new.                                                        *)
SameTables(v) ==
    v \in Tables /\ v.entry = vm.entry /\ v.used = vm.used /\ v.roots = vm.roots

(* A new state of one slot.                                                *)
Written(tab, x, st, new) ==
    /\ new \in [Slots -> Pcb] /\ new[x] = [tab[x] EXCEPT !.state = st]
    /\ \A s \in Slots \ {x} : new[s] = tab[s]

(* A new state leaves the rest of the process as it is.                    *)
LEMMA StateOf ==
    ASSUME NEW tab, SameProcesses(tab), NEW x \in Slots, NEW st \in States,
           NEW new, Written(tab, x, st, new)
    PROVE  /\ SameProcesses(new) /\ new[x].state = st
           /\ \A s \in Slots \ {x} : new[s] = tab[s]
<1>1. tab \in [Slots -> Pcb] /\ tab[x] \in Pcb
  BY DEF SameProcesses
<1>2. new \in [Slots -> Pcb] /\ new[x] = [tab[x] EXCEPT !.state = st]
      /\ \A s \in Slots \ {x} : new[s] = tab[s]
  BY DEF Written
<1>3. /\ new[x].pid = tab[x].pid /\ new[x].is_user = tab[x].is_user
      /\ new[x].parent_pid = tab[x].parent_pid /\ new[x].pml4 = tab[x].pml4
      /\ new[x].ctx = tab[x].ctx /\ new[x].state = st
  BY <1>1, <1>2 DEF Pcb
<1>4. ASSUME NEW s \in Slots
      PROVE  /\ new[s].pid = tab[s].pid /\ new[s].is_user = tab[s].is_user
             /\ new[s].parent_pid = tab[s].parent_pid
             /\ new[s].pml4 = tab[s].pml4 /\ new[s].ctx = tab[s].ctx
  <2>1. CASE s = x
    BY <1>3, <2>1
  <2>2. CASE s # x
    BY <1>2, <2>2
  <2> QED
    BY <2>1, <2>2
<1>5. SameProcesses(new)
  BY <1>2, <1>4, ZenonT(30) DEF SameProcesses
<1> QED
  BY <1>2, <1>3, <1>5

(* The assignments of the code are such writes.                            *)
LEMMA WrittenIs ==
    ASSUME NEW tab \in [Slots -> Pcb], NEW x \in Slots, NEW st \in States
    PROVE  Written(tab, x, st, [tab EXCEPT ![x].state = st])
BY DEF Written, Pcb

(* The slot schedule chooses is READY, and another one.                    *)
LEMMA Found ==
    ASSUME VarsOK
    PROVE  /\ find_next_ready \in Slots
           /\ ~Stays => /\ pcb[find_next_ready].state = "READY"
                        /\ find_next_ready # current_pid
<1> DEFINE at(i) == (current_pid + i) % MAX_PROC
           ready == {i \in Slots : pcb[at(i)].state = "READY"}
<1>1. current_pid \in Slots
  BY DEF VarsOK
<1>2. \A i \in Slots : at(i) \in Slots
  BY <1>1, Numbers
<1>3. CASE ready = {}
  <2>1. find_next_ready = current_pid
    BY <1>3 DEF find_next_ready
  <2> QED
    BY <1>1, <2>1 DEF Stays
<1>4. CASE ready # {}
  <2>1. ready \subseteq Nat
    BY Numbers
  <2> DEFINE m == CHOOSE i \in ready : \A j \in ready : i <= j
  <2> HIDE DEF ready
  <2>2. m \in ready
    BY <1>4, <2>1, Least
  <2>3. find_next_ready = at(m)
    BY <1>4 DEF find_next_ready, ready
  <2> HIDE DEF m, at
  <2>4. at(m) \in Slots /\ pcb[at(m)].state = "READY"
    BY <1>2, <2>2 DEF ready
  <2> QED
    BY <2>3, <2>4 DEF Stays
<1> QED
  BY <1>3, <1>4

(* schedule makes the chosen slot RUNNING and a RUNNING one it leaves      *)
(* schedule leaves a slot: READY if it was RUNNING.                        *)
LEMMA LeftIs ==
    ASSUME VarsOK, NEW x \in Slots
    PROVE  /\ SameProcesses(Left(x))
           /\ \A s \in Slots : Left(x)[s].state =
                 IF s = x /\ pcb[s].state = "RUNNING" THEN "READY" ELSE pcb[s].state
<1>1. SameProcesses(pcb) /\ pcb \in [Slots -> Pcb] /\ "READY" \in States
  BY DEF SameProcesses, VarsOK, States
<1>2. CASE pcb[x].state = "RUNNING"
  <2> DEFINE new == [pcb EXCEPT ![x].state = "READY"]
  <2>1. Left(x) = new
    BY <1>2 DEF Left
  <2>2. Written(pcb, x, "READY", new)
    BY <1>1, WrittenIs
  <2> HIDE DEF new
  <2>3. /\ SameProcesses(new) /\ new[x].state = "READY"
        /\ \A s \in Slots \ {x} : new[s] = pcb[s]
    BY <1>1, <2>2, StateOf
  <2> QED
    BY <1>2, <2>1, <2>3
<1>3. CASE pcb[x].state # "RUNNING"
  BY <1>1, <1>3 DEF Left
<1> QED
  BY <1>2, <1>3

(* It enters one: RUNNING.                                                 *)
LEMMA EnteredIs ==
    ASSUME NEW tab, SameProcesses(tab), NEW x \in Slots
    PROVE  /\ SameProcesses(Entered(tab, x)) /\ Entered(tab, x)[x].state = "RUNNING"
           /\ \A s \in Slots \ {x} : Entered(tab, x)[s] = tab[s]
<1> DEFINE new == [tab EXCEPT ![x].state = "RUNNING"]
<1>1. "RUNNING" \in States /\ tab \in [Slots -> Pcb]
  BY DEF States, SameProcesses
<1>2. Written(tab, x, "RUNNING", new)
  BY <1>1, WrittenIs
<1>3. Entered(tab, x) = new
  BY DEF Entered
<1> HIDE DEF new
<1> QED
  BY <1>1, <1>2, <1>3, StateOf

(* proc_wake_parent makes one BLOCKED slot READY, if any.                  *)
LEMMA Woken ==
    ASSUME VarsOK, NEW pid
    PROVE  /\ SameProcesses(proc_wake_parent(pcb, pid))
           /\ \A s \in Slots : \/ proc_wake_parent(pcb, pid)[s].state = pcb[s].state
                               \/ /\ pcb[s].state = "BLOCKED"
                                  /\ proc_wake_parent(pcb, pid)[s].state = "READY"
<1> DEFINE waiting == {s \in Slots : /\ pcb[s].state = "BLOCKED"
                                     /\ \E j \in Slots : /\ pcb[j].pid = pid
                                                         /\ pcb[j].parent_pid = pcb[s].pid}
           w == CHOOSE s \in waiting : \A o \in waiting : s <= o
<1>1. SameProcesses(pcb) /\ pcb \in [Slots -> Pcb]
  BY DEF SameProcesses, VarsOK
<1>2. CASE waiting = {}
  <2>1. proc_wake_parent(pcb, pid) = pcb
    BY <1>2 DEF proc_wake_parent
  <2> QED
    BY <1>1, <2>1
<1>3. CASE waiting # {}
  <2>1. waiting \subseteq Nat /\ \A s \in waiting : s \in Slots /\ pcb[s].state = "BLOCKED"
    BY Numbers
  <2>2. proc_wake_parent(pcb, pid) = [pcb EXCEPT ![w].state = "READY"]
    BY <1>3 DEF proc_wake_parent
  <2> HIDE DEF waiting
  <2>3. w \in waiting
    BY <1>3, <2>1, Least
  <2> HIDE DEF w
  <2>4. w \in Slots /\ pcb[w].state = "BLOCKED" /\ "READY" \in States
    BY <2>1, <2>3 DEF States
  <2> DEFINE new == [pcb EXCEPT ![w].state = "READY"]
  <2>5. Written(pcb, w, "READY", new)
    BY <1>1, <2>4, WrittenIs
  <2> HIDE DEF new
  <2>6. /\ SameProcesses(new) /\ new[w].state = "READY"
        /\ \A s \in Slots \ {w} : new[s] = pcb[s]
    BY <1>1, <2>4, <2>5, StateOf
  <2> QED
    BY <2>2, <2>4, <2>6 DEF new
<1> QED
  BY <1>2, <1>3

-----------------------------------------------------------------------------
(* A thread goes on to its next step.                                      *)

(* kmain moves.                                                            *)
LEMMA KmainMoves ==
    ASSUME VarsOK, NEW v \in KmainPc, pc' = [pc EXCEPT ![Kmain] = v]
    PROVE  /\ pc' \in [Threads -> KmainPc \union UserPc]
           /\ pc'[Kmain] = v /\ \A t \in Pids : pc'[t] = pc[t] /\ pc[t] \in UserPc
BY Numbers DEF VarsOK

(* A program moves.                                                        *)
LEMMA UserMoves ==
    ASSUME VarsOK, NEW t \in Pids, NEW v \in UserPc, pc' = [pc EXCEPT ![t] = v]
    PROVE  /\ pc' \in [Threads -> KmainPc \union UserPc]
           /\ pc'[Kmain] = pc[Kmain] /\ pc[Kmain] \in KmainPc /\ pc'[t] = v
           /\ \A u \in Pids \ {t} : pc'[u] = pc[u] /\ pc[u] \in UserPc
BY Numbers DEF VarsOK

(* One slot gets a new state.                                              *)
LEMMA StateWrite ==
    ASSUME VarsOK, NEW x \in Slots, NEW st \in States, pcb' = [pcb EXCEPT ![x].state = st]
    PROVE  /\ SameProcesses(pcb') /\ pcb'[x].state = st
           /\ \A s \in Slots \ {x} : pcb'[s] = pcb[s]
<1>1. SameProcesses(pcb) /\ pcb \in [Slots -> Pcb]
  BY DEF SameProcesses, VarsOK
<1>2. Written(pcb, x, st, pcb')
  BY <1>1 DEF Written, Pcb
<1> QED
  BY <1>1, <1>2, StateOf

(* Types, one by one.                                                      *)
LEMMA Counters ==
    ASSUME VarsOK
    PROVE  /\ current_pid \in Slots /\ current_pid \in Nat /\ child \in Slots /\ child \in Nat
           /\ next_pid \in Nat /\ 1 <= next_pid
           /\ pcb_count \in Nat /\ 1 <= pcb_count /\ pcb_count <= MAX_PROC
           /\ pcb_count - 1 \in Slots /\ 0 .. pcb_count - 1 \subseteq Slots
BY Numbers DEF VarsOK

(* What a switch leaves and enters are slots.                              *)
LEMMA SwSlots ==
    ASSUME VarsOK
    PROVE  \A t \in Threads :
              sw[t] \in Switches /\ sw[t].prev \in Slots /\ sw[t].next \in Slots
BY DEF VarsOK, Switches

(* A thread writes one of its own variables.                               *)
LEMMA SwMoves ==
    ASSUME VarsOK, NEW t \in Threads, NEW r \in Switches, sw' = [sw EXCEPT ![t] = r]
    PROVE  /\ sw' \in [Threads -> Switches] /\ sw'[t] = r
           /\ \A u \in Threads \ {t} : sw'[u] = sw[u]
BY DEF VarsOK

(* Kmain is the thread 0.                                                  *)
LEMMA Small ==
    /\ 0 \in Slots /\ Kmain = 0 /\ Kmain \in Threads /\ Pids \subseteq Threads
    /\ Kmain \notin Pids /\ Threads = Pids \union {Kmain} /\ Pids \subseteq Slots
    /\ Halted \notin Threads /\ IdleThread \notin Threads /\ Halted # IdleThread
BY Numbers

-----------------------------------------------------------------------------
(* Steps that leave every process where it is.                             *)

(* Every slot is used or not as it was.                                    *)
SameUse == \A s \in Slots : pcb'[s].state = "EMPTY" <=> pcb[s].state = "EMPTY"

(* Then stacks and page tables are still those of the same processes.      *)
LEMMA UseKept ==
    ASSUME PInv, SameUse, kstacks' = kstacks, vm'.roots = vm.roots, vm'.cr3 \in Tops(vm),
           \A s \in Slots : pcb'[s].pid = pcb[s].pid /\ pcb'[s].pml4 = pcb[s].pml4,
           pc'[Kmain] = "reap" <=> pc[Kmain] = "reap",
           pc[Kmain] = "reap" => child' = child
    PROVE  RootsOK' /\ StacksOK'
<1>1. Alive' = Alive
  BY DEF Alive, SameUse
<1>2. Tops(vm)' = Tops(vm) /\ Alive \subseteq Slots
  BY DEF Tops, Alive
<1>3. StacksOK'
  BY <1>1 DEF PInv, StacksOK
<1>4. RootsOK'
  BY <1>1, <1>2 DEF PInv, RootsOK
<1> QED
  BY <1>3, <1>4

(* The processes are those of before, so the table is right.               *)
LEMMA TableKept ==
    ASSUME PInv, SameUse, SameProcesses(pcb'), pcb'[0].state # "ZOMBIE", next_pid' = next_pid
    PROVE  TableOK'
BY Small DEF PInv, TableOK, SameUse, SameProcesses

(* kmain goes on from one place to another.                                *)
LEMMA KmainMove ==
    ASSUME PInv, NEW to \in KmainPc, cpu = Kmain, cpu' = Kmain, pc' = [pc EXCEPT ![Kmain] = to],
           SameProcesses(pcb'), SameUse, pcb'[0].state # "ZOMBIE",
           current_pid' \in Slots, pcb_count' \in 1 .. MAX_PROC, next_pid' = next_pid,
           child' \in 0 .. MaxPid, sw' \in [Threads -> Switches], \A t \in Pids : sw'[t] = sw[t],
           vm' = vm, kstacks' = kstacks,
           pc[Kmain] # "reap", to \notin {"reap", "create", "spawn"}, KmainOK', KmainRuns'
    PROVE  PInv'
<1> USE DEF PInv
<1>1. /\ pc' \in [Threads -> KmainPc \union UserPc] /\ pc'[Kmain] = to
      /\ \A t \in Pids : pc'[t] = pc[t] /\ pc[t] \in UserPc
  BY KmainMoves
<1>2. VarsOK'
  BY <1>1 DEF VarsOK, SameProcesses
<1>3. TableOK'
  BY TableKept
<1>4. \A s \in Slots : pcb'[s].pid = pcb[s].pid /\ pcb'[s].ctx = pcb[s].ctx
                       /\ pcb'[s].pml4 = pcb[s].pml4
  BY DEF SameProcesses
<1>5. FrameOK'
  <2>1. ASSUME NEW s \in Slots, pcb'[s].ctx.kind = "frame"
        PROVE  s # 0 /\ pcb'[s].pid = s /\ pcb'[s].ctx.thread = s /\ cpu' # s /\ pc'[s] = "user"
    <3>1. /\ s # 0 /\ pcb[s].pid = s /\ pcb[s].ctx.thread = s /\ cpu # s /\ pc[s] = "user"
          /\ pcb[s].ctx.kind = "frame"
      BY <1>4, <2>1 DEF FrameOK
    <3>2. s \in Pids
      BY <3>1, Numbers, Counters DEF TableOK, VarsOK, Pids
    <3> QED
      BY <1>1, <1>4, <3>1, <3>2
  <2> QED
    BY <1>1, <2>1 DEF FrameOK
<1>6. ZeroOK'
  BY <1>4, Small DEF ZeroOK, KmainRuns
<1>7. UserOK'
  <2>1. ASSUME NEW t \in Pids PROVE UserOf(t)'
    <3>1. UserOf(t) /\ cpu' # t /\ sw'[t] = sw[t] /\ pc'[t] = pc[t]
      BY <1>1, Small DEF UserOK
    <3> QED
      BY <3>1 DEF UserOf
  <2> QED
    BY <2>1 DEF UserOK
<1>8. IdleOK'
  BY Small DEF IdleOK
<1>9. RootsOK' /\ StacksOK'
  <2>1. vm'.roots = vm.roots /\ vm'.cr3 \in Tops(vm) /\ pc'[Kmain] # "reap"
    BY <1>1 DEF RootsOK
  <2> QED
    BY <1>4, <2>1, UseKept
<1> QED
  BY <1>2, <1>3, <1>5, <1>6, <1>7, <1>8, <1>9

(* A program goes on.                                                      *)
LEMMA UserMove ==
    ASSUME PInv, NEW t \in Pids, NEW to \in UserPc, cpu = t, cpu' = t,
           pc' = [pc EXCEPT ![t] = to],
           SameProcesses(pcb'), SameUse, pcb'[0].state # "ZOMBIE",
           current_pid' \in Slots, pcb_count' = pcb_count, next_pid' = next_pid, child' = child,
           sw' \in [Threads -> Switches], \A u \in Threads \ {t} : sw'[u] = sw[u],
           vm' = vm, kstacks' = kstacks,
           pc[Kmain] = "reap" => pcb'[child].state = "ZOMBIE",
           pc[Kmain] = "current" => pcb'[sw[Kmain].next].state = "RUNNING",
           UserOf(t)'
    PROVE  PInv'
<1> USE DEF PInv
<1>1. /\ pc' \in [Threads -> KmainPc \union UserPc] /\ pc'[Kmain] = pc[Kmain]
      /\ pc[Kmain] \in KmainPc /\ pc'[t] = to
      /\ \A u \in Pids \ {t} : pc'[u] = pc[u] /\ pc[u] \in UserPc
  BY UserMoves
<1>2. VarsOK'
  BY <1>1 DEF VarsOK, SameProcesses
<1>3. TableOK'
  BY TableKept
<1>4. \A s \in Slots : pcb'[s].pid = pcb[s].pid /\ pcb'[s].ctx = pcb[s].ctx
                       /\ pcb'[s].pml4 = pcb[s].pml4
  BY DEF SameProcesses
<1>5. FrameOK'
  <2>1. ASSUME NEW s \in Slots, pcb'[s].ctx.kind = "frame"
        PROVE  /\ s # 0 /\ pcb'[s].pid = s /\ pcb'[s].ctx.thread = s /\ cpu' # s /\ pc'[s] = "user"
               /\ ~(pc'[Kmain] \in {"create", "spawn"} /\ s = child')
    <3>1. /\ s # 0 /\ pcb[s].pid = s /\ pcb[s].ctx.thread = s /\ cpu # s /\ pc[s] = "user"
          /\ pcb[s].ctx.kind = "frame" /\ ~(pc[Kmain] \in {"create", "spawn"} /\ s = child)
      BY <1>4, <2>1 DEF FrameOK
    <3>2. s \in Pids
      BY <3>1, Numbers, Counters DEF TableOK, VarsOK, Pids
    <3> QED
      BY <1>1, <1>4, <3>1, <3>2
  <2> QED
    BY <1>1, <2>1 DEF FrameOK
<1>6. ZeroOK'
  <2>1. /\ pcb'[0].ctx = pcb[0].ctx /\ sw'[Kmain] = sw[Kmain] /\ t # Kmain
        /\ \A u \in Pids \ {t} : sw'[u] = sw[u]
    BY <1>4, Small
  <2> QED
    BY <1>1, <2>1 DEF ZeroOK
<1>7. KmainOK'
  <2>1. sw'[Kmain] = sw[Kmain] /\ sw[Kmain].next \in Slots /\ child \in Slots
    BY Small, SwSlots, Counters
  <2> QED
    BY <1>1, <1>4, <2>1 DEF KmainOK, Used, SameUse
<1>8. KmainRuns'
  BY Small DEF KmainRuns
<1>9. UserOK'
  <2>1. ASSUME NEW u \in Pids, u # t PROVE UserOf(u)'
    <3>1. UserOf(u) /\ cpu' # u /\ sw'[u] = sw[u] /\ pc'[u] = pc[u]
      BY <1>1, <2>1, Small DEF UserOK
    <3> QED
      BY <3>1 DEF UserOf
  <2> QED
    BY <2>1 DEF UserOK
<1>10. IdleOK'
  BY Small DEF IdleOK
<1>11. RootsOK' /\ StacksOK'
  <2>1. vm'.roots = vm.roots /\ vm'.cr3 \in Tops(vm)
    BY DEF RootsOK
  <2> QED
    BY <1>1, <1>4, <2>1, UseKept
<1> QED
  BY <1>2, <1>3, <1>5, <1>6, <1>7, <1>8, <1>9, <1>10, <1>11

-----------------------------------------------------------------------------
(* The steps of kmain that only move it.                                   *)

(* The table of before has the processes of before.                        *)
LEMMA Unchanged ==
    ASSUME PInv, pcb' = pcb
    PROVE  SameProcesses(pcb') /\ SameUse /\ pcb'[0].state # "ZOMBIE"
BY DEF PInv, VarsOK, TableOK, SameProcesses, SameUse

(* kmain is at a place where nothing is asked of its variables.            *)
LEMMA KmainRests ==
    ASSUME PInv, cpu = Kmain, cpu' = Kmain, NEW to, pc' = [pc EXCEPT ![Kmain] = to],
           to \in {"loop", "alloc", "back", "wait", "block"},
           SameProcesses(pcb'), SameUse, pcb'[0].state # "ZOMBIE",
           UNCHANGED <<current_pid, next_pid, vm, kstacks>>, current_pid = 0,
           pcb_count' \in 1 .. MAX_PROC, child' \in 0 .. MaxPid,
           sw' \in [Threads -> Switches], \A t \in Pids : sw'[t] = sw[t],
           pc[Kmain] # "reap"
    PROVE  PInv'
<1>1. to \in KmainPc /\ to \notin {"reap", "create", "spawn"}
  BY DEF KmainPc
<1>2. pc'[Kmain] = to
  BY Small DEF PInv, VarsOK
<1>3. KmainOK'
  BY <1>2 DEF KmainOK
<1>4. KmainRuns' /\ current_pid' \in Slots
  BY <1>2, Small DEF PInv, KmainRuns, SameProcesses
<1> QED
  BY <1>1, <1>3, <1>4, KmainMove

(* Where kmain is when it makes or awaits a process, or is in cmd_exec.    *)
LEMMA KmainHere ==
    ASSUME PInv, NEW place, At(Kmain, place), place \notin {"running", "switch"}
    PROVE  /\ cpu = Kmain /\ pc[Kmain] = place /\ current_pid = 0 /\ vm.cr3 = Boot
           /\ pcb[0].ctx.kind \notin {"call", "tick"}
BY DEF PInv, KmainRuns, At

(* alloc_pcb, kmalloc that fails, cmd_exec's end, proc_waitpid that finds  *)
(* nothing or looks again: kmain's place changes, and what it counts.      *)
LEMMA QuietInv ==
    ASSUME PInv, \/ alloc_pcb \/ CreateFails \/ ExecDone \/ WaitNone \/ WaitLook
                 \/ \E pid \in Pids : proc_waitpid(pid)
    PROVE  PInv'
<1>1. PICK from \in {"loop", "alloc", "back", "wait"} : At(Kmain, from)
  BY DEF alloc_pcb, CreateFails, ExecDone, WaitNone, WaitLook, proc_waitpid
<1>2. cpu = Kmain /\ current_pid = 0 /\ pc[Kmain] # "reap"
  BY <1>1, KmainHere
<1>3. PICK to \in {"loop", "alloc", "block", "wait"} : pc' = [pc EXCEPT ![Kmain] = to]
  BY DEF alloc_pcb, CreateFails, ExecDone, WaitNone, WaitLook, proc_waitpid, Back, Goto
<1>4. /\ UNCHANGED <<pcb, current_pid, next_pid, cpu, vm, kstacks, sw>>
      /\ child' \in {0, child} \union Pids
      /\ pcb_count' \in {pcb_count} \union {n \in {pcb_count + 1} : pcb_count < MAX_PROC}
  BY DEF alloc_pcb, CreateFails, ExecDone, WaitNone, WaitLook, proc_waitpid, Back, Goto,
         table, machine, memory
<1>5. /\ child' \in 0 .. MaxPid /\ pcb_count' \in 1 .. MAX_PROC
      /\ sw' \in [Threads -> Switches] /\ \A t \in Pids : sw'[t] = sw[t]
  BY <1>4, Numbers DEF PInv, VarsOK, Pids
<1> QED
  BY <1>2, <1>3, <1>4, <1>5, Unchanged, KmainRests

(* kmain calls schedule: it looks for the next slot first.                 *)
LEMMA ScheduleInv ==
    ASSUME PInv, NEW ret \in {"loop", "wait"}, cpu = Kmain, cpu' = Kmain, Schedule(Kmain, ret),
           SameProcesses(pcb'), SameUse, pcb'[0].state # "ZOMBIE",
           UNCHANGED <<current_pid, pcb_count, next_pid, vm, child, kstacks>>,
           pc[Kmain] \in {"loop", "block"}
    PROVE  PInv'
<1> DEFINE r == [sw[Kmain] EXCEPT !.ret = ret]
<1>1. pc' = [pc EXCEPT ![Kmain] = "find"] /\ sw' = [sw EXCEPT ![Kmain] = r] /\ "find" \in KmainPc
      /\ pc[Kmain] # "reap" /\ current_pid = 0
  BY DEF Schedule, Goto, KmainPc, PInv, KmainRuns
<1>2. r \in Switches /\ r.ret = ret
  BY Small, SwSlots DEF PInv, Switches
<1> HIDE DEF r
<1>3. sw' \in [Threads -> Switches] /\ sw'[Kmain] = r /\ \A t \in Pids : sw'[t] = sw[t]
  BY <1>1, <1>2, Small, SwMoves DEF PInv
<1>4. pc'[Kmain] = "find"
  BY <1>1, Small DEF PInv, VarsOK
<1>5. KmainOK'
  BY <1>2, <1>3, <1>4 DEF KmainOK
<1>6. KmainRuns'
  BY <1>1, <1>4, Small DEF PInv, KmainRuns, SameProcesses
<1>7. current_pid' \in Slots /\ pcb_count' \in 1 .. MAX_PROC /\ child' \in 0 .. MaxPid
  BY DEF PInv, VarsOK
<1> QED
  BY <1>1, <1>3, <1>5, <1>6, <1>7, KmainMove

(* proc_yield.                                                             *)
LEMMA YieldInv ==
    ASSUME PInv, proc_yield
    PROVE  PInv'
<1>1. cpu = Kmain /\ pc[Kmain] = "loop" /\ cpu' = Kmain /\ Schedule(Kmain, "loop") /\ pcb' = pcb
      /\ UNCHANGED <<current_pid, pcb_count, next_pid, vm, child, kstacks>>
  BY DEF proc_yield, At, table, machine, memory
<1> QED
  BY <1>1, Unchanged, ScheduleInv

(* proc_waitpid blocks kmain.                                              *)
LEMMA BlockInv ==
    ASSUME PInv, WaitBlock
    PROVE  PInv'
<1>1. /\ cpu = Kmain /\ pc[Kmain] = "block" /\ cpu' = Kmain /\ Schedule(Kmain, "wait")
      /\ pcb' = [pcb EXCEPT ![current_pid].state = "BLOCKED"]
      /\ UNCHANGED <<current_pid, pcb_count, next_pid, vm, child, kstacks>>
  BY DEF WaitBlock, At, machine, memory
<1>2. current_pid = 0 /\ 0 \in Slots /\ "BLOCKED" \in States
  BY <1>1, Small DEF PInv, KmainRuns, States
<1>3. /\ SameProcesses(pcb') /\ pcb'[0].state = "BLOCKED"
      /\ \A s \in Slots \ {0} : pcb'[s] = pcb[s]
  BY <1>1, <1>2, StateWrite DEF PInv
<1>4. SameUse
  BY <1>3 DEF PInv, TableOK, SameUse
<1> QED
  BY <1>1, <1>3, <1>4, ScheduleInv

-----------------------------------------------------------------------------
(* kmain inside schedule and process_switch_to.                            *)

(* What kmain's own step leaves alone.                                     *)
KmainOnly == UNCHANGED <<pcb_count, next_pid, cpu, vm, child, kstacks>>

(* A step of kmain to a place where it is about to switch.                 *)
LEMMA KmainSchedules ==
    ASSUME PInv, cpu = Kmain, KmainOnly, NEW to \in KmainPc, pc' = [pc EXCEPT ![Kmain] = to],
           NEW r \in Switches, sw' = [sw EXCEPT ![Kmain] = r],
           SameProcesses(pcb'), SameUse, pcb'[0].state # "ZOMBIE", current_pid' \in Slots,
           pc[Kmain] # "reap", to \notin {"reap", "create", "spawn"},
           pc'[Kmain] = to /\ sw'[Kmain] = r => KmainOK' /\ KmainRuns'
    PROVE  PInv'
<1>1. pc'[Kmain] = to
  BY Small DEF PInv, VarsOK
<1>2. sw' \in [Threads -> Switches] /\ sw'[Kmain] = r /\ \A t \in Pids : sw'[t] = sw[t]
  BY Small, SwMoves DEF PInv
<1>3. pcb_count' \in 1 .. MAX_PROC /\ child' \in 0 .. MaxPid /\ cpu' = Kmain
  BY DEF PInv, VarsOK, KmainOnly
<1> QED
  BY <1>1, <1>2, <1>3, KmainMove DEF KmainOnly

(* It has found the next slot.                                             *)
LEMMA KmainFinds ==
    ASSUME PInv, FindNext(Kmain)
    PROVE  PInv'
<1> DEFINE r == [sw[Kmain] EXCEPT !.next = find_next_ready]
<1>1. /\ cpu = Kmain /\ pc[Kmain] = "find" /\ current_pid = 0 /\ pcb' = pcb
      /\ pc' = [pc EXCEPT ![Kmain] = "leave"] /\ sw' = [sw EXCEPT ![Kmain] = r]
      /\ UNCHANGED current_pid /\ KmainOnly
  BY DEF FindNext, At, Goto, table, machine, memory, PInv, KmainRuns, KmainOnly
<1>2. /\ find_next_ready \in Slots
      /\ pcb[find_next_ready].state # "EMPTY"
  <2>1. CASE Stays
    BY <1>1, <2>1, Small DEF Stays, PInv, TableOK
  <2>2. CASE ~Stays
    BY <2>2, Found DEF PInv
  <2> QED
    BY <2>1, <2>2, Found DEF PInv
<1>3. r \in Switches /\ r.next = find_next_ready /\ r.ret = sw[Kmain].ret /\ r.ret # "hlt"
  BY <1>1, <1>2, Small, SwSlots DEF PInv, Switches, KmainOK
<1> HIDE DEF r
<1>4. ASSUME pc'[Kmain] = "leave", sw'[Kmain] = r PROVE KmainOK' /\ KmainRuns'
  <2>1. KmainOK'
    BY <1>1, <1>2, <1>3, <1>4 DEF KmainOK, Used
  <2>2. KmainRuns'
    BY <1>1, <1>4 DEF PInv, KmainRuns, KmainOnly
  <2> QED
    BY <2>1, <2>2
<1>5. "leave" \in KmainPc /\ current_pid' \in Slots /\ pc[Kmain] # "reap"
  BY <1>1 DEF KmainPc, PInv, VarsOK
<1> QED
  BY <1>1, <1>3, <1>4, <1>5, Unchanged, KmainSchedules

(* It stays.                                                               *)
LEMMA KmainStays ==
    ASSUME PInv, Leave(Kmain), sw[Kmain].next = current_pid
    PROVE  PInv'
<1>1. /\ cpu = Kmain /\ pc[Kmain] = "leave" /\ current_pid = 0 /\ pcb' = pcb
      /\ pc' = [pc EXCEPT ![Kmain] = sw[Kmain].ret] /\ sw' = [sw EXCEPT ![Kmain] = NoSwitch]
      /\ UNCHANGED <<current_pid, pcb_count, next_pid, child, vm, kstacks, cpu>>
  BY DEF Leave, At, Goto, table, machine, memory, PInv, KmainRuns
<1>2. NoSwitch \in Switches /\ sw[Kmain].ret \in {"loop", "wait", "back"}
  BY <1>1, Small, SwSlots DEF NoSwitch, Switches, PInv, KmainOK
<1>3. sw' \in [Threads -> Switches] /\ \A t \in Pids : sw'[t] = sw[t]
  BY <1>1, <1>2, Small, SwMoves DEF PInv
<1>4. pcb_count' \in 1 .. MAX_PROC /\ child' \in 0 .. MaxPid
  BY <1>1 DEF PInv, VarsOK
<1> QED
  BY <1>1, <1>2, <1>3, <1>4, Unchanged, KmainRests

(* It leaves slot 0.                                                       *)
LEMMA KmainLeaves ==
    ASSUME PInv, Leave(Kmain), sw[Kmain].next # current_pid
    PROVE  PInv'
<1> DEFINE r == [sw[Kmain] EXCEPT !.prev = current_pid]
<1>1. /\ cpu = Kmain /\ pc[Kmain] = "leave" /\ current_pid = 0 /\ pcb' = Left(0)
      /\ pc' = [pc EXCEPT ![Kmain] = "enter"] /\ sw' = [sw EXCEPT ![Kmain] = r]
      /\ UNCHANGED current_pid /\ KmainOnly
  BY DEF Leave, At, Goto, machine, memory, PInv, KmainRuns, KmainOnly
<1>2. /\ r \in Switches /\ r.next = sw[Kmain].next /\ r.ret = sw[Kmain].ret /\ r.prev = 0
      /\ r.ret # "hlt" /\ r.next # 0 /\ Used(r.next) /\ r.next \in Slots
  BY <1>1, Small, SwSlots DEF PInv, Switches, KmainOK
<1>3. /\ SameProcesses(pcb')
      /\ \A s \in Slots : pcb'[s].state =
            IF s = 0 /\ pcb[s].state = "RUNNING" THEN "READY" ELSE pcb[s].state
  BY <1>1, Small, LeftIs DEF PInv
<1>4. SameUse /\ pcb'[0].state # "ZOMBIE"
  BY <1>3, Small DEF SameUse, PInv, TableOK
<1> HIDE DEF r
<1>5. ASSUME pc'[Kmain] = "enter", sw'[Kmain] = r PROVE KmainOK' /\ KmainRuns'
  <2>1. KmainOK'
    BY <1>2, <1>4, <1>5 DEF KmainOK, Used, SameUse
  <2>2. KmainRuns'
    BY <1>1, <1>3, <1>5, Small DEF PInv, KmainRuns, KmainOnly, SameProcesses
  <2> QED
    BY <2>1, <2>2
<1>6. "enter" \in KmainPc /\ current_pid' \in Slots /\ pc[Kmain] # "reap"
  BY <1>1 DEF KmainPc, PInv, VarsOK
<1> QED
  BY <1>1, <1>2, <1>3, <1>4, <1>5, <1>6, KmainSchedules

(* A slot that kmain enters was used, and is another than slot 0.          *)
LEMMA KmainEnters ==
    ASSUME PInv, NEW next \in Slots, next # 0, Used(next), pcb' = Entered(pcb, next)
    PROVE  /\ SameProcesses(pcb') /\ SameUse /\ pcb'[0].state # "ZOMBIE"
           /\ pcb'[next].state = "RUNNING" /\ \A s \in Slots \ {next} : pcb'[s] = pcb[s]
<1>1. SameProcesses(pcb)
  BY DEF PInv, VarsOK, SameProcesses
<1>2. /\ SameProcesses(pcb') /\ pcb'[next].state = "RUNNING"
      /\ \A s \in Slots \ {next} : pcb'[s] = pcb[s]
  BY <1>1, EnteredIs
<1> QED
  BY <1>2, Small DEF SameUse, Used, PInv, TableOK

(* schedule marks the next slot, then writes current_pid.                  *)
LEMMA KmainEnterInv ==
    ASSUME PInv, Enter(Kmain) \/ SetCurrent(Kmain)
    PROVE  PInv'
<1> DEFINE n == sw[Kmain].next
<1>1. /\ cpu = Kmain /\ sw' = [sw EXCEPT ![Kmain] = sw[Kmain]] /\ KmainOnly
      /\ pc[Kmain] \in {"enter", "current"} /\ current_pid = 0
  <2>1. cpu = Kmain /\ UNCHANGED sw /\ KmainOnly /\ pc[Kmain] \in {"enter", "current"}
    BY DEF Enter, SetCurrent, At, machine, memory, KmainOnly
  <2> QED
    BY <2>1, Small DEF PInv, VarsOK, KmainRuns
<1>2. /\ sw[Kmain] \in Switches /\ n \in Slots /\ n # 0 /\ Used(n)
      /\ sw[Kmain].prev = 0 /\ sw[Kmain].ret # "hlt" /\ n # Kmain
  BY <1>1, Small, SwSlots DEF PInv, KmainOK
<1>3. CASE Enter(Kmain)
  <2>1. /\ pcb' = Entered(pcb, n) /\ pc' = [pc EXCEPT ![Kmain] = "current"]
        /\ UNCHANGED current_pid
    BY <1>3 DEF Enter, Goto
  <2>2. /\ SameProcesses(pcb') /\ SameUse /\ pcb'[0].state # "ZOMBIE"
        /\ pcb'[n].state = "RUNNING" /\ \A s \in Slots \ {n} : pcb'[s] = pcb[s]
    BY <1>2, <2>1, KmainEnters
  <2>3. ASSUME pc'[Kmain] = "current", sw'[Kmain] = sw[Kmain] PROVE KmainOK' /\ KmainRuns'
    <3>1. KmainOK'
      BY <1>1, <1>2, <2>2, <2>3 DEF KmainOK, Used, KmainOnly
    <3>2. KmainRuns'
      BY <1>1, <1>2, <2>1, <2>2, <2>3, Small DEF PInv, KmainRuns, KmainOnly
    <3> QED
      BY <3>1, <3>2
  <2>4. "current" \in KmainPc /\ current_pid' \in Slots
    BY <1>1, <2>1, Small DEF KmainPc
  <2> QED
    BY <1>1, <1>2, <2>1, <2>2, <2>3, <2>4, KmainSchedules
<1>4. CASE SetCurrent(Kmain)
  <2>1. /\ pcb' = pcb /\ pc' = [pc EXCEPT ![Kmain] = "switch"] /\ current_pid' = n
        /\ pc[Kmain] = "current"
    BY <1>4 DEF SetCurrent, Goto, At
  <2>2. pcb[n].state = "RUNNING"
    BY <2>1 DEF PInv, KmainOK
  <2>3. ASSUME pc'[Kmain] = "switch", sw'[Kmain] = sw[Kmain] PROVE KmainOK' /\ KmainRuns'
    <3>1. KmainOK'
      BY <1>2, <2>1, <2>2, <2>3 DEF KmainOK, Used
    <3>2. KmainRuns'
      BY <1>1, <2>1, <2>2, <2>3 DEF PInv, KmainRuns, KmainOnly
    <3> QED
      BY <3>1, <3>2
  <2>4. "switch" \in KmainPc /\ current_pid' \in Slots
    BY <1>2, <2>1 DEF KmainPc
  <2> QED
    BY <1>1, <1>2, <2>1, <2>3, <2>4, Unchanged, KmainSchedules
<1> QED
  BY <1>3, <1>4

(* process_switch_to finds no slot, or leaves slot 0.                      *)
LEMMA ReadyInv ==
    ASSUME PInv, SwitchReady
    PROVE  PInv'
<1>1. /\ cpu = Kmain /\ pc[Kmain] = "created" /\ current_pid = 0 /\ KmainOnly
      /\ UNCHANGED <<current_pid, kstacks>>
  BY DEF SwitchReady, At, machine, memory, PInv, KmainRuns, KmainOnly
<1>2. child \in Pids /\ pcb[child].pid = child /\ Used(child) /\ child \in Slots \ {0}
  BY <1>1, Small DEF PInv, KmainOK
<1>3. CASE process_current = {} \/ WithPid(child) = {}
  <2>1. CASE UNCHANGED pcb
    <3>1. /\ pcb' = pcb /\ pc' = [pc EXCEPT ![Kmain] = "back"] /\ sw' = sw
      BY <1>3 DEF SwitchReady, Goto
    <3>2. /\ sw' \in [Threads -> Switches] /\ \A t \in Pids : sw'[t] = sw[t]
          /\ pcb_count' \in 1 .. MAX_PROC /\ child' \in 0 .. MaxPid
      BY <1>1, <3>1 DEF PInv, VarsOK, KmainOnly
    <3> QED
      BY <1>1, <3>1, <3>2, Unchanged, KmainRests DEF KmainOnly
  <2> QED
    BY <1>3, <2>1 DEF SwitchReady
<1>4. CASE ~(process_current = {} \/ WithPid(child) = {})
  <2>1. PICK cur \in process_current, next \in WithPid(child) :
           sw' = [sw EXCEPT ![Kmain] = [prev |-> cur, next |-> next, ret |-> "back"]]
    BY <1>4 DEF SwitchReady
  <2>2. /\ pcb' = [pcb EXCEPT ![0].state = "READY"] /\ pc' = [pc EXCEPT ![Kmain] = "ready"]
    BY <1>1, <1>4 DEF SwitchReady, Goto
  <2>3. cur = 0 /\ next = child
    <3>1. cur \in Slots /\ next \in Slots /\ pcb[cur].pid = 0 /\ pcb[next].pid = child
      BY <1>1, Counters DEF process_current, WithPid, PInv
    <3> QED
      BY <1>2, <3>1, Small, Numbers DEF PInv, TableOK
  <2> DEFINE r == [prev |-> 0, next |-> child, ret |-> "back"]
  <2>4. r \in Switches /\ sw' = [sw EXCEPT ![Kmain] = r]
    BY <1>2, <2>1, <2>3, Small DEF Switches
  <2>5. "READY" \in States
    BY DEF States
  <2>6. /\ SameProcesses(pcb') /\ pcb'[0].state = "READY"
        /\ \A s \in Slots \ {0} : pcb'[s] = pcb[s]
    BY <2>2, <2>5, Small, StateWrite DEF PInv
  <2>7. SameUse
    BY <2>6 DEF SameUse, PInv, TableOK
  <2>8. ASSUME pc'[Kmain] = "ready", sw'[Kmain] = r PROVE KmainOK' /\ KmainRuns'
    <3>1. KmainOK'
      BY <1>1, <1>2, <2>6, <2>8 DEF KmainOK, Used, KmainOnly
    <3>2. KmainRuns'
      BY <1>1, <2>6, <2>8, Small DEF PInv, KmainRuns, KmainOnly, SameProcesses
    <3> QED
      BY <3>1, <3>2
  <2>9. "ready" \in KmainPc /\ current_pid' \in Slots
    BY <1>1, Small DEF KmainPc
  <2> QED
    BY <1>1, <2>2, <2>4, <2>6, <2>7, <2>8, <2>9, KmainSchedules
<1> QED
  BY <1>3, <1>4

(* It writes current_pid, then marks the process.                          *)
LEMMA SwitchToInv ==
    ASSUME PInv, SwitchPid \/ SwitchRunning
    PROVE  PInv'
<1>1. /\ cpu = Kmain /\ sw' = [sw EXCEPT ![Kmain] = sw[Kmain]] /\ KmainOnly
      /\ pc[Kmain] \in {"ready", "running"}
  <2>1. cpu = Kmain /\ UNCHANGED sw /\ KmainOnly /\ pc[Kmain] \in {"ready", "running"}
    BY DEF SwitchPid, SwitchRunning, At, machine, memory, KmainOnly
  <2> QED
    BY <2>1, Small DEF PInv, VarsOK
<1>2. /\ sw[Kmain] \in Switches /\ child \in Slots /\ child \in Pids /\ child # 0 /\ Used(child)
      /\ sw[Kmain].prev = 0 /\ sw[Kmain].ret = "back" /\ sw[Kmain].next = child
      /\ pcb[child].pid = child
  BY <1>1, Small, SwSlots DEF PInv, KmainOK
<1>3. CASE SwitchPid
  <2>1. pcb' = pcb /\ pc' = [pc EXCEPT ![Kmain] = "running"] /\ current_pid' = child
    BY <1>3 DEF SwitchPid, Goto
  <2>2. ASSUME pc'[Kmain] = "running", sw'[Kmain] = sw[Kmain] PROVE KmainOK' /\ KmainRuns'
    <3>1. KmainOK'
      BY <1>1, <1>2, <2>1, <2>2 DEF KmainOK, Used, KmainOnly
    <3>2. KmainRuns'
      BY <1>1, <2>1, <2>2 DEF PInv, KmainRuns, KmainOnly
    <3> QED
      BY <3>1, <3>2
  <2>3. "running" \in KmainPc /\ current_pid' \in Slots
    BY <1>2, <2>1 DEF KmainPc
  <2> QED
    BY <1>1, <1>2, <2>1, <2>2, <2>3, Unchanged, KmainSchedules
<1>4. CASE SwitchRunning
  <2>1. /\ pcb' = Entered(pcb, child) /\ pc' = [pc EXCEPT ![Kmain] = "switch"]
        /\ UNCHANGED current_pid /\ current_pid = child
    BY <1>1, <1>2, <1>4 DEF SwitchRunning, Goto, At, PInv, KmainRuns
  <2>2. /\ SameProcesses(pcb') /\ SameUse /\ pcb'[0].state # "ZOMBIE"
        /\ pcb'[child].state = "RUNNING" /\ \A s \in Slots \ {child} : pcb'[s] = pcb[s]
    BY <1>2, <2>1, KmainEnters
  <2>3. ASSUME pc'[Kmain] = "switch", sw'[Kmain] = sw[Kmain] PROVE KmainOK' /\ KmainRuns'
    <3>1. KmainOK'
      BY <1>2, <2>2, <2>3 DEF KmainOK, Used
    <3>2. KmainRuns'
      BY <1>1, <1>2, <2>1, <2>2, <2>3, Small DEF PInv, KmainRuns, KmainOnly
    <3> QED
      BY <3>1, <3>2
  <2>4. "switch" \in KmainPc /\ current_pid' \in Slots
    BY <1>2, <2>1 DEF KmainPc
  <2> QED
    BY <1>1, <1>2, <2>1, <2>2, <2>3, <2>4, KmainSchedules
<1> QED
  BY <1>3, <1>4

-----------------------------------------------------------------------------
(* A program ends, or is inside schedule.                                  *)

(* What a program's own step leaves alone.                                 *)
UserOnly == UNCHANGED <<pcb_count, next_pid, cpu, vm, child, kstacks>>

(* The states that kmain relies on while a program runs are kept.          *)
StatesKept ==
    /\ \A s \in Slots : pcb[s].state = "ZOMBIE" => pcb'[s].state = "ZOMBIE"
    /\ \A s \in Slots \ {cpu} : pcb[s].state = "RUNNING" => pcb'[s].state = "RUNNING"

(* A step of program t to a place; the rest follows from UserMove.         *)
LEMMA UserGoes ==
    ASSUME PInv, NEW t \in Pids, cpu = t, UserOnly, NEW to \in UserPc,
           pc' = [pc EXCEPT ![t] = to], NEW r \in Switches, sw' = [sw EXCEPT ![t] = r],
           SameProcesses(pcb'), SameUse, pcb'[0].state # "ZOMBIE", StatesKept,
           current_pid' \in Slots,
           pc'[t] = to /\ sw'[t] = r /\ sw'[Kmain] = sw[Kmain] /\ pc'[Kmain] = pc[Kmain]
               => UserOf(t)'
    PROVE  PInv'
<1>1. pc'[t] = to /\ pc'[Kmain] = pc[Kmain]
  BY Small DEF PInv, VarsOK
<1>2. /\ sw' \in [Threads -> Switches] /\ sw'[t] = r
      /\ \A u \in Threads \ {t} : sw'[u] = sw[u]
  BY Small, SwMoves DEF PInv
<1>3. sw'[Kmain] = sw[Kmain]
  BY <1>2, Small
<1>4. pc[Kmain] = "reap" => pcb'[child].state = "ZOMBIE"
  BY Counters DEF StatesKept, PInv, KmainOK
<1>5. pc[Kmain] = "current" => pcb'[sw[Kmain].next].state = "RUNNING"
  BY Small, SwSlots DEF StatesKept, PInv, KmainOK
<1> QED
  BY <1>1, <1>2, <1>3, <1>4, <1>5, UserMove DEF UserOnly

(* Program t, where it is.                                                 *)
LEMMA UserHere ==
    ASSUME PInv, NEW t \in Pids, cpu = t, pc[t] # "switch"
    PROVE  /\ current_pid = t /\ pcb[t].pid = t /\ t \in Slots /\ t # 0 /\ t # Kmain
           /\ sw[t] \in Switches /\ sw[t].ret = "hlt"
           /\ pc[t] \notin {"user", "hlt"} => sw[t].prev = t
BY Small, SwSlots DEF PInv, UserOK, UserOf

(* It becomes a ZOMBIE, in SYS_exit or in proc_exit.                       *)
LEMMA ZombieInv ==
    ASSUME PInv, NEW t \in Pids, At(t, "user"), NEW place \in {"exit", "zombie"},
           Zombie(t, t, place), UNCHANGED current_pid, UserOnly
    PROVE  PInv'
<1> DEFINE r == [sw[t] EXCEPT !.prev = t]
<1>1. cpu = t /\ pc[t] = "user"
  BY DEF At
<1>2. /\ pcb' = [pcb EXCEPT ![t].state = "ZOMBIE"] /\ pc' = [pc EXCEPT ![t] = place]
      /\ sw' = [sw EXCEPT ![t] = r]
  BY DEF Zombie, Goto
<1>3. current_pid = t /\ pcb[t].pid = t /\ t \in Slots /\ t # 0 /\ sw[t] \in Switches
      /\ sw[t].ret = "hlt" /\ pcb[t].state = "RUNNING"
  BY <1>1, UserHere DEF PInv, UserOK, UserOf
<1>4. r \in Switches /\ r.prev = t /\ r.ret = "hlt"
  BY <1>3 DEF Switches
<1> HIDE DEF r
<1>5. "ZOMBIE" \in States
  BY DEF States
<1>6. /\ SameProcesses(pcb') /\ pcb'[t].state = "ZOMBIE"
      /\ \A s \in Slots \ {t} : pcb'[s] = pcb[s]
  BY <1>2, <1>3, <1>5, StateWrite DEF PInv
<1>7. SameUse /\ pcb'[0].state # "ZOMBIE" /\ StatesKept
  BY <1>1, <1>3, <1>6, Small DEF SameUse, StatesKept, PInv, TableOK
<1>8. ASSUME pc'[t] = place, sw'[t] = r PROVE UserOf(t)'
  BY <1>3, <1>4, <1>6, <1>8 DEF UserOf, SameProcesses
<1>9. place \in UserPc /\ current_pid' \in Slots
  BY <1>3 DEF UserPc
<1> QED
  BY <1>1, <1>2, <1>4, <1>6, <1>7, <1>8, <1>9, UserGoes

(* SYS_exit finds its slot, or halts; proc_exit takes the current one.     *)
LEMMA ExitInv ==
    ASSUME PInv, NEW t \in Pids, process_exit_current(t) \/ proc_exit(t)
    PROVE  PInv'
<1>1. cpu = t /\ pc[t] = "user" /\ At(t, "user") /\ UserOnly /\ UNCHANGED current_pid
  BY DEF process_exit_current, proc_exit, At, machine, memory, UserOnly
<1>2. /\ current_pid = t /\ pcb[t].pid = t /\ t \in Slots /\ t # 0 /\ sw[t] \in Switches
      /\ sw[t].ret = "hlt"
  BY <1>1, UserHere
<1>3. ASSUME NEW s \in process_current PROVE s = t
  <2>1. s \in Slots /\ pcb[s].pid = t
    BY <1>2, Counters DEF process_current, WithPid, PInv
  <2> QED
    BY <1>2, <2>1, Small, Numbers DEF PInv, TableOK
<1>4. CASE proc_exit(t)
  BY <1>1, <1>2, <1>4, ZombieInv DEF proc_exit
<1>5. CASE \E s \in process_current : Zombie(t, s, "exit")
  BY <1>1, <1>3, <1>5, ZombieInv
<1>6. CASE Goto(t, "hlt") /\ UNCHANGED <<pcb, sw>>
  <2>1. pc' = [pc EXCEPT ![t] = "hlt"] /\ pcb' = pcb /\ sw' = [sw EXCEPT ![t] = sw[t]]
    BY <1>6, Small DEF Goto, PInv, VarsOK
  <2>2. ASSUME pc'[t] = "hlt", sw'[t] = sw[t] PROVE UserOf(t)'
    BY <1>1, <1>2, <2>1, <2>2 DEF UserOf
  <2>3. "hlt" \in UserPc /\ current_pid' \in Slots /\ StatesKept
    BY <1>1, <1>2, <2>1 DEF UserPc, StatesKept
  <2> QED
    BY <1>1, <1>2, <2>1, <2>2, <2>3, Unchanged, UserGoes
<1> QED
  BY <1>4, <1>5, <1>6 DEF process_exit_current

(* It wakes its parent.                                                    *)
LEMMA ExitWakeInv ==
    ASSUME PInv, NEW t \in Pids, ExitWake(t)
    PROVE  PInv'
<1>1. PICK from \in {"exit", "zombie"}, to \in {"parent", "find"} :
         cpu = t /\ pc[t] = from /\ pc' = [pc EXCEPT ![t] = to]
  <2>1. PICK to \in {<<"exit", "parent">>, <<"zombie", "find">>} : At(t, to[1]) /\ Goto(t, to[2])
    BY DEF ExitWake
  <2>2. CASE to = <<"exit", "parent">>
    BY <2>1, <2>2 DEF At, Goto
  <2>3. CASE to = <<"zombie", "find">>
    BY <2>1, <2>3 DEF At, Goto
  <2> QED
    BY <2>1, <2>2, <2>3
<1>2. /\ pcb' = proc_wake_parent(pcb, pcb[sw[t].prev].pid) /\ UNCHANGED <<current_pid, sw>>
      /\ UserOnly
  BY DEF ExitWake, machine, memory, UserOnly
<1>3. /\ current_pid = t /\ pcb[t].pid = t /\ t \in Slots /\ t # 0 /\ sw[t] \in Switches
      /\ sw[t].ret = "hlt" /\ sw[t].prev = t
  BY <1>1, UserHere
<1>4. /\ SameProcesses(pcb')
      /\ \A s \in Slots : \/ pcb'[s].state = pcb[s].state
                          \/ pcb[s].state = "BLOCKED" /\ pcb'[s].state = "READY"
  BY <1>2, Woken DEF PInv
<1>5. SameUse /\ pcb'[0].state # "ZOMBIE" /\ StatesKept
  BY <1>4, Small DEF SameUse, StatesKept, PInv, TableOK
<1>6. sw' = [sw EXCEPT ![t] = sw[t]]
  BY <1>2, Small DEF PInv, VarsOK
<1>7. ASSUME pc'[t] = to, sw'[t] = sw[t] PROVE UserOf(t)'
  BY <1>1, <1>2, <1>3, <1>4, <1>7 DEF UserOf, SameProcesses
<1>8. to \in UserPc /\ current_pid' \in Slots
  BY <1>2, <1>3 DEF UserPc
<1> QED
  BY <1>1, <1>2, <1>3, <1>4, <1>5, <1>6, <1>7, <1>8, UserGoes

(* SYS_exit goes back to the parent, which is slot 0.                      *)
LEMMA ExitParentInv ==
    ASSUME PInv, NEW t \in Pids, ExitParent(t)
    PROVE  PInv'
<1> DEFINE r == [sw[t] EXCEPT !.next = 0]
<1>1. cpu = t /\ pc[t] = "parent" /\ pc' = [pc EXCEPT ![t] = "current"]
      /\ UNCHANGED current_pid /\ UserOnly
  BY DEF ExitParent, At, Goto, machine, memory, UserOnly
<1>2. /\ current_pid = t /\ pcb[t].pid = t /\ t \in Slots /\ t # 0 /\ sw[t] \in Switches
      /\ sw[t].ret = "hlt" /\ sw[t].prev = t
  BY <1>1, UserHere
<1>3. pcb[t].parent_pid = 0
  BY <1>2 DEF PInv, VarsOK, Pcb
<1>4. /\ pcb' = IF pcb[0].state \in {"BLOCKED", "READY"}
                THEN [pcb EXCEPT ![0].state = "READY"] ELSE pcb
      /\ sw' = [sw EXCEPT ![t] = r]
  BY <1>2, <1>3, Small DEF ExitParent
<1>5. r \in Switches /\ r.prev = t /\ r.ret = "hlt" /\ r.next = 0
  BY <1>2, Small DEF Switches
<1> HIDE DEF r
<1>6. /\ SameProcesses(pcb') /\ \A s \in Slots \ {0} : pcb'[s] = pcb[s]
      /\ \/ pcb'[0].state = pcb[0].state
         \/ pcb[0].state \in {"BLOCKED", "READY"} /\ pcb'[0].state = "READY"
  <2>1. "READY" \in States
    BY DEF States
  <2>2. CASE pcb[0].state \in {"BLOCKED", "READY"}
    BY <1>4, <2>1, <2>2, Small, StateWrite DEF PInv
  <2>3. CASE pcb[0].state \notin {"BLOCKED", "READY"}
    BY <1>4, <2>3 DEF PInv, VarsOK, SameProcesses
  <2> QED
    BY <2>2, <2>3
<1>7. SameUse /\ pcb'[0].state # "ZOMBIE" /\ StatesKept
  BY <1>6, Small DEF SameUse, StatesKept, PInv, TableOK
<1>8. ASSUME pc'[t] = "current", sw'[t] = r, sw'[Kmain] = sw[Kmain], pc'[Kmain] = pc[Kmain]
      PROVE  UserOf(t)'
  <2>1. pc[Kmain] = "current" => sw[Kmain].next # 0
    BY DEF PInv, KmainOK
  <2> QED
    BY <1>1, <1>2, <1>5, <1>6, <1>8, <2>1 DEF UserOf, SameProcesses
<1>9. "current" \in UserPc /\ current_pid' \in Slots
  BY <1>1, <1>2 DEF UserPc
<1> QED
  BY <1>1, <1>4, <1>5, <1>6, <1>7, <1>8, <1>9, UserGoes

(* It has found the next slot.                                             *)
LEMMA UserFinds ==
    ASSUME PInv, NEW t \in Pids, FindNext(t)
    PROVE  PInv'
<1> DEFINE r == [sw[t] EXCEPT !.next = find_next_ready]
<1>1. /\ cpu = t /\ pc[t] = "find" /\ pc' = [pc EXCEPT ![t] = "leave"] /\ pcb' = pcb
      /\ sw' = [sw EXCEPT ![t] = r] /\ UNCHANGED current_pid /\ UserOnly
  BY DEF FindNext, At, Goto, table, machine, memory, UserOnly
<1>2. /\ current_pid = t /\ pcb[t].pid = t /\ t \in Slots /\ t # 0 /\ sw[t] \in Switches
      /\ sw[t].ret = "hlt" /\ sw[t].prev = t
  BY <1>1, UserHere
<1>3. /\ find_next_ready \in Slots
      /\ find_next_ready = t \/ pcb[find_next_ready].state = "READY"
  BY <1>2, Found DEF PInv, Stays
<1>4. r \in Switches /\ r.prev = t /\ r.ret = "hlt" /\ r.next = find_next_ready
  BY <1>2, <1>3 DEF Switches
<1> HIDE DEF r
<1>5. ASSUME pc'[t] = "leave", sw'[t] = r PROVE UserOf(t)'
  BY <1>1, <1>2, <1>3, <1>4, <1>5 DEF UserOf
<1>6. "leave" \in UserPc /\ current_pid' \in Slots /\ StatesKept
  BY <1>1, <1>2 DEF UserPc, StatesKept
<1> QED
  BY <1>1, <1>4, <1>5, <1>6, Unchanged, UserGoes

(* It stays, or leaves its slot.                                           *)
LEMMA UserLeaves ==
    ASSUME PInv, NEW t \in Pids, Leave(t)
    PROVE  PInv'
<1>1. cpu = t /\ pc[t] = "leave" /\ UNCHANGED current_pid /\ UserOnly
  BY DEF Leave, At, machine, memory, UserOnly
<1>2. /\ current_pid = t /\ pcb[t].pid = t /\ t \in Slots /\ t # 0 /\ sw[t] \in Switches
      /\ sw[t].ret = "hlt" /\ sw[t].prev = t /\ sw[t].next \in Slots
      /\ sw[t].next = t \/ pcb[sw[t].next].state = "READY"
  BY <1>1, Small, UserHere, SwSlots DEF PInv, UserOK, UserOf
<1>3. CASE sw[t].next = current_pid
  <2>1. pc' = [pc EXCEPT ![t] = "hlt"] /\ pcb' = pcb /\ sw' = [sw EXCEPT ![t] = NoSwitch]
    BY <1>2, <1>3 DEF Leave, Goto
  <2>2. NoSwitch \in Switches /\ NoSwitch.ret = "hlt"
    BY Small DEF NoSwitch, Switches
  <2>3. ASSUME pc'[t] = "hlt", sw'[t] = NoSwitch PROVE UserOf(t)'
    BY <1>1, <1>2, <2>1, <2>2, <2>3 DEF UserOf
  <2>4. "hlt" \in UserPc /\ current_pid' \in Slots /\ StatesKept
    BY <1>1, <1>2, <2>1 DEF UserPc, StatesKept
  <2> QED
    BY <1>1, <2>1, <2>2, <2>3, <2>4, Unchanged, UserGoes
<1>4. CASE sw[t].next # current_pid
  <2> DEFINE r == [sw[t] EXCEPT !.prev = t]
  <2>1. pc' = [pc EXCEPT ![t] = "enter"] /\ pcb' = Left(t) /\ sw' = [sw EXCEPT ![t] = r]
    BY <1>2, <1>4 DEF Leave, Goto
  <2>2. r \in Switches /\ r.ret = "hlt" /\ r.prev = t /\ r.next = sw[t].next
    BY <1>2 DEF Switches
  <2> HIDE DEF r
  <2>3. /\ SameProcesses(pcb')
        /\ \A s \in Slots : pcb'[s].state =
              IF s = t /\ pcb[s].state = "RUNNING" THEN "READY" ELSE pcb[s].state
    BY <1>2, <2>1, LeftIs DEF PInv
  <2>4. SameUse /\ pcb'[0].state # "ZOMBIE" /\ StatesKept
    BY <1>1, <1>2, <2>3, Small DEF SameUse, StatesKept, PInv, TableOK
  <2>5. ASSUME pc'[t] = "enter", sw'[t] = r PROVE UserOf(t)'
    BY <1>1, <1>2, <1>4, <2>2, <2>3, <2>5 DEF UserOf, SameProcesses
  <2>6. "enter" \in UserPc /\ current_pid' \in Slots
    BY <1>1, <1>2 DEF UserPc
  <2> QED
    BY <1>1, <2>1, <2>2, <2>3, <2>4, <2>5, <2>6, UserGoes
<1> QED
  BY <1>3, <1>4

(* It marks the next slot, which is READY, then writes current_pid.        *)
LEMMA UserEnterInv ==
    ASSUME PInv, NEW t \in Pids, Enter(t) \/ SetCurrent(t)
    PROVE  PInv'
<1> DEFINE n == sw[t].next
<1>1. /\ cpu = t /\ pc[t] \in {"enter", "current"} /\ sw' = [sw EXCEPT ![t] = sw[t]] /\ UserOnly
  <2>1. cpu = t /\ pc[t] \in {"enter", "current"} /\ UNCHANGED sw /\ UserOnly
    BY DEF Enter, SetCurrent, At, machine, memory, UserOnly
  <2> QED
    BY <2>1, Small DEF PInv, VarsOK
<1>2. /\ current_pid = t /\ pcb[t].pid = t /\ t \in Slots /\ t # 0 /\ sw[t] \in Switches
      /\ sw[t].ret = "hlt" /\ sw[t].prev = t /\ n \in Slots /\ n # t
  BY <1>1, Small, UserHere, SwSlots DEF PInv, UserOK, UserOf
<1>3. CASE Enter(t)
  <2>1. /\ pc[t] = "enter" /\ pc' = [pc EXCEPT ![t] = "current"] /\ pcb' = Entered(pcb, n)
        /\ UNCHANGED current_pid
    BY <1>3 DEF Enter, At, Goto
  <2>2. pcb[n].state = "READY"
    BY <1>1, <2>1 DEF PInv, UserOK, UserOf
  <2>3. SameProcesses(pcb)
    BY DEF PInv, VarsOK, SameProcesses
  <2>4. /\ SameProcesses(pcb') /\ pcb'[n].state = "RUNNING"
        /\ \A s \in Slots \ {n} : pcb'[s] = pcb[s]
    BY <1>2, <2>1, <2>3, EnteredIs
  <2>5. SameUse /\ pcb'[0].state # "ZOMBIE" /\ StatesKept
    BY <2>2, <2>4, Small DEF SameUse, StatesKept, PInv, TableOK
  <2>6. ASSUME pc'[t] = "current", sw'[t] = sw[t], sw'[Kmain] = sw[Kmain], pc'[Kmain] = pc[Kmain]
        PROVE  UserOf(t)'
    <3>1. pc[Kmain] = "current" => pcb[sw[Kmain].next].state = "RUNNING"
      BY DEF PInv, KmainOK
    <3> QED
      BY <1>1, <1>2, <2>1, <2>2, <2>4, <2>6, <3>1 DEF UserOf, SameProcesses
  <2>7. "current" \in UserPc /\ current_pid' \in Slots
    BY <1>2, <2>1 DEF UserPc
  <2> QED
    BY <1>1, <1>2, <2>1, <2>4, <2>5, <2>6, <2>7, UserGoes
<1>4. CASE SetCurrent(t)
  <2>1. /\ pc[t] = "current" /\ pc' = [pc EXCEPT ![t] = "switch"] /\ pcb' = pcb
        /\ current_pid' = n
    BY <1>4 DEF SetCurrent, At, Goto
  <2>2. UserOf(t)
    BY DEF PInv, UserOK
  <2>3. ASSUME pc'[t] = "switch", sw'[t] = sw[t], sw'[Kmain] = sw[Kmain], pc'[Kmain] = pc[Kmain]
        PROVE  UserOf(t)'
    BY <1>1, <1>2, <2>1, <2>2, <2>3 DEF UserOf
  <2>4. "switch" \in UserPc /\ current_pid' \in Slots /\ StatesKept
    BY <1>2, <2>1 DEF UserPc, StatesKept
  <2> QED
    BY <1>1, <1>2, <2>1, <2>3, <2>4, Unchanged, UserGoes
<1> QED
  BY <1>3, <1>4

-----------------------------------------------------------------------------
(* Page tables keep their types and their shape.                           *)

(* Loading CR3.                                                            *)
LEMMA LoadTyped ==
    ASSUME VarsOK, NEW r \in Roots
    PROVE  SameTables(pml4_load(vm, r)) /\ pml4_load(vm, r).cr3 = r
BY DEF pml4_load, VarsOK, SameTables, Tables

(* A PML4 is given back.                                                   *)
LEMMA DestroyTyped ==
    ASSUME VarsOK, TablesOK(vm), NEW root \in Tops(vm)
    PROVE  /\ pml4_destroy(vm, root) \in Tables /\ pml4_destroy(vm, root).cr3 = vm.cr3
           /\ TablesOK(pml4_destroy(vm, root))
           /\ pml4_destroy(vm, root).roots = vm.roots \ {root}
<1>0. CASE root = Boot
  <2>1. Boot \notin Pages /\ Boot \notin vm.roots
    BY Numbers DEF VarsOK, Tables
  <2>2. pml4_destroy(vm, root) = vm
    BY <1>0, <2>1 DEF pml4_destroy
  <2> QED
    BY <1>0, <2>1, <2>2 DEF VarsOK
<1> SUFFICES ASSUME root # Boot
             PROVE  /\ pml4_destroy(vm, root) \in Tables /\ pml4_destroy(vm, root).cr3 = vm.cr3
                    /\ TablesOK(pml4_destroy(vm, root))
                    /\ pml4_destroy(vm, root).roots = vm.roots \ {root}
  BY <1>0
<1> DEFINE R == {root}
           e == [vm.entry EXCEPT ![root] = None]
           v == [vm EXCEPT !.used = vm.used \ R, !.roots = vm.roots \ R, !.entry = e]
<1>1. /\ vm \in Tables /\ vm.entry \in [Roots -> Pages \union {None, Framebuffer}]
      /\ vm.roots \subseteq Pages /\ vm.used \subseteq Pages
  BY DEF VarsOK, Tables
<1>2. root \in Pages /\ root \in vm.roots /\ pml4_destroy(vm, root) = v
  BY <1>1 DEF pml4_destroy, Tops
<1>3. /\ e \in [Roots -> Pages \union {None, Framebuffer}]
      /\ \A x \in Roots \ R : e[x] = vm.entry[x]
  BY <1>1, <1>2 DEF Roots
<1> HIDE DEF e
<1>4. /\ v \in Tables /\ v.cr3 = vm.cr3 /\ v.used = vm.used \ R /\ v.roots = vm.roots \ R
      /\ v.entry = e
  BY <1>1, <1>3 DEF Tables
<1> HIDE DEF v
<1>5. \A x \in Roots \ R : e[x] = vm.entry[x]
  BY <1>3
<1>6. R \subseteq vm.roots /\ Boot \notin R /\ Pages \subseteq Roots /\ Boot \in Roots
      /\ None \notin Pages
  BY <1>1, <1>2, Numbers DEF Roots
<1>7. TablesOK(v)
  <2>1. ASSUME NEW r \in Tops(v), v.entry[r] # None
        PROVE  /\ v.entry[r] \in v.used \ v.roots
               /\ v.entry[v.entry[r]] # None =>
                     /\ v.entry[v.entry[r]] \in v.used \ v.roots
                     /\ v.entry[v.entry[v.entry[r]]] \in {None, Framebuffer}
               /\ \A q \in Tops(v) : v.entry[v.entry[r]] # None => v.entry[q] # v.entry[v.entry[r]]
    <3>1. r \in Tops(vm) /\ r \in Roots \ R /\ v.entry[r] = vm.entry[r]
      BY <1>1, <1>4, <1>5, <1>6 DEF Tops
    <3>2. vm.entry[r] \in vm.used \ vm.roots /\ vm.entry[r] \in Roots \ R
          /\ v.entry[vm.entry[r]] = vm.entry[vm.entry[r]]
      BY <1>1, <1>4, <1>5, <1>6, <2>1, <3>1 DEF TablesOK
    <3>3. vm.entry[vm.entry[r]] # None =>
             /\ vm.entry[vm.entry[r]] \in vm.used \ vm.roots /\ vm.entry[vm.entry[r]] \in Roots \ R
             /\ v.entry[vm.entry[vm.entry[r]]] \in {None, Framebuffer}
      BY <1>1, <1>4, <1>5, <1>6, <2>1, <3>1 DEF TablesOK
    <3>4. ASSUME NEW q \in Tops(v), vm.entry[vm.entry[r]] # None
          PROVE  v.entry[q] # vm.entry[vm.entry[r]]
      <4>1. q \in Tops(vm) /\ v.entry[q] = vm.entry[q]
        BY <1>1, <1>4, <1>5, <1>6 DEF Tops
      <4> QED
        BY <2>1, <3>1, <3>4, <4>1 DEF TablesOK
    <3> QED
      BY <1>4, <3>1, <3>2, <3>3, <3>4
  <2>2. v.roots \subseteq v.used
    BY <1>4 DEF TablesOK
  <2> QED
    BY <2>1, <2>2 DEF TablesOK
<1> QED
  BY <1>2, <1>4, <1>7

(* A PML4 is made.                                                         *)
LEMMA CreateTyped ==
    ASSUME VarsOK, TablesOK(vm), vm.cr3 = Boot, NEW p \in page_alloc(vm)
    PROVE  /\ pml4_create(vm, p) \in Tables /\ pml4_create(vm, p).cr3 = vm.cr3 /\ p \in Pages
           /\ TablesOK(pml4_create(vm, p)) /\ pml4_create(vm, p).roots = vm.roots \union {p}
           /\ p \notin vm.used
<1> DEFINE e == [vm.entry EXCEPT ![p] = vm.entry[Boot]]
           v == [vm EXCEPT !.used = vm.used \union {p}, !.roots = vm.roots \union {p}, !.entry = e]
<1>1. /\ vm \in Tables /\ vm.entry \in [Roots -> Pages \union {None, Framebuffer}]
      /\ vm.roots \subseteq Pages /\ vm.used \subseteq Pages
  BY DEF VarsOK, Tables
<1>2. pml4_create(vm, p) = v
  BY DEF pml4_create, pml4_get_current
<1>3. p \in Pages /\ p \notin vm.used /\ Pages \subseteq Roots /\ Boot \in Roots /\ Boot \notin Pages
      /\ None \notin Pages
  BY Numbers DEF page_alloc, Roots
<1>4. /\ e \in [Roots -> Pages \union {None, Framebuffer}] /\ e[p] = vm.entry[Boot]
      /\ \A x \in Roots \ {p} : e[x] = vm.entry[x]
  BY <1>1, <1>3
<1> HIDE DEF e
<1>5. /\ v \in Tables /\ v.cr3 = vm.cr3 /\ v.used = vm.used \union {p}
      /\ v.roots = vm.roots \union {p} /\ v.entry = e
  BY <1>1, <1>3, <1>4 DEF Tables
<1> HIDE DEF v
<1>6. \A r \in Tops(v) : \E o \in Tops(vm) : v.entry[r] = vm.entry[o]
  <2> SUFFICES ASSUME NEW r \in Tops(v) PROVE \E o \in Tops(vm) : v.entry[r] = vm.entry[o]
    OBVIOUS
  <2>1. CASE r = p
    BY <1>4, <1>5, <2>1 DEF Tops
  <2>2. CASE r # p
    BY <1>1, <1>3, <1>4, <1>5, <2>2 DEF Tops
  <2> QED
    BY <2>1, <2>2
<1>7. TablesOK(v)
  <2>1. ASSUME NEW r \in Tops(v), v.entry[r] # None
        PROVE  /\ v.entry[r] \in v.used \ v.roots
               /\ v.entry[v.entry[r]] # None =>
                     /\ v.entry[v.entry[r]] \in v.used \ v.roots
                     /\ v.entry[v.entry[v.entry[r]]] \in {None, Framebuffer}
               /\ \A q \in Tops(v) : v.entry[v.entry[r]] # None => v.entry[q] # v.entry[v.entry[r]]
    <3>1. PICK o \in Tops(vm) : v.entry[r] = vm.entry[o]
      BY <1>6
    <3>2. /\ vm.entry[o] \in vm.used \ vm.roots /\ vm.entry[o] \in Roots \ {p}
          /\ v.entry[vm.entry[o]] = vm.entry[vm.entry[o]]
      BY <1>1, <1>3, <1>4, <1>5, <2>1, <3>1 DEF TablesOK
    <3>3. vm.entry[vm.entry[o]] # None =>
             /\ vm.entry[vm.entry[o]] \in vm.used \ vm.roots /\ vm.entry[vm.entry[o]] \in Roots \ {p}
             /\ v.entry[vm.entry[vm.entry[o]]] \in {None, Framebuffer}
      BY <1>1, <1>3, <1>4, <1>5, <2>1, <3>1 DEF TablesOK
    <3>4. ASSUME NEW q \in Tops(v), vm.entry[vm.entry[o]] # None
          PROVE  v.entry[q] # vm.entry[vm.entry[o]]
      <4>1. PICK x \in Tops(vm) : v.entry[q] = vm.entry[x]
        BY <1>6
      <4> QED
        BY <2>1, <3>1, <3>4, <4>1 DEF TablesOK
    <3> QED
      BY <1>3, <1>5, <3>1, <3>2, <3>3, <3>4
  <2>2. v.roots \subseteq v.used
    BY <1>5 DEF TablesOK
  <2> QED
    BY <2>1, <2>2 DEF TablesOK
<1> QED
  BY <1>2, <1>3, <1>5, <1>7

(* The new tables: shape, and what they share with the old ones.           *)
LEMMA GrownShape ==
    ASSUME NEW v \in Tables, TablesOK(v), NEW x, \/ x \in Tops(v)
                                                \/ \E r \in Tops(v) : x = v.entry[r] /\ x # None,
           NEW w \in Grown(v, x)
    PROVE  /\ w \in Tables /\ TablesOK(w) /\ w.cr3 = v.cr3 /\ w.roots = v.roots
           /\ w.entry[x] # None /\ \A r \in Tops(v) : r # x => w.entry[r] = v.entry[r]
<1>1. /\ v.entry \in [Roots -> Pages \union {None, Framebuffer}] /\ v.used \subseteq Pages
      /\ v.roots \subseteq v.used /\ x \in Roots /\ Pages \subseteq Roots /\ Boot \in Roots
      /\ Boot \notin Pages /\ None \notin Pages /\ v.roots \subseteq Roots
  <2>1. /\ v.entry \in [Roots -> Pages \union {None, Framebuffer}] /\ v.used \subseteq Pages
        /\ v.roots \subseteq v.used
    BY DEF Tables, TablesOK
  <2>2. Pages \subseteq Roots /\ Boot \in Roots /\ Boot \notin Pages /\ None \notin Pages
    BY Numbers DEF Roots
  <2>3. x \in Roots
    BY <2>1, <2>2 DEF TablesOK, Tops
  <2> QED
    BY <2>1, <2>2, <2>3
<1>2. CASE v.entry[x] # None
  BY <1>2 DEF Grown
<1>3. CASE v.entry[x] = None
  <2>1. PICK p \in page_alloc(v) :
           w = [v EXCEPT !.used = @ \union {p}, !.entry = [@ EXCEPT ![p] = None, ![x] = p]]
    BY <1>3 DEF Grown
  <2>2. p \in Pages /\ p \in Roots /\ p \notin v.used /\ p # None
    BY <1>1 DEF page_alloc
  <2> DEFINE e == [v.entry EXCEPT ![p] = None, ![x] = p]
  <2>3. x # p
    BY <1>1, <2>2 DEF TablesOK, Tops
  <2>4. /\ e \in [Roots -> Pages \union {None, Framebuffer}] /\ e[p] = None /\ e[x] = p
        /\ \A y \in Roots \ {p, x} : e[y] = v.entry[y]
    BY <1>1, <2>2, <2>3
  <2>5. w = [v EXCEPT !.used = v.used \union {p}, !.entry = e]
    BY <2>1
  <2> HIDE DEF e
  <2>6. /\ w \in Tables /\ w.entry = e /\ w.used = v.used \union {p} /\ w.roots = v.roots
        /\ w.cr3 = v.cr3 /\ Tops(w) = Tops(v)
    BY <1>1, <2>2, <2>4, <2>5 DEF Tables, Tops
  <2>7. \A r \in Tops(v) : r \in Roots /\ r # p
    BY <1>1, <2>2 DEF Tops
  <2>8. TablesOK(w)
    <3>1. CASE x \in Tops(v)
      <4>1. ASSUME NEW r \in Tops(v), e[r] # None
            PROVE  /\ e[r] \in w.used \ w.roots
                   /\ e[e[r]] # None => /\ e[e[r]] \in w.used \ w.roots
                                        /\ e[e[e[r]]] \in {None, Framebuffer}
                   /\ \A q \in Tops(v) : e[e[r]] # None => e[q] # e[e[r]]
        <5>1. CASE r = x
          BY <1>1, <2>2, <2>4, <2>6, <5>1
        <5>2. CASE r # x
          <6>1. e[r] = v.entry[r] /\ v.entry[r] # None
            BY <2>4, <2>7, <4>1, <5>2
          <6>2. /\ v.entry[r] \in v.used \ v.roots /\ v.entry[r] # x /\ v.entry[r] # p
                /\ v.entry[r] \in Roots
            BY <1>1, <2>2, <3>1, <6>1 DEF TablesOK, Tops
          <6>3. e[e[r]] = v.entry[v.entry[r]]
            BY <2>4, <6>1, <6>2
          <6>4. v.entry[v.entry[r]] # None =>
                   /\ v.entry[v.entry[r]] \in v.used \ v.roots
                   /\ v.entry[v.entry[v.entry[r]]] \in {None, Framebuffer}
                   /\ \A q \in Tops(v) : v.entry[q] # v.entry[v.entry[r]]
            BY <6>1 DEF TablesOK
          <6>5. v.entry[v.entry[r]] # None =>
                   /\ v.entry[v.entry[r]] # x /\ v.entry[v.entry[r]] # p
                   /\ v.entry[v.entry[r]] \in Roots
            BY <1>1, <2>2, <3>1, <6>4 DEF Tops
          <6> QED
            BY <2>4, <2>6, <2>7, <6>1, <6>2, <6>3, <6>4, <6>5
        <5> QED
          BY <5>1, <5>2
      <4> QED
        BY <1>1, <2>6, <4>1 DEF TablesOK
    <3>2. CASE x \notin Tops(v)
      <4>1. PICK o \in Tops(v) : x = v.entry[o] /\ x # None
        BY <3>2
      <4>2. x \in v.used \ v.roots /\ x # p /\ x # None
        BY <1>1, <2>2, <4>1 DEF TablesOK
      <4>3. ASSUME NEW r \in Tops(v) PROVE e[r] = v.entry[r] /\ e[r] # p
        BY <1>1, <2>2, <2>4, <2>7, <3>2 DEF TablesOK
      <4>4. ASSUME NEW r \in Tops(v), e[r] # None
            PROVE  /\ e[r] \in w.used \ w.roots
                   /\ e[e[r]] # None => /\ e[e[r]] \in w.used \ w.roots
                                        /\ e[e[e[r]]] \in {None, Framebuffer}
                   /\ \A q \in Tops(v) : e[e[r]] # None => e[q] # e[e[r]]
        <5>0. v.entry[r] \in v.used \ v.roots /\ v.entry[r] \in Roots /\ v.entry[r] # p
          BY <1>1, <2>2, <4>3, <4>4 DEF TablesOK
        <5>1. CASE v.entry[r] = x
          BY <1>1, <2>2, <2>4, <2>6, <4>3, <4>4, <5>0, <5>1
        <5>2. CASE v.entry[r] # x
          <6>3. e[e[r]] = v.entry[v.entry[r]]
            BY <2>4, <4>3, <5>0, <5>2
          <6>4. v.entry[v.entry[r]] # None =>
                   /\ v.entry[v.entry[r]] \in v.used \ v.roots
                   /\ v.entry[v.entry[v.entry[r]]] \in {None, Framebuffer}
                   /\ \A q \in Tops(v) : v.entry[q] # v.entry[v.entry[r]]
            BY <4>3, <4>4 DEF TablesOK
          <6>5. v.entry[v.entry[r]] # None =>
                   /\ v.entry[v.entry[r]] # x /\ v.entry[v.entry[r]] # p
                   /\ v.entry[v.entry[r]] \in Roots
            BY <1>1, <2>2, <4>1, <6>4
          <6> QED
            BY <2>4, <2>6, <4>3, <5>0, <6>3, <6>4, <6>5
        <5> QED
          BY <5>1, <5>2
      <4> QED
        BY <1>1, <2>6, <4>4 DEF TablesOK
    <3> QED
      BY <3>1, <3>2
  <2> QED
    BY <2>2, <2>4, <2>6, <2>7, <2>8
<1> QED
  BY <1>2, <1>3

(* Mapping the framebuffer.                                                *)

(* Mapping the framebuffer.                                                *)
LEMMA MappedShape ==
    ASSUME VarsOK, TablesOK(vm), NEW root \in Tops(vm), NEW w \in pml4_map_phys(vm, root)
    PROVE  /\ w \in Tables /\ TablesOK(w) /\ w.roots = vm.roots
           /\ w.cr3 \in {vm.cr3, root}
<1>1. vm \in Tables /\ root \in Roots
  BY DEF VarsOK, Tops, Tables, Roots
<1> DEFINE upper == Grown(vm, root)
           lower == UNION {Grown(v, v.entry[root]) : v \in upper}
           mapped(v) == [v EXCEPT !.entry[v.entry[v.entry[root]]] = Framebuffer]
<1>2. \/ w = vm
      \/ w \in upper
      \/ \E v \in lower : w = pml4_load(mapped(v), root)
  BY DEF pml4_map_phys
<1>3. ASSUME NEW v \in upper
      PROVE  /\ v \in Tables /\ TablesOK(v) /\ v.cr3 = vm.cr3 /\ v.roots = vm.roots
             /\ v.entry[root] # None
  BY <1>1, GrownShape
<1>4. ASSUME NEW v \in lower, w = pml4_load(mapped(v), root)
      PROVE  w \in Tables /\ TablesOK(w) /\ w.roots = vm.roots /\ w.cr3 = root
  <2>1. PICK u \in upper : v \in Grown(u, u.entry[root])
    OBVIOUS
  <2>2. /\ u \in Tables /\ TablesOK(u) /\ u.roots = vm.roots /\ u.entry[root] # None
        /\ Tops(u) = Tops(vm)
    BY <1>3 DEF Tops
  <2>3. root \in Tops(u) /\ root # u.entry[root]
    BY <2>2, Numbers DEF TablesOK, Tops, Tables
  <2>4. /\ v \in Tables /\ TablesOK(v) /\ v.roots = vm.roots
        /\ v.entry[u.entry[root]] # None /\ v.entry[root] = u.entry[root]
    BY <2>1, <2>2, <2>3, GrownShape
  <2> DEFINE d == v.entry[v.entry[root]]
             e == [v.entry EXCEPT ![d] = Framebuffer]
  <2>5. /\ v.entry[root] # None /\ d # None /\ root \in Tops(v) /\ Tops(v) = Tops(vm)
        /\ v.entry \in [Roots -> Pages \union {None, Framebuffer}] /\ v.used \subseteq Pages
    BY <2>2, <2>4 DEF Tops, Tables
  <2>6. /\ d \in v.used \ v.roots /\ d \in Roots /\ d \notin Tops(v)
        /\ \A q \in Tops(v) : v.entry[q] # d
    BY <2>4, <2>5, Numbers DEF TablesOK, Tops, Roots
  <2>7. w = [v EXCEPT !.entry = e, !.cr3 = root]
    BY <1>4 DEF pml4_load
  <2> HIDE DEF d
  <2>8. /\ e \in [Roots -> Pages \union {None, Framebuffer}] /\ e[d] = Framebuffer
        /\ \A y \in Roots \ {d} : e[y] = v.entry[y]
    BY <2>5, <2>6
  <2> HIDE DEF e
  <2>9. /\ w \in Tables /\ w.entry = e /\ w.used = v.used /\ w.roots = v.roots /\ w.cr3 = root
        /\ Tops(w) = Tops(v)
    BY <1>1, <2>4, <2>7, <2>8 DEF Tables, Tops
  <2>10. ASSUME NEW r \in Tops(v) PROVE e[r] = v.entry[r] /\ r \in Roots
    BY <2>4, <2>5, <2>6, <2>8 DEF Tops, Tables, Roots
  <2>11. ASSUME NEW r \in Tops(v), e[r] # None
         PROVE  /\ e[r] \in v.used \ v.roots
                /\ e[e[r]] # None => /\ e[e[r]] \in v.used \ v.roots
                                     /\ e[e[e[r]]] \in {None, Framebuffer}
                /\ \A q \in Tops(v) : e[e[r]] # None => e[q] # e[e[r]]
    <3>1. /\ v.entry[r] \in v.used \ v.roots /\ v.entry[r] # d /\ v.entry[r] \in Roots
          /\ v.entry[r] # None
      BY <2>4, <2>5, <2>6, <2>10, <2>11 DEF TablesOK, Roots
    <3>2. e[e[r]] = v.entry[v.entry[r]]
      BY <2>8, <2>10, <3>1
    <3>3. v.entry[v.entry[r]] # None =>
             /\ v.entry[v.entry[r]] \in v.used \ v.roots /\ v.entry[v.entry[r]] \in Roots
             /\ v.entry[v.entry[v.entry[r]]] \in {None, Framebuffer}
             /\ \A q \in Tops(v) : v.entry[q] # v.entry[v.entry[r]]
      BY <2>4, <2>5, <3>1 DEF TablesOK, Roots
    <3> QED
      BY <2>8, <2>10, <3>1, <3>2, <3>3
  <2>12. v.roots \subseteq v.used
    BY <2>4 DEF TablesOK
  <2> QED
    BY <2>4, <2>9, <2>11, <2>12 DEF TablesOK
<1> QED
  BY <1>1, <1>2, <1>3, <1>4

-----------------------------------------------------------------------------
(* The context switch.                                                     *)

(* The table with the caller saved and the next thread's stack in use.     *)
LEMMA Saved ==
    ASSUME VarsOK, NEW tab, SameProcesses(tab), NEW prev \in Slots, NEW next \in Slots,
           prev # next, NEW here \in Contexts, NEW flag, pcb[next].pml4 \in Roots,
           context_switch(tab, prev, next, here, flag)
    PROVE  /\ pcb' \in [Slots -> Pcb]
           /\ \A s \in Slots : /\ pcb'[s].pid = pcb[s].pid /\ pcb'[s].is_user = pcb[s].is_user
                               /\ pcb'[s].pml4 = pcb[s].pml4 /\ pcb'[s].state = tab[s].state
           /\ pcb'[next].ctx = Spent /\ pcb'[prev].ctx = here
           /\ \A s \in Slots \ {prev, next} : pcb'[s].ctx = pcb[s].ctx
           /\ SameTables(vm') /\ vm'.cr3 = pcb[next].pml4 /\ rsp0' = pcb[next].pid
           /\ \E p \in Pcb : p.is_user = pcb[next].is_user /\ p.ctx = pcb[next].ctx
                             /\ cpu' = Resumed(p)
<1> DEFINE saved == [tab EXCEPT ![prev].ctx = here]
           new == [saved EXCEPT ![next].ctx = Spent]
<1>1. tab \in [Slots -> Pcb] /\ Spent \in Contexts
  BY Small DEF SameProcesses, Spent, Ctx, Contexts
<1>2. /\ saved \in [Slots -> Pcb] /\ \A s \in Slots \ {prev} : saved[s] = tab[s]
      /\ saved[prev] = [tab[prev] EXCEPT !.ctx = here]
  BY <1>1 DEF Pcb
<1> HIDE DEF saved
<1>3. /\ new \in [Slots -> Pcb] /\ \A s \in Slots \ {next} : new[s] = saved[s]
      /\ new[next] = [saved[next] EXCEPT !.ctx = Spent]
  BY <1>1, <1>2 DEF Pcb
<1>4. pcb' = new /\ cpu' = Resumed(saved[next]) /\ vm' = pml4_load(vm, saved[next].pml4)
      /\ rsp0' = saved[next].pid
  BY DEF context_switch, tss_set_rsp0, saved
<1> HIDE DEF new
<1>5. saved[next] = tab[next] /\ tab[next] \in Pcb /\ saved[prev] \in Pcb /\ tab[prev] \in Pcb
  BY <1>1, <1>2
<1>6. /\ new[next].pid = tab[next].pid /\ new[next].is_user = tab[next].is_user
      /\ new[next].pml4 = tab[next].pml4 /\ new[next].state = tab[next].state
      /\ new[next].ctx = Spent
  BY <1>3, <1>5 DEF Pcb
<1>7. /\ new[prev].pid = tab[prev].pid /\ new[prev].is_user = tab[prev].is_user
      /\ new[prev].pml4 = tab[prev].pml4 /\ new[prev].state = tab[prev].state
      /\ new[prev].ctx = here
  <2>1. new[prev] = [tab[prev] EXCEPT !.ctx = here]
    BY <1>2, <1>3
  <2> QED
    BY <1>5, <2>1 DEF Pcb
<1>8. \A s \in Slots \ {prev, next} : new[s] = tab[s]
  BY <1>2, <1>3
<1>9. ASSUME NEW s \in Slots
      PROVE  /\ new[s].pid = tab[s].pid /\ new[s].is_user = tab[s].is_user
             /\ new[s].pml4 = tab[s].pml4 /\ new[s].state = tab[s].state
  BY <1>6, <1>7, <1>8, Zenon
<1>10. ASSUME NEW s \in Slots
       PROVE  /\ new[s].pid = pcb[s].pid /\ new[s].is_user = pcb[s].is_user
              /\ new[s].pml4 = pcb[s].pml4 /\ new[s].state = tab[s].state
  BY <1>9, Zenon DEF SameProcesses
<1>11. \A s \in Slots \ {prev, next} : new[s].ctx = pcb[s].ctx
  BY <1>8 DEF SameProcesses
<1>12. SameTables(vm') /\ vm'.cr3 = pcb[next].pml4 /\ rsp0' = pcb[next].pid
  <2>1. tab[next].pml4 = pcb[next].pml4 /\ tab[next].pid = pcb[next].pid
    BY DEF SameProcesses
  <2> QED
    BY <1>4, <1>5, <2>1, LoadTyped
<1>13. tab[next].is_user = pcb[next].is_user /\ tab[next].ctx = pcb[next].ctx
  BY DEF SameProcesses
<1> QED
  BY <1>3, <1>4, <1>5, <1>6, <1>7, <1>10, <1>11, <1>12, <1>13

(* Who runs after it: nobody, a new program, or whoever slot 0 holds.      *)
NextThread(next) ==
    \/ cpu' = Halted
    \/ next # 0 /\ pcb[next].ctx.kind = "frame" /\ cpu' = next /\ next \in Pids
    \/ next = 0 /\ cpu' = IdleThread
    \/ /\ next = 0 /\ cpu' \in Threads \union {IdleThread}
       /\ pcb[0].ctx.kind \in {"call", "tick"} /\ pcb[0].ctx.thread = cpu'

(* The thread that is resumed is one of these.                             *)
LEMMA Resumes ==
    ASSUME PInv, NEW next \in Slots, Used(next),
           \E p \in Pcb : p.is_user = pcb[next].is_user /\ p.ctx = pcb[next].ctx
                          /\ cpu' = Resumed(p)
    PROVE  NextThread(next)
<1>1. PICK p \in Pcb : p.is_user = pcb[next].is_user /\ p.ctx = pcb[next].ctx
                       /\ cpu' = Resumed(p)
  OBVIOUS
<1>2. p.ctx \in Contexts /\ p.ctx.thread \in Threads \union {IdleThread}
  BY DEF Pcb, Contexts
<1>3. CASE next # 0
  <2>1. p.is_user /\ pcb[next].pid = next /\ next < next_pid
    BY <1>1, <1>3 DEF PInv, TableOK, Used
  <2>2. \/ Resumed(p) = Halted
        \/ p.ctx.kind = "frame" /\ Resumed(p) = p.ctx.thread
    BY <2>1 DEF Resumed
  <2>3. pcb[next].ctx.kind = "frame" => pcb[next].ctx.thread = next
    BY DEF PInv, FrameOK
  <2>4. next \in Pids
    BY <1>3, <2>1, Numbers, Counters DEF PInv, VarsOK, Pids
  <2> QED
    BY <1>1, <1>3, <2>2, <2>3, <2>4 DEF NextThread
<1>4. CASE next = 0
  <2>1. ~p.is_user
    BY <1>1, <1>4 DEF PInv, TableOK
  <2>2. \/ Resumed(p) \in {Halted, IdleThread}
        \/ p.ctx.kind \in {"call", "tick"} /\ Resumed(p) = p.ctx.thread
    BY <2>1 DEF Resumed
  <2> QED
    BY <1>1, <1>2, <1>4, <2>2 DEF NextThread
<1> QED
  BY <1>3, <1>4

(* What a thread leaves behind when it is switched away: kmain, at a place *)
(* to which it can come back, and a program, for good unless it was        *)
(* interrupted on the point of leaving for slot 0.                         *)
KmainBehind(tab, prev, next) ==
    /\ \/ cpu = Kmain /\ pc[Kmain] = "switch" /\ pc'[Kmain] \in {"loop", "wait", "back"}
       \/ /\ pc'[Kmain] = pc[Kmain] /\ sw'[Kmain] = sw[Kmain]
          /\ pc[Kmain] = "reap" => tab[child].state = "ZOMBIE"
          /\ pc[Kmain] = "current" =>
                tab[sw[Kmain].next].state = "RUNNING" /\ next # sw[Kmain].next
    /\ prev = 0 /\ cpu = Kmain => pc'[Kmain] \notin {"running", "switch"}

UserBehind(prev) ==
    cpu \in Pids =>
        \/ pc'[cpu] = "hlt" /\ sw'[cpu].ret = "hlt" /\ prev # 0
        \/ /\ pc'[cpu] = pc[cpu] /\ sw'[cpu] = sw[cpu]
           /\ prev = 0 => pc[cpu] = "switch" /\ sw[cpu].next = 0

(* What every switch keeps.                                                *)
LEMMA Switched ==
    ASSUME PInv, NEW tab, SameProcesses(tab), tab[0].state # "ZOMBIE",
           \A s \in Slots : tab[s].state = "EMPTY" <=> pcb[s].state = "EMPTY",
           NEW prev \in Slots, NEW next \in Slots, prev # next,
           next # 0 => tab[next].state = "RUNNING", cpu \in Threads \union {IdleThread},
           NEW here \in Contexts, here.kind \in {"call", "tick"}, here.thread = cpu, NEW flag,
           context_switch(tab, prev, next, here, flag),
           current_pid' = next, UNCHANGED <<pcb_count, next_pid, child, kstacks>>,
           pc' \in [Threads -> KmainPc \union UserPc], pc'[Kmain] \in KmainPc,
           \A t \in Pids : pc'[t] \in UserPc, sw' \in [Threads -> Switches],
           \A u \in Threads \ {cpu} : pc'[u] = pc[u] /\ sw'[u] = sw[u],
           KmainBehind(tab, prev, next), UserBehind(prev)
    PROVE  PInv'
<1> USE DEF PInv
<1>1. Used(next)
  BY DEF Used, TableOK
<1>2. next \in Alive
  <2>1. pc[Kmain] = "reap" => /\ child \in Pids /\ pcb[child].pid = child
                              /\ tab[child].state = "ZOMBIE"
    BY DEF KmainOK, KmainBehind
  <2>2. pcb[next].pid = next
    BY <1>1, Small DEF TableOK, Used
  <2> QED
    BY <1>1, <2>1, <2>2, Small DEF Alive, Used
<1>3. pcb[next].pml4 \in Tops(vm) /\ pcb[next].pml4 \in Roots /\ pcb[0].pml4 = Boot
  BY <1>2 DEF RootsOK, Tops, Roots, VarsOK, Tables, TableOK
<1>4. /\ pcb' \in [Slots -> Pcb]
      /\ \A s \in Slots : /\ pcb'[s].pid = pcb[s].pid /\ pcb'[s].is_user = pcb[s].is_user
                          /\ pcb'[s].pml4 = pcb[s].pml4 /\ pcb'[s].state = tab[s].state
      /\ pcb'[next].ctx = Spent /\ pcb'[prev].ctx = here
      /\ \A s \in Slots \ {prev, next} : pcb'[s].ctx = pcb[s].ctx
      /\ SameTables(vm') /\ vm'.cr3 = pcb[next].pml4 /\ rsp0' = pcb[next].pid
      /\ \E p \in Pcb : p.is_user = pcb[next].is_user /\ p.ctx = pcb[next].ctx
                        /\ cpu' = Resumed(p)
  BY <1>3, Saved
<1>5. NextThread(next)
  BY <1>1, <1>4, Resumes
<1>6. /\ Spent.kind \notin {"frame", "call", "tick"} /\ here.kind # "frame"
      /\ vm' \in Tables /\ vm'.entry = vm.entry /\ vm'.used = vm.used /\ vm'.roots = vm.roots
  BY <1>4 DEF Spent, Ctx, SameTables
<1>7. VarsOK'
  <2>1. cpu' \in Threads \union {IdleThread, Halted}
    BY <1>5, Small DEF NextThread
  <2> QED
    BY <1>4, <1>6, <2>1 DEF VarsOK
<1>8. TableOK'
  BY <1>4, Small DEF TableOK
<1>9. /\ next \in Pids /\ pcb[next].ctx.kind = "frame" =>
            cpu # next /\ pc[next] = "user" /\ pc'[next] = "user" /\ sw'[next] = sw[next]
      /\ \A u \in Pids : pcb[0].ctx.kind \in {"call", "tick"} /\ pcb[0].ctx.thread = u =>
            /\ cpu # u /\ pc[u] = "switch" /\ sw[u].next = 0
            /\ pc'[u] = "switch" /\ sw'[u] = sw[u]
            /\ pc[Kmain] = "current" => u # sw[Kmain].next
  <2>1. next \in Pids /\ pcb[next].ctx.kind = "frame" => cpu # next /\ pc[next] = "user"
    BY DEF FrameOK
  <2>2. \A u \in Pids : pcb[0].ctx.kind \in {"call", "tick"} /\ pcb[0].ctx.thread = u =>
           /\ cpu # u /\ pc[u] = "switch" /\ sw[u].next = 0
           /\ pc[Kmain] = "current" => u # sw[Kmain].next
    BY DEF ZeroOK
  <2>3. \A u \in Pids : cpu # u => pc'[u] = pc[u] /\ sw'[u] = sw[u]
    BY Small
  <2> QED
    BY <2>1, <2>2, <2>3
<1>10. FrameOK'
  <2>1. ASSUME NEW s \in Slots, pcb'[s].ctx.kind = "frame"
        PROVE  /\ s # 0 /\ pcb'[s].pid = s /\ pcb'[s].ctx.thread = s /\ cpu' # s /\ pc'[s] = "user"
               /\ ~(pc'[Kmain] \in {"create", "spawn"} /\ s = child')
    <3>1. s # prev /\ s # next /\ pcb'[s].ctx = pcb[s].ctx
      BY <1>4, <1>6, <2>1
    <3>2. /\ s # 0 /\ pcb[s].pid = s /\ pcb[s].ctx.thread = s /\ cpu # s /\ pc[s] = "user"
          /\ ~(pc[Kmain] \in {"create", "spawn"} /\ s = child)
      BY <2>1, <3>1 DEF FrameOK
    <3>3. s \in Pids
      BY <3>2, Numbers, Counters DEF TableOK, VarsOK, Pids
    <3>4. cpu' # s
      BY <1>5, <1>9, <3>1, <3>2, <3>3, Small DEF NextThread
    <3>5. pc'[s] = "user"
      BY <3>2, <3>3, Small
    <3> QED
      BY <1>4, <3>1, <3>2, <3>4, <3>5 DEF KmainBehind
  <2>2. ASSUME NEW p \in Pids,
               p >= next_pid \/ (pc[Kmain] \in {"create", "spawn"} /\ p = child)
        PROVE  cpu' # p /\ pc'[p] = "user"
    <3>1. cpu # p /\ pc[p] = "user"
      BY <2>2 DEF FrameOK
    <3>2. next = p => pcb[next].ctx.kind # "frame"
      <4>1. next = p => pcb[next].pid = next /\ next < next_pid /\ p \in Nat /\ next_pid \in Nat
        BY <1>1, Small, Counters, Numbers DEF TableOK, Used, Pids
      <4> QED
        BY <2>2, <4>1 DEF FrameOK
    <3>3. cpu' # p
      BY <1>5, <1>9, <3>1, <3>2, Small DEF NextThread
    <3> QED
      BY <3>1, <3>3, Small
  <2>3. pc'[Kmain] \in {"create", "spawn"} => pc[Kmain] = pc'[Kmain]
    BY DEF KmainBehind
  <2> QED
    BY <2>1, <2>2, <2>3 DEF FrameOK
<1>11. ZeroOK'
  <2> SUFFICES ASSUME NEW u, u = pcb'[0].ctx.thread, pcb'[0].ctx.kind \in {"call", "tick"}
               PROVE  /\ u = Kmain => cpu' # Kmain /\ pc'[Kmain] \notin {"running", "switch"}
                      /\ u \in Pids => /\ cpu' # u /\ pc'[u] = "switch" /\ sw'[u].next = 0
                                       /\ pc'[Kmain] = "current" => u # sw'[Kmain].next
    BY DEF ZeroOK
  <2>1. next # 0 /\ cpu' # Kmain
    BY <1>4, <1>5, <1>6, Small DEF NextThread
  <2>2. CASE prev = 0
    <3>1. u = cpu
      BY <1>4, <2>2
    <3>2. u = Kmain => pc'[Kmain] \notin {"running", "switch"}
      BY <2>2, <3>1 DEF KmainBehind
    <3>3. ASSUME u \in Pids
          PROVE  /\ cpu' # u /\ pc'[u] = "switch" /\ sw'[u].next = 0
                 /\ pc'[Kmain] = "current" => u # sw'[Kmain].next
      <4>1. pc'[u] = "switch" /\ sw'[u].next = 0
        BY <2>2, <3>1, <3>3 DEF UserBehind
      <4>2. cpu' # u
        BY <1>5, <1>9, <2>1, <3>1, <3>3, Small DEF NextThread
      <4>3. pc'[Kmain] = pc[Kmain] /\ sw'[Kmain] = sw[Kmain]
        BY <3>1, <3>3, Small
      <4> QED
        BY <3>1, <4>1, <4>2, <4>3 DEF KmainOK
    <3> QED
      BY <2>1, <3>2, <3>3
  <2>3. CASE prev # 0
    <3>1. pcb[0].ctx = pcb'[0].ctx
      BY <1>4, <2>1, <2>3, Small
    <3>2. cpu # Kmain
      BY <2>1, <3>1 DEF KmainRuns
    <3>3. pc'[Kmain] = pc[Kmain] /\ sw'[Kmain] = sw[Kmain]
      BY <3>2, Small
    <3>4. u = Kmain => pc[Kmain] \notin {"running", "switch"}
      BY <3>1 DEF ZeroOK
    <3>5. ASSUME u \in Pids PROVE cpu' # u
      BY <1>5, <1>9, <2>1, <3>1, <3>5, Small DEF NextThread
    <3> QED
      BY <1>9, <2>1, <3>1, <3>3, <3>4, <3>5
  <2> QED
    BY <2>2, <2>3
<1>12. KmainOK'
  <2>1. CASE cpu = Kmain /\ pc[Kmain] = "switch" /\ pc'[Kmain] \in {"loop", "wait", "back"}
    BY <2>1 DEF KmainOK
  <2>2. CASE ~(cpu = Kmain /\ pc[Kmain] = "switch" /\ pc'[Kmain] \in {"loop", "wait", "back"})
    <3>1. /\ pc'[Kmain] = pc[Kmain] /\ sw'[Kmain] = sw[Kmain]
          /\ pc[Kmain] = "reap" => pcb'[child].state = "ZOMBIE"
          /\ pc[Kmain] = "current" =>
                pcb'[sw[Kmain].next].state = "RUNNING" /\ next # sw[Kmain].next
      BY <1>4, <2>2, Counters, SwSlots, Small DEF KmainBehind
    <3>2. pc[Kmain] = "current" => cpu' # sw[Kmain].next
      <4>1. pc[Kmain] = "current" => /\ sw[Kmain].next # 0 /\ sw[Kmain].next # IdleThread
                                     /\ sw[Kmain].next # Halted
        BY SwSlots, Small, Numbers DEF KmainOK
      <4> QED
        BY <1>5, <1>9, <3>1, <4>1, Small DEF NextThread
    <3>3. child \in Slots /\ sw[Kmain].next \in Slots
      BY Counters, SwSlots, Small
    <3> QED
      BY <1>4, <3>1, <3>2, <3>3 DEF KmainOK, Used
  <2> QED
    BY <2>1, <2>2
<1>13. KmainRuns'
  <2> SUFFICES ASSUME cpu' = Kmain
               PROVE  /\ vm'.cr3 = Boot /\ pcb'[0].ctx.kind \notin {"call", "tick"}
                      /\ pc'[Kmain] \notin {"running", "switch"} /\ current_pid' = 0
    BY DEF KmainRuns
  <2>1. next = 0 /\ pcb[0].ctx.kind \in {"call", "tick"} /\ pcb[0].ctx.thread = Kmain
    BY <1>5, Small DEF NextThread
  <2>2. cpu # Kmain /\ pc[Kmain] \notin {"running", "switch"}
    BY <2>1 DEF ZeroOK
  <2> QED
    BY <1>3, <1>4, <1>6, <2>1, <2>2, Small
<1>14. UserOK'
  <2>1. ASSUME NEW u \in Pids PROVE UserOf(u)'
    <3>1. UserOf(u)
      BY DEF UserOK
    <3>2. sw'[u].ret = "hlt" /\ (pc'[u] \notin {"user", "hlt"} => sw'[u].prev = u)
      <4>1. CASE u = cpu
        BY <3>1, <4>1 DEF UserOf, UserBehind
      <4>2. CASE u # cpu
        BY <3>1, <4>2, Small DEF UserOf
      <4> QED
        BY <4>1, <4>2
    <3>3. CASE cpu' # u
      BY <3>2, <3>3 DEF UserOf
    <3>4. CASE cpu' = u /\ next # 0
      <4>1. u = next /\ pcb[next].ctx.kind = "frame" /\ next \in Pids
        BY <1>5, <3>4, Small DEF NextThread
      <4>2. pc'[u] = "user" /\ pcb[u].pid = u
        BY <1>9, <4>1 DEF FrameOK
      <4>3. pcb'[u].state = "RUNNING" /\ rsp0' = u /\ pcb'[u].pid = u /\ current_pid' = u
        BY <1>4, <3>4, <4>1, <4>2
      <4> QED
        BY <3>2, <4>2, <4>3 DEF UserOf
    <3>5. CASE cpu' = u /\ next = 0
      <4>1. pcb[0].ctx.kind \in {"call", "tick"} /\ pcb[0].ctx.thread = u
        BY <1>5, <3>5, Small DEF NextThread
      <4>2. pc'[u] = "switch" /\ sw'[u].next = 0 /\ u # 0
        BY <1>9, <4>1, Small
      <4>3. pc'[Kmain] = "current" => sw'[Kmain].next # 0
        BY <1>12 DEF KmainOK
      <4> QED
        BY <3>2, <3>5, <4>2, <4>3 DEF UserOf
    <3> QED
      BY <3>3, <3>4, <3>5
  <2> QED
    BY <2>1 DEF UserOK
<1>15. IdleOK'
  BY <1>5, Small DEF IdleOK, NextThread
<1>16. TablesOK(vm')
  BY <1>6 DEF TablesOK, Tops
<1>17. RootsOK' /\ StacksOK'
  <2>1. SameUse /\ vm'.cr3 \in Tops(vm)
    BY <1>3, <1>4 DEF SameUse
  <2>2. pc'[Kmain] = "reap" <=> pc[Kmain] = "reap"
    BY DEF KmainBehind
  <2>3. \A s \in Slots : pcb'[s].pid = pcb[s].pid /\ pcb'[s].pml4 = pcb[s].pml4
    BY <1>4
  <2> QED
    BY <1>6, <2>1, <2>2, <2>3, UseKept
<1> QED
  BY <1>7, <1>8, <1>10, <1>11, <1>12, <1>13, <1>14, <1>15, <1>16, <1>17

(* The timer.                                                              *)
LEMMA TickInv ==
    ASSUME PInv, Tick
    PROVE  PInv'
<1> USE DEF PInv
<1> DEFINE next == find_next_ready
           left == Left(current_pid)
           tab == Entered(left, next)
<1>1. /\ cpu # Halted /\ ~Stays /\ current_pid' = next
      /\ context_switch(tab, current_pid, next, InTick(cpu), FALSE)
      /\ UNCHANGED <<pcb_count, next_pid, pc, sw, child, kstacks>>
  BY DEF Tick, memory
<1>2. /\ next \in Slots /\ next # current_pid /\ current_pid \in Slots /\ pcb[next].state = "READY"
  BY <1>1, Found, Counters
<1>3. /\ SameProcesses(left)
      /\ \A s \in Slots : left[s].state =
            IF s = current_pid /\ pcb[s].state = "RUNNING" THEN "READY" ELSE pcb[s].state
  BY <1>2, LeftIs
<1> HIDE DEF left
<1>4. /\ SameProcesses(tab) /\ tab[next].state = "RUNNING"
      /\ \A s \in Slots \ {next} : tab[s] = left[s]
  BY <1>2, <1>3, EnteredIs
<1> HIDE DEF next, tab
<1>5. /\ \A s \in Slots : tab[s].state = "EMPTY" <=> pcb[s].state = "EMPTY"
      /\ \A s \in Slots : pcb[s].state = "ZOMBIE" <=> tab[s].state = "ZOMBIE"
      /\ \A s \in Slots \ {current_pid} : pcb[s].state = "RUNNING" => tab[s].state = "RUNNING"
  <2>1. ASSUME NEW s \in Slots
        PROVE  /\ tab[s].state = "EMPTY" <=> pcb[s].state = "EMPTY"
               /\ pcb[s].state = "ZOMBIE" <=> tab[s].state = "ZOMBIE"
               /\ s # current_pid /\ pcb[s].state = "RUNNING" => tab[s].state = "RUNNING"
    <3>1. CASE s = next
      BY <1>2, <1>4, <3>1
    <3>2. CASE s # next
      BY <1>3, <1>4, <3>2
    <3> QED
      BY <3>1, <3>2
  <2> QED
    BY <2>1
<1>6. cpu \in Threads \union {IdleThread} /\ InTick(cpu) \in Contexts
      /\ InTick(cpu).kind = "tick" /\ InTick(cpu).thread = cpu
  BY <1>1 DEF VarsOK, InTick, Ctx, Contexts
<1>7. tab[0].state # "ZOMBIE"
  BY <1>5, Small DEF TableOK
<1>8. KmainBehind(tab, current_pid, next)
  <2>1. pc[Kmain] = "reap" => tab[child].state = "ZOMBIE"
    BY <1>5, Counters DEF KmainOK
  <2>2. ASSUME pc[Kmain] = "current"
        PROVE  tab[sw[Kmain].next].state = "RUNNING" /\ next # sw[Kmain].next
    <3>1. /\ pcb[sw[Kmain].next].state = "RUNNING" /\ sw[Kmain].next \in Slots
          /\ sw[Kmain].next # 0 /\ cpu # sw[Kmain].next
      BY <2>2, Small, SwSlots DEF KmainOK
    <3>2. current_pid # sw[Kmain].next
      <4>1. CASE cpu = Kmain
        BY <2>2, <3>1, <4>1 DEF KmainRuns
      <4>2. CASE cpu = IdleThread
        BY <3>1, <4>2 DEF IdleOK
      <4>3. CASE cpu \in Pids
        BY <2>2, <3>1, <4>3 DEF UserOK, UserOf
      <4> QED
        BY <1>6, <4>1, <4>2, <4>3, Small
    <3> QED
      BY <1>2, <1>5, <3>1, <3>2
  <2>3. current_pid = 0 /\ cpu = Kmain => pc[Kmain] \notin {"running", "switch"}
    BY Small DEF KmainRuns, KmainOK
  <2> QED
    BY <1>1, <2>1, <2>2, <2>3 DEF KmainBehind
<1>9. UserBehind(current_pid)
  <2>1. ASSUME cpu \in Pids, current_pid = 0 PROVE pc[cpu] = "switch" /\ sw[cpu].next = 0
    BY <2>1, Small DEF UserOK, UserOf
  <2> QED
    BY <1>1, <2>1 DEF UserBehind
<1>10. /\ pc' \in [Threads -> KmainPc \union UserPc] /\ pc'[Kmain] \in KmainPc
       /\ \A t \in Pids : pc'[t] \in UserPc
       /\ sw' \in [Threads -> Switches]
       /\ \A u \in Threads \ {cpu} : pc'[u] = pc[u] /\ sw'[u] = sw[u]
  BY <1>1 DEF VarsOK
<1>11. /\ context_switch(tab, current_pid, next, InTick(cpu), FALSE)
       /\ current_pid' = next /\ current_pid # next
       /\ UNCHANGED <<pcb_count, next_pid, child, kstacks>>
  BY <1>1, <1>2 DEF tab, next
<1> QED
  BY <1>2, <1>4, <1>5, <1>6, <1>7, <1>8, <1>9, <1>10, <1>11, Switched

(* kmain switches, from schedule or process_switch_to.                     *)
LEMMA KmainSwitchInv ==
    ASSUME PInv, Switch(Kmain)
    PROVE  PInv'
<1> USE DEF PInv
<1>1. /\ cpu = Kmain /\ pc[Kmain] = "switch"
      /\ context_switch(pcb, sw[Kmain].prev, sw[Kmain].next, InCall(Kmain), ints)
      /\ pc' = [pc EXCEPT ![Kmain] = sw[Kmain].ret] /\ sw' = [sw EXCEPT ![Kmain] = NoSwitch]
      /\ UNCHANGED <<current_pid, pcb_count, next_pid, child, kstacks>>
  BY DEF Switch, At, Goto, memory
<1>2. /\ sw[Kmain].prev = 0 /\ sw[Kmain].next # 0 /\ sw[Kmain].next \in Slots
      /\ sw[Kmain].ret \in {"loop", "wait", "back"} /\ sw[Kmain].ret \in KmainPc
  BY <1>1, Small, SwSlots DEF KmainOK, Switches, KmainPc
<1>3. current_pid = sw[Kmain].next /\ pcb[current_pid].state = "RUNNING"
  BY <1>1 DEF KmainRuns
<1>4. /\ pc' \in [Threads -> KmainPc \union UserPc] /\ pc'[Kmain] = sw[Kmain].ret
      /\ \A t \in Pids : pc'[t] = pc[t] /\ pc[t] \in UserPc
  BY <1>1, <1>2, KmainMoves
<1>5. NoSwitch \in Switches
  BY Small DEF NoSwitch, Switches
<1>6. /\ sw' \in [Threads -> Switches] /\ \A t \in Pids : sw'[t] = sw[t]
  BY <1>1, <1>5, Small, SwMoves
<1>7. InCall(Kmain) \in Contexts /\ InCall(Kmain).kind = "call" /\ InCall(Kmain).thread = Kmain
  BY Small DEF InCall, Ctx, Contexts
<1>8. SameProcesses(pcb) /\ pcb[0].state # "ZOMBIE"
  BY DEF VarsOK, TableOK, SameProcesses
<1>9. KmainBehind(pcb, 0, sw[Kmain].next) /\ UserBehind(0)
  BY <1>1, <1>2, <1>4, Small DEF KmainBehind, UserBehind
<1>10. \A u \in Threads \ {cpu} : pc'[u] = pc[u] /\ sw'[u] = sw[u]
  BY <1>1, <1>4, <1>6, Small
<1>11. cpu \in Threads \union {IdleThread} /\ 0 \in Slots /\ \A t \in Pids : pc'[t] \in UserPc
  BY <1>1, <1>4, Small
<1> QED
  BY <1>1, <1>2, <1>3, <1>4, <1>6, <1>7, <1>8, <1>9, <1>10, <1>11, Switched

(* A program that has ended switches, and is lost.                         *)
LEMMA UserSwitchInv ==
    ASSUME PInv, NEW t \in Pids, Switch(t)
    PROVE  PInv'
<1> USE DEF PInv
<1>1. /\ cpu = t /\ pc[t] = "switch"
      /\ context_switch(pcb, sw[t].prev, sw[t].next, InCall(t), ints)
      /\ pc' = [pc EXCEPT ![t] = sw[t].ret] /\ sw' = [sw EXCEPT ![t] = NoSwitch]
      /\ UNCHANGED <<current_pid, pcb_count, next_pid, child, kstacks>>
  BY DEF Switch, At, Goto, memory
<1>2. /\ sw[t].prev = t /\ sw[t].next # t /\ sw[t].next \in Slots /\ t \in Slots /\ t # 0
      /\ sw[t].ret = "hlt" /\ "hlt" \in UserPc /\ current_pid = sw[t].next
      /\ sw[t].next # 0 => pcb[sw[t].next].state = "RUNNING"
      /\ pc[Kmain] = "current" => sw[t].next # sw[Kmain].next
  BY <1>1, Small, SwSlots DEF UserOK, UserOf, UserPc
<1>3. /\ pc' \in [Threads -> KmainPc \union UserPc] /\ pc'[Kmain] = pc[Kmain]
      /\ pc[Kmain] \in KmainPc /\ pc'[t] = "hlt"
      /\ \A u \in Pids \ {t} : pc'[u] = pc[u] /\ pc[u] \in UserPc
  BY <1>1, <1>2, UserMoves
<1>4. NoSwitch \in Switches /\ NoSwitch.ret = "hlt"
  BY Small DEF NoSwitch, Switches
<1>5. /\ sw' \in [Threads -> Switches] /\ sw'[t] = NoSwitch
      /\ \A u \in Threads \ {t} : sw'[u] = sw[u]
  BY <1>1, <1>4, Small, SwMoves
<1>6. InCall(t) \in Contexts /\ InCall(t).kind = "call" /\ InCall(t).thread = t
  BY Small DEF InCall, Ctx, Contexts
<1>7. SameProcesses(pcb) /\ pcb[0].state # "ZOMBIE"
  BY DEF VarsOK, TableOK, SameProcesses
<1>8. KmainBehind(pcb, t, sw[t].next)
  <2>1. sw'[Kmain] = sw[Kmain]
    BY <1>5, Small
  <2> QED
    BY <1>2, <1>3, <2>1 DEF KmainBehind, KmainOK
<1>9. UserBehind(t)
  BY <1>1, <1>2, <1>3, <1>4, <1>5 DEF UserBehind
<1>10. \A u \in Threads \ {cpu} : pc'[u] = pc[u] /\ sw'[u] = sw[u]
  BY <1>1, <1>3, <1>5, Small
<1>11. cpu \in Threads \union {IdleThread} /\ \A u \in Pids : pc'[u] \in UserPc
  BY <1>1, <1>2, <1>3, Small
<1> QED
  BY <1>1, <1>2, <1>3, <1>5, <1>6, <1>7, <1>8, <1>9, <1>10, <1>11, Switched

-----------------------------------------------------------------------------
(* Processes come into the table, get their first frame and leave.         *)

(* A process that comes into the slot of its pid finds it never used.      *)
LEMMA Placed ==
    ASSUME PInv, NEW x \in Slots, NEW root \in Roots, next_pid <= MaxPid,
           pcb' = Unframed(x, root), current_pid = 0, SlotIsPid'
    PROVE  /\ x = next_pid /\ x \in Pids /\ x # 0
           /\ pcb[x].pid = -1 /\ ~Used(x) /\ pcb[x].ctx.kind # "frame"
           /\ pcb' \in [Slots -> Pcb] /\ \A s \in Slots \ {x} : pcb'[s] = pcb[s]
           /\ pcb'[x].pid = x /\ pcb'[x].is_user /\ pcb'[x].state = "READY"
           /\ pcb'[x].pml4 = root /\ pcb'[x].ctx = pcb[x].ctx
<1> DEFINE p == [pid |-> next_pid, state |-> "READY", is_user |-> TRUE,
                 parent_pid |-> current_pid, pml4 |-> root, ctx |-> pcb[x].ctx]
<1>1. pcb \in [Slots -> Pcb] /\ pcb[x].ctx \in Contexts
  BY DEF PInv, VarsOK, Pcb
<1>2. pcb' = [pcb EXCEPT ![x] = p]
  BY DEF Unframed
<1>3. p \in Pcb
  BY <1>1, Counters DEF PInv, Pcb, States
<1>4. /\ p.pid = next_pid /\ p.is_user /\ p.state = "READY" /\ p.pml4 = root
      /\ p.ctx = pcb[x].ctx
  OBVIOUS
<1> HIDE DEF p
<1>5. pcb' \in [Slots -> Pcb] /\ pcb'[x] = p /\ \A s \in Slots \ {x} : pcb'[s] = pcb[s]
  BY <1>1, <1>2, <1>3
<1>6. x = next_pid
  BY <1>4, <1>5, Counters DEF SlotIsPid, PInv
<1>7. x \in Pids /\ x # 0
  BY <1>6, Counters, Numbers DEF Pids, PInv
<1>8. pcb[x].pid = -1
  BY <1>6, <1>7, Counters, Numbers DEF PInv, TableOK
<1>9. ~Used(x) /\ pcb[x].ctx.kind # "frame"
  BY <1>7, <1>8, Numbers DEF PInv, TableOK, FrameOK, Used
<1> QED
  BY <1>4, <1>5, <1>6, <1>7, <1>8, <1>9

(* kmain puts a process into the table.                                    *)
LEMMA PlacedInv ==
    ASSUME PInv, NEW x \in Slots, NEW root \in Roots, next_pid <= MaxPid, SlotIsPid',
           pcb' = Unframed(x, root), NEW from \in {"alloc", "loop"}, At(Kmain, from),
           NEW to \in {"create", "spawn"}, Goto(Kmain, to), next_pid' = next_pid + 1,
           child' = next_pid, kstacks' = kstacks \union {next_pid},
           UNCHANGED <<current_pid, pcb_count, cpu, sw>>,
           vm' \in Tables, TablesOK(vm'), vm'.cr3 = vm.cr3, vm.roots \subseteq vm'.roots,
           root \in Tops(vm'), root = Boot \/ root \notin vm.roots
    PROVE  PInv'
<1> USE DEF PInv
<1>1. /\ cpu = Kmain /\ pc[Kmain] = from /\ current_pid = 0 /\ vm.cr3 = Boot
      /\ pcb[0].ctx.kind \notin {"call", "tick"}
  BY KmainHere
<1>2. /\ x = next_pid /\ x \in Pids /\ x # 0
      /\ pcb[x].pid = -1 /\ ~Used(x) /\ pcb[x].ctx.kind # "frame"
      /\ pcb' \in [Slots -> Pcb] /\ \A s \in Slots \ {x} : pcb'[s] = pcb[s]
      /\ pcb'[x].pid = x /\ pcb'[x].is_user /\ pcb'[x].state = "READY"
      /\ pcb'[x].pml4 = root /\ pcb'[x].ctx = pcb[x].ctx
  BY <1>1, Placed
<1>3. to \in KmainPc /\ pc' = [pc EXCEPT ![Kmain] = to]
  BY DEF KmainPc, Goto
<1>4. /\ pc' \in [Threads -> KmainPc \union UserPc] /\ pc'[Kmain] = to
      /\ \A t \in Pids : pc'[t] = pc[t] /\ pc[t] \in UserPc
  BY <1>3, KmainMoves
<1>5. VarsOK'
  <2>1. child' \in 0 .. MaxPid /\ next_pid' \in 1 .. MaxPid + 1
    BY Counters, Numbers
  <2> QED
    BY <1>2, <1>3, <1>4, <2>1 DEF VarsOK
<1>6. TableOK'
  <2>1. pcb'[0] = pcb[0] /\ next_pid \in Nat
    BY <1>2, Small, Counters
  <2>2. ASSUME NEW s \in Slots \ {0}
        PROVE  /\ pcb'[s].pid \in {-1, s}
               /\ pcb'[s].pid = -1 => pcb'[s].state = "EMPTY"
               /\ pcb'[s].pid = s => s < next_pid' /\ pcb'[s].is_user
    <3>1. CASE s = x
      BY <1>2, <2>1, <3>1, Numbers
    <3>2. CASE s # x
      BY <1>2, <2>1, <3>2, Numbers DEF TableOK
    <3> QED
      BY <3>1, <3>2
  <2> QED
    BY <2>1, <2>2 DEF TableOK
<1>7. FrameOK'
  <2>1. ASSUME NEW s \in Slots, pcb'[s].ctx.kind = "frame"
        PROVE  /\ s # 0 /\ pcb'[s].pid = s /\ pcb'[s].ctx.thread = s /\ cpu' # s /\ pc'[s] = "user"
               /\ ~(pc'[Kmain] \in {"create", "spawn"} /\ s = child')
    <3>1. s # x /\ pcb'[s] = pcb[s]
      BY <1>2, <2>1
    <3>2. s # 0 /\ pcb[s].pid = s /\ pcb[s].ctx.thread = s /\ cpu # s /\ pc[s] = "user"
      BY <2>1, <3>1 DEF FrameOK
    <3>3. s \in Pids
      BY <3>2, Numbers, Counters DEF TableOK, VarsOK, Pids
    <3> QED
      BY <1>2, <1>4, <3>1, <3>2, <3>3
  <2>2. ASSUME NEW p \in Pids, p >= next_pid' \/ p = child'
        PROVE  cpu' # p /\ pc'[p] = "user"
    <3>1. p >= next_pid
      BY <2>2, Counters, Numbers DEF Pids
    <3> QED
      BY <1>4, <3>1 DEF FrameOK
  <2> QED
    BY <2>1, <2>2 DEF FrameOK
<1>8. pcb'[0] = pcb[0]
  BY <1>2, Small
<1>9. ZeroOK'
  BY <1>1, <1>8 DEF ZeroOK
<1>10. KmainOK'
  BY <1>2, <1>4 DEF KmainOK, Used
<1>11. KmainRuns'
  BY <1>1, <1>4, <1>8 DEF KmainRuns
<1>12. UserOK'
  <2>1. ASSUME NEW t \in Pids PROVE UserOf(t)'
    <3>1. UserOf(t) /\ cpu' # t /\ sw'[t] = sw[t] /\ pc'[t] = pc[t]
      BY <1>1, <1>4, Small DEF UserOK
    <3> QED
      BY <3>1 DEF UserOf
  <2> QED
    BY <2>1 DEF UserOK
<1>13. IdleOK'
  BY <1>1, Small DEF IdleOK
<1>14. Alive' = Alive \union {x} /\ x \notin Alive /\ Alive \subseteq Slots
  <2>1. pc[Kmain] # "reap" /\ pc'[Kmain] # "reap"
    BY <1>1, <1>4
  <2> QED
    BY <1>2, <2>1 DEF Alive, Used
<1>15. RootsOK'
  <2>1. vm'.cr3 \in Tops(vm') /\ Tops(vm) \subseteq Tops(vm')
    BY <1>1 DEF Tops
  <2>2. \A s \in Alive : pcb'[s] = pcb[s] /\ pcb[s].pml4 \in Tops(vm)
    BY <1>2, <1>14 DEF RootsOK
  <2>3. \A s \in Alive' : pcb'[s].pml4 \in Tops(vm')
    BY <1>2, <1>14, <2>1, <2>2
  <2>4. \A s \in Alive : pcb[s].pml4 = root => root = Boot
    BY <2>2 DEF Tops
  <2>5. ASSUME NEW s \in Alive', NEW o \in Alive', pcb'[s].pml4 = pcb'[o].pml4
        PROVE  s = o \/ pcb'[s].pml4 = Boot
    <3>1. CASE s \in Alive /\ o \in Alive
      BY <2>2, <2>5, <3>1 DEF RootsOK
    <3>2. CASE s = x \/ o = x
      BY <1>2, <1>14, <2>2, <2>4, <2>5, <3>2
    <3> QED
      BY <1>14, <3>1, <3>2
  <2> QED
    BY <2>1, <2>3, <2>5 DEF RootsOK
<1>16. StacksOK'
  BY <1>2, <1>14 DEF StacksOK
<1> QED
  BY <1>5, <1>6, <1>7, <1>9, <1>10, <1>11, <1>12, <1>13, <1>15, <1>16

(* process_create_user shares the loaded PML4.                             *)
LEMMA CreateInv ==
    ASSUME PInv, process_create_user, SlotIsPid'
    PROVE  PInv'
<1>1. /\ At(Kmain, "alloc") /\ next_pid <= MaxPid /\ pcb' = Unframed(pcb_count - 1, vm.cr3)
      /\ next_pid' = next_pid + 1 /\ child' = next_pid /\ kstacks' = kstacks \union {next_pid}
      /\ Goto(Kmain, "create") /\ UNCHANGED <<current_pid, pcb_count, cpu, sw, vm>>
  BY DEF process_create_user, pml4_get_current, machine
<1>2. vm.cr3 = Boot /\ pcb_count - 1 \in Slots
  BY <1>1, KmainHere, Counters DEF PInv
<1>3. Boot \in Roots /\ Boot \in Tops(vm) /\ vm \in Tables /\ TablesOK(vm)
  BY DEF Roots, Tops, PInv, VarsOK
<1> QED
  BY <1>1, <1>2, <1>3, PlacedInv

(* proc_spawn makes a PML4.                                                *)
LEMMA SpawnInv ==
    ASSUME PInv, proc_spawn, SlotIsPid'
    PROVE  PInv'
<1> DEFINE slot == CHOOSE s \in Empty : \A o \in Empty : s <= o
<1>1. /\ At(Kmain, "loop") /\ next_pid <= MaxPid /\ Empty # {}
      /\ next_pid' = next_pid + 1 /\ child' = next_pid /\ kstacks' = kstacks \union {next_pid}
      /\ Goto(Kmain, "spawn") /\ UNCHANGED <<current_pid, pcb_count, cpu, sw>>
  BY DEF proc_spawn
<1>2. PICK p \in page_alloc(vm) : vm' = pml4_create(vm, p) /\ pcb' = Unframed(slot, p)
  BY DEF proc_spawn
<1>3. slot \in Slots
  <2>1. Empty \subseteq Nat /\ Empty \subseteq Slots
    BY Numbers DEF Empty
  <2>2. \E m \in Empty : \A n \in Empty : m <= n
    BY <1>1, <2>1, Least
  <2> QED
    BY <2>1, <2>2
<1> HIDE DEF slot
<1>4. vm.cr3 = Boot
  BY <1>1, KmainHere
<1>5. /\ vm' \in Tables /\ vm'.cr3 = vm.cr3 /\ p \in Pages /\ TablesOK(vm')
      /\ vm'.roots = vm.roots \union {p} /\ p \notin vm.used
  BY <1>2, <1>4, CreateTyped DEF PInv
<1>6. p \in Roots /\ p \in Tops(vm') /\ p \notin vm.roots
  BY <1>5 DEF Roots, Tops, PInv, TablesOK
<1> QED
  BY <1>1, <1>2, <1>3, <1>5, <1>6, PlacedInv

(* kmain builds the first frame of its process.                            *)
LEMMA FramedInv ==
    ASSUME PInv, NEW from \in {"create", "spawn"}, At(Kmain, from), NEW words \in Nat,
           pcb' = Framed(words), NEW to \in {"created", "loop"}, Goto(Kmain, to),
           IF to = "created" THEN child' = child ELSE child' = 0,
           UNCHANGED <<current_pid, pcb_count, next_pid, cpu, vm, sw, kstacks>>
    PROVE  PInv'
<1> USE DEF PInv
<1>1. /\ cpu = Kmain /\ pc[Kmain] = from /\ current_pid = 0 /\ vm.cr3 = Boot
      /\ pcb[0].ctx.kind \notin {"call", "tick"}
  BY KmainHere
<1>2. child \in Pids /\ pcb[child].pid = child /\ Used(child) /\ child \in Slots /\ child # 0
  BY <1>1, Small DEF KmainOK
<1>3. \A s \in Slots : pcb[s].pid = child => s = child
  BY <1>2, Small, Numbers DEF TableOK
<1>4. /\ pcb' \in [Slots -> Pcb] /\ \A s \in Slots \ {child} : pcb'[s] = pcb[s]
      /\ \A s \in Slots : /\ pcb'[s].pid = pcb[s].pid /\ pcb'[s].is_user = pcb[s].is_user
                          /\ pcb'[s].pml4 = pcb[s].pml4 /\ pcb'[s].state = pcb[s].state
      /\ pcb'[child].ctx.kind = "frame" /\ pcb'[child].ctx.thread = child
  <2>1. Frame(child, words) \in Contexts /\ Frame(child, words).kind = "frame"
        /\ Frame(child, words).thread = child
    BY <1>2, Small DEF Frame, Ctx, Contexts
  <2> DEFINE p == [pcb[child] EXCEPT !.ctx = Frame(child, words)]
  <2>2. /\ p \in Pcb /\ p.ctx = Frame(child, words) /\ p.pid = pcb[child].pid
        /\ p.is_user = pcb[child].is_user /\ p.pml4 = pcb[child].pml4
        /\ p.state = pcb[child].state
    <3>1. pcb[child] \in Pcb
      BY <1>2 DEF VarsOK
    <3> QED
      BY <2>1, <3>1 DEF Pcb
  <2>3. pcb' = [s \in Slots |-> IF s = child THEN p ELSE pcb[s]]
    BY <1>2, <1>3 DEF Framed
  <2> HIDE DEF p
  <2>4. /\ pcb'[child] = p /\ \A s \in Slots \ {child} : pcb'[s] = pcb[s]
        /\ pcb' \in [Slots -> Pcb]
    BY <1>2, <2>2, <2>3 DEF VarsOK
  <2>5. ASSUME NEW s \in Slots
        PROVE  /\ pcb'[s].pid = pcb[s].pid /\ pcb'[s].is_user = pcb[s].is_user
               /\ pcb'[s].pml4 = pcb[s].pml4 /\ pcb'[s].state = pcb[s].state
    BY <2>2, <2>4, Zenon
  <2> QED
    BY <2>1, <2>2, <2>4, <2>5
<1>5. to \in KmainPc /\ pc' = [pc EXCEPT ![Kmain] = to]
  BY DEF KmainPc, Goto
<1>6. /\ pc' \in [Threads -> KmainPc \union UserPc] /\ pc'[Kmain] = to
      /\ \A t \in Pids : pc'[t] = pc[t] /\ pc[t] \in UserPc
  BY <1>5, KmainMoves
<1>7. VarsOK'
  <2>1. child' \in 0 .. MaxPid
    BY Numbers DEF VarsOK
  <2> QED
    BY <1>4, <1>5, <1>6, <2>1 DEF VarsOK
<1>8. TableOK'
  BY <1>4, Small DEF TableOK
<1>9. FrameOK'
  <2>1. ASSUME NEW s \in Slots, pcb'[s].ctx.kind = "frame"
        PROVE  s # 0 /\ pcb'[s].pid = s /\ pcb'[s].ctx.thread = s /\ cpu' # s /\ pc'[s] = "user"
    <3>1. CASE s = child
      <4>1. cpu # child /\ pc[child] = "user"
        BY <1>1, <1>2 DEF FrameOK
      <4> QED
        BY <1>2, <1>4, <1>6, <3>1, <4>1
    <3>2. CASE s # child
      <4>1. pcb'[s] = pcb[s]
        BY <1>4, <3>2
      <4>2. s # 0 /\ pcb[s].pid = s /\ pcb[s].ctx.thread = s /\ cpu # s /\ pc[s] = "user"
        BY <2>1, <4>1 DEF FrameOK
      <4>3. s \in Pids
        BY <4>2, Numbers, Counters DEF TableOK, VarsOK, Pids
      <4> QED
        BY <1>6, <4>1, <4>2, <4>3
    <3> QED
      BY <3>1, <3>2
  <2> QED
    BY <1>6, <2>1 DEF FrameOK
<1>10. pcb'[0] = pcb[0]
  BY <1>2, <1>4, Small
<1>11. ZeroOK'
  BY <1>1, <1>10 DEF ZeroOK
<1>12. KmainOK'
  BY <1>2, <1>4, <1>6 DEF KmainOK, Used
<1>13. KmainRuns'
  BY <1>1, <1>6, <1>10 DEF KmainRuns
<1>14. UserOK'
  <2>1. ASSUME NEW t \in Pids PROVE UserOf(t)'
    <3>1. UserOf(t) /\ cpu' # t /\ sw'[t] = sw[t] /\ pc'[t] = pc[t]
      BY <1>1, <1>6, Small DEF UserOK
    <3> QED
      BY <3>1 DEF UserOf
  <2> QED
    BY <2>1 DEF UserOK
<1>15. IdleOK'
  BY <1>1, Small DEF IdleOK
<1>16. RootsOK' /\ StacksOK'
  <2>1. SameUse /\ vm'.roots = vm.roots /\ vm'.cr3 \in Tops(vm)
    BY <1>4 DEF SameUse, RootsOK
  <2>2. pc[Kmain] # "reap" /\ pc'[Kmain] # "reap"
    BY <1>1, <1>6
  <2> QED
    BY <1>4, <2>1, <2>2, UseKept
<1> QED
  BY <1>7, <1>8, <1>9, <1>11, <1>12, <1>13, <1>14, <1>15, <1>16

(* setup_user_stack, and the frame proc_spawn makes itself.                *)
LEMMA FrameInv ==
    ASSUME PInv, setup_user_stack \/ SpawnFrame
    PROVE  PInv'
<1>1. CASE setup_user_stack
  BY <1>1, FramedInv, ProcAssumption DEF setup_user_stack, machine, memory
<1>2. CASE SpawnFrame
  BY <1>2, FramedInv, ProcAssumption DEF SpawnFrame, Back, Goto, machine, memory
<1> QED
  BY <1>1, <1>2

(* The slot that proc_waitpid finds is that of its child.                  *)
LEMMA AwaitedIs ==
    ASSUME PInv, NEW s \in Awaited, s # 0
    PROVE  s = child /\ s \in Pids /\ s \in Slots /\ pcb[s].pid = s
<1>1. s \in Slots /\ pcb[s].pid = child /\ child \in Nat
  BY Counters DEF Awaited, PInv
<1>2. pcb[s].pid = s /\ s < next_pid
  BY <1>1, Numbers DEF PInv, TableOK
<1> QED
  BY <1>1, <1>2, Numbers, Counters DEF PInv, VarsOK, Pids

(* proc_waitpid frees the stack and the PML4 of the ended child.           *)
LEMMA FreeInv ==
    ASSUME PInv, WaitFree
    PROVE  PInv'
<1> USE DEF PInv
<1>1. /\ At(Kmain, "wait") /\ pc' = [pc EXCEPT ![Kmain] = "reap"]
      /\ UNCHANGED <<pcb, current_pid, pcb_count, next_pid, cpu, sw, child>>
  BY DEF WaitFree, Goto, table
<1>2. /\ cpu = Kmain /\ pc[Kmain] = "wait" /\ current_pid = 0 /\ vm.cr3 = Boot
      /\ pcb[0].ctx.kind \notin {"call", "tick"}
  BY <1>1, KmainHere
<1>3. PICK s \in Awaited : /\ pcb[s].state = "ZOMBIE" /\ kstacks' = kstacks \ {pcb[s].pid}
                           /\ vm' = pml4_destroy(vm, pcb[s].pml4)
  BY DEF WaitFree, StackOf
<1>4. s = child /\ s \in Pids /\ s \in Slots /\ pcb[s].pid = s
  BY <1>3, AwaitedIs DEF TableOK
<1>5. "reap" \in KmainPc
  BY DEF KmainPc
<1>6. /\ pc' \in [Threads -> KmainPc \union UserPc] /\ pc'[Kmain] = "reap"
      /\ \A t \in Pids : pc'[t] = pc[t] /\ pc[t] \in UserPc
  BY <1>1, <1>5, KmainMoves
<1>7. Alive' = Alive \ {s} /\ s \in Alive /\ Alive \subseteq Slots
  <2>1. \A o \in Slots : pcb[o].pid = s => o = s
    BY <1>4, Small, Numbers DEF TableOK
  <2> QED
    BY <1>1, <1>2, <1>3, <1>4, <1>6, <2>1 DEF Alive
<1>8. pcb[s].pml4 \in Tops(vm)
  BY <1>7 DEF RootsOK
<1>9. /\ vm' \in Tables /\ vm'.cr3 = vm.cr3 /\ TablesOK(vm')
      /\ vm'.roots = vm.roots \ {pcb[s].pml4}
  BY <1>3, <1>8, DestroyTyped
<1>10. VarsOK'
  BY <1>1, <1>5, <1>6, <1>9 DEF VarsOK
<1>11. TableOK'
  BY <1>1 DEF TableOK
<1>12. FrameOK'
  <2>1. ASSUME NEW o \in Slots, pcb[o].ctx.kind = "frame"
        PROVE  o # 0 /\ pcb[o].pid = o /\ pcb[o].ctx.thread = o /\ cpu # o /\ pc'[o] = "user"
    <3>1. o # 0 /\ pcb[o].pid = o /\ pcb[o].ctx.thread = o /\ cpu # o /\ pc[o] = "user"
      BY <2>1 DEF FrameOK
    <3>2. o \in Pids
      BY <3>1, Numbers, Counters DEF TableOK, VarsOK, Pids
    <3> QED
      BY <1>6, <3>1, <3>2
  <2> QED
    BY <1>1, <1>6, <2>1 DEF FrameOK
<1>13. ZeroOK'
  BY <1>1, <1>2 DEF ZeroOK
<1>14. KmainOK'
  BY <1>1, <1>3, <1>4, <1>6 DEF KmainOK, Used
<1>15. KmainRuns'
  BY <1>1, <1>2, <1>6, <1>9 DEF KmainRuns
<1>16. UserOK'
  <2>1. ASSUME NEW t \in Pids PROVE UserOf(t)'
    <3>1. UserOf(t) /\ cpu' # t /\ sw'[t] = sw[t] /\ pc'[t] = pc[t]
      BY <1>1, <1>2, <1>6, Small DEF UserOK
    <3> QED
      BY <3>1 DEF UserOf
  <2> QED
    BY <2>1 DEF UserOK
<1>17. IdleOK'
  BY <1>1, <1>2, Small DEF IdleOK
<1>18. RootsOK'
  <2>1. \A o \in Alive \ {s} : pcb[o].pml4 \in Tops(vm')
    <3>1. ASSUME NEW o \in Alive \ {s} PROVE pcb[o].pml4 \in Tops(vm')
      <4>1. pcb[o].pml4 \in Tops(vm) /\ (pcb[o].pml4 = pcb[s].pml4 => pcb[o].pml4 = Boot)
        BY <1>7 DEF RootsOK
      <4> QED
        BY <1>9, <4>1 DEF Tops
    <3> QED
      BY <3>1
  <2>2. vm'.cr3 \in Tops(vm')
    BY <1>2, <1>9 DEF Tops
  <2> QED
    BY <1>1, <1>7, <2>1, <2>2 DEF RootsOK
<1>19. StacksOK'
  BY <1>3, <1>4, <1>7 DEF StacksOK
<1> QED
  BY <1>9, <1>10, <1>11, <1>12, <1>13, <1>14, <1>15, <1>16, <1>17, <1>18, <1>19

(* It forgets the child.                                                   *)
LEMMA ReapInv ==
    ASSUME PInv, WaitReap
    PROVE  PInv'
<1> USE DEF PInv
<1>1. /\ At(Kmain, "reap") /\ pc' = [pc EXCEPT ![Kmain] = "loop"] /\ child' = 0
      /\ UNCHANGED <<current_pid, pcb_count, next_pid, cpu, sw, vm, kstacks>>
  BY DEF WaitReap, Back, Goto, machine, memory
<1>2. /\ cpu = Kmain /\ pc[Kmain] = "reap" /\ current_pid = 0 /\ vm.cr3 = Boot
      /\ pcb[0].ctx.kind \notin {"call", "tick"}
  BY <1>1, KmainHere
<1>3. child \in Pids /\ pcb[child].pid = child /\ Used(child) /\ child # 0
  BY <1>2, Small DEF KmainOK
<1>4. PICK s \in Awaited : pcb' = [pcb EXCEPT ![s].state = "EMPTY"]
  BY DEF WaitReap
<1>5. s = child /\ s \in Slots /\ s # 0
  BY <1>3, AwaitedIs DEF Awaited, TableOK
<1>6. "loop" \in KmainPc /\ "EMPTY" \in States
  BY DEF KmainPc, States
<1>7. /\ pc' \in [Threads -> KmainPc \union UserPc] /\ pc'[Kmain] = "loop"
      /\ \A t \in Pids : pc'[t] = pc[t] /\ pc[t] \in UserPc
  BY <1>1, <1>6, KmainMoves
<1>8. /\ SameProcesses(pcb') /\ pcb'[s].state = "EMPTY"
      /\ \A o \in Slots \ {s} : pcb'[o] = pcb[o]
  BY <1>4, <1>5, <1>6, StateWrite
<1>9. /\ pcb' \in [Slots -> Pcb] /\ pcb'[0] = pcb[0]
      /\ \A o \in Slots : /\ pcb'[o].pid = pcb[o].pid /\ pcb'[o].is_user = pcb[o].is_user
                          /\ pcb'[o].pml4 = pcb[o].pml4 /\ pcb'[o].ctx = pcb[o].ctx
  BY <1>5, <1>8, Small DEF SameProcesses
<1>10. VarsOK'
  BY <1>1, <1>6, <1>7, <1>9, Numbers DEF VarsOK
<1>11. TableOK'
  <2>1. ASSUME NEW o \in Slots \ {0}
        PROVE  /\ pcb'[o].pid \in {-1, o}
               /\ pcb'[o].pid = -1 => pcb'[o].state = "EMPTY"
               /\ pcb'[o].pid = o => o < next_pid' /\ pcb'[o].is_user
    <3>1. CASE o = s
      BY <1>1, <1>8, <1>9, <3>1 DEF TableOK
    <3>2. CASE o # s
      BY <1>1, <1>8, <3>2 DEF TableOK
    <3> QED
      BY <3>1, <3>2
  <2> QED
    BY <1>9, <2>1 DEF TableOK
<1>12. FrameOK'
  <2>1. ASSUME NEW o \in Slots, pcb[o].ctx.kind = "frame"
        PROVE  o # 0 /\ pcb[o].pid = o /\ pcb[o].ctx.thread = o /\ cpu # o /\ pc'[o] = "user"
    <3>1. o # 0 /\ pcb[o].pid = o /\ pcb[o].ctx.thread = o /\ cpu # o /\ pc[o] = "user"
      BY <2>1 DEF FrameOK
    <3>2. o \in Pids
      BY <3>1, Numbers, Counters DEF TableOK, VarsOK, Pids
    <3> QED
      BY <1>7, <3>1, <3>2
  <2> QED
    BY <1>1, <1>7, <1>9, <2>1 DEF FrameOK
<1>13. ZeroOK'
  BY <1>2, <1>9 DEF ZeroOK
<1>14. KmainOK'
  BY <1>7 DEF KmainOK
<1>15. KmainRuns'
  BY <1>1, <1>2, <1>7, <1>9 DEF KmainRuns
<1>16. UserOK'
  <2>1. ASSUME NEW t \in Pids PROVE UserOf(t)'
    <3>1. UserOf(t) /\ cpu' # t /\ sw'[t] = sw[t] /\ pc'[t] = pc[t]
      BY <1>1, <1>2, <1>7, Small DEF UserOK
    <3> QED
      BY <3>1 DEF UserOf
  <2> QED
    BY <2>1 DEF UserOK
<1>17. IdleOK'
  BY <1>1, <1>2, Small DEF IdleOK
<1>18. Alive' = Alive /\ Alive \subseteq Slots
  <2>1. \A o \in Slots : pcb[o].pid = child <=> o = child
    BY <1>3, Small, Numbers DEF TableOK
  <2> QED
    BY <1>2, <1>5, <1>7, <1>8, <2>1 DEF Alive
<1>19. RootsOK' /\ StacksOK'
  BY <1>1, <1>9, <1>18 DEF RootsOK, StacksOK
<1>20. TablesOK(vm')
  BY <1>1
<1> QED
  BY <1>10, <1>11, <1>12, <1>13, <1>14, <1>15, <1>16, <1>17, <1>19, <1>20

-----------------------------------------------------------------------------
(* SYS_disp_get_fb.                                                        *)
LEMMA MapInv ==
    ASSUME PInv, NEW t \in Pids, disp_get_fb(t)
    PROVE  PInv'
<1> USE DEF PInv
<1>1. /\ cpu = t /\ pc[t] = "user" /\ cpu' \in {cpu, Halted}
      /\ UNCHANGED <<pcb, current_pid, pcb_count, next_pid, pc, sw, child, kstacks, rsp0>>
  BY DEF disp_get_fb, At, table, memory
<1>2. vm' \in Tables /\ TablesOK(vm') /\ vm'.roots = vm.roots /\ vm'.cr3 \in Tops(vm)
  <2>1. CASE UNCHANGED vm
    BY <2>1 DEF VarsOK, RootsOK
  <2>2. CASE ~UNCHANGED vm
    <3>1. PICK s \in Mappable : vm' \in pml4_map_phys(vm, pcb[s].pml4)
      BY <2>2 DEF disp_get_fb
    <3>2. pcb[s].pml4 \in Tops(vm)
      BY DEF Mappable, Tops
    <3>3. vm' \in Tables /\ TablesOK(vm') /\ vm'.roots = vm.roots
          /\ vm'.cr3 \in {vm.cr3, pcb[s].pml4}
      BY <3>1, <3>2, MappedShape
    <3> QED
      BY <3>2, <3>3 DEF RootsOK
  <2> QED
    BY <2>1, <2>2
<1>3. t # Kmain /\ t \in Threads /\ cpu' # Kmain /\ cpu' # IdleThread
      /\ \A u \in Threads : cpu # u => cpu' # u
  BY <1>1, Small, Numbers
<1>4. VarsOK'
  BY <1>1, <1>2 DEF VarsOK
<1>5. TableOK'
  BY <1>1 DEF TableOK
<1>6. FrameOK'
  <2>1. ASSUME NEW s \in Slots, pcb[s].ctx.kind = "frame" PROVE s \in Pids
    <3>1. s # 0 /\ pcb[s].pid = s
      BY <2>1 DEF FrameOK
    <3> QED
      BY <3>1, Numbers, Counters DEF TableOK, VarsOK, Pids
  <2> QED
    BY <1>1, <1>3, <2>1, Small DEF FrameOK
<1>7. ZeroOK'
  BY <1>1, <1>3, Small DEF ZeroOK
<1>8. KmainOK'
  <2>1. pc[Kmain] = "current" => cpu' # sw[Kmain].next
    <3>1. sw[Kmain].next \in Slots /\ Halted \notin Slots
      BY SwSlots, Small, Numbers
    <3> QED
      BY <1>1, <3>1 DEF KmainOK
  <2> QED
    BY <1>1, <2>1 DEF KmainOK, Used
<1>9. KmainRuns'
  BY <1>3 DEF KmainRuns
<1>10. UserOK'
  <2>1. ASSUME NEW u \in Pids PROVE UserOf(u)'
    <3>1. UserOf(u) /\ (cpu' = u => cpu = u)
      BY <1>3, Small DEF UserOK
    <3> QED
      BY <1>1, <3>1 DEF UserOf
  <2> QED
    BY <2>1 DEF UserOK
<1>11. IdleOK'
  BY <1>3 DEF IdleOK
<1>12. RootsOK' /\ StacksOK'
  <2>1. SameUse
    BY <1>1 DEF SameUse
  <2> QED
    BY <1>1, <1>2, <2>1, UseKept
<1> QED
  BY <1>2, <1>4, <1>5, <1>6, <1>7, <1>8, <1>9, <1>10, <1>11, <1>12

-----------------------------------------------------------------------------
(* The invariant holds.                                                    *)

(* It holds at first.                                                      *)
LEMMA PInit == Init => PInv
<1> SUFFICES ASSUME Init PROVE PInv
  OBVIOUS
<1>0. /\ Idle \in Pcb /\ NoPcb \in Pcb
  <2>1. Fresh \in Contexts /\ Spent \in Contexts
    BY Small DEF Fresh, Spent, Ctx, Contexts
  <2>2. Booted.cr3 = Boot /\ Boot \in Roots
    BY DEF Booted, Roots
  <2> QED
    BY <2>1, <2>2 DEF Idle, NoPcb, Pcb, States, pml4_get_current
<1>1. /\ pcb \in [Slots -> Pcb] /\ pcb[0] = Idle /\ \A s \in Slots \ {0} : pcb[s] = NoPcb
      /\ current_pid = 0 /\ pcb_count = 1 /\ next_pid = 1 /\ cpu = Kmain /\ child = 0
      /\ kstacks = {} /\ vm = Booted
      /\ pc = [t \in Threads |-> IF t = Kmain THEN "loop" ELSE "user"]
      /\ sw = [t \in Threads |-> NoSwitch]
  BY <1>0, Small DEF Init
<1>2. /\ pc \in [Threads -> KmainPc \union UserPc] /\ pc[Kmain] = "loop"
      /\ \A t \in Pids : pc[t] = "user"
  BY <1>1, Small DEF KmainPc, UserPc
<1>3. vm \in Tables /\ vm.cr3 = Boot /\ TablesOK(vm)
  <2>1. vm \in Tables /\ vm.cr3 = Boot /\ vm.roots = {} /\ vm.used = {} /\ vm.entry[Boot] = None
    BY <1>1 DEF Booted, Tables, Roots
  <2> QED
    BY <2>1 DEF TablesOK, Tops
<1>4. /\ NoPcb.pid = -1 /\ NoPcb.state = "EMPTY" /\ NoPcb.ctx.kind = "spent"
      /\ Idle.pid = 0 /\ Idle.state = "READY" /\ ~Idle.is_user /\ Idle.ctx.kind = "idle"
      /\ Idle.pml4 = Boot
  BY DEF NoPcb, Idle, Fresh, Spent, Ctx, pml4_get_current, Booted
<1>5. /\ sw \in [Threads -> Switches] /\ \A t \in Threads : sw[t].ret = "hlt"
  BY <1>1, Small DEF NoSwitch, Switches
<1>6. VarsOK
  BY <1>1, <1>2, <1>3, <1>5, Numbers DEF VarsOK, KmainPc, UserPc
<1>7. TableOK
  BY <1>1, <1>4, Numbers DEF TableOK
<1>8. FrameOK
  BY <1>1, <1>2, <1>4, Small DEF FrameOK
<1>9. ZeroOK
  BY <1>1, <1>4 DEF ZeroOK
<1>10. KmainOK
  BY <1>2 DEF KmainOK
<1>11. KmainRuns
  BY <1>1, <1>2, <1>3, <1>4 DEF KmainRuns
<1>12. UserOK
  BY <1>1, <1>2, <1>5, Small DEF UserOK, UserOf
<1>13. IdleOK
  BY <1>1, Small DEF IdleOK
<1>14. Alive = {0}
  BY <1>1, <1>2, <1>4, Small DEF Alive
<1>15. RootsOK
  BY <1>1, <1>3, <1>4, <1>14 DEF RootsOK, Tops
<1>16. StacksOK
  BY <1>1, <1>14, Small DEF StacksOK
<1> QED
  BY <1>3, <1>6, <1>7, <1>8, <1>9, <1>10, <1>11, <1>12, <1>13, <1>15, <1>16 DEF PInv

(* A step after which slots are pids keeps it.                             *)
LEMMA Steps ==
    ASSUME PInv, [Next]_vars, ~mixed, ~mixed'
    PROVE  PInv'
<1>1. CASE UNCHANGED vars
  <2>1. VarsOK' /\ TableOK' /\ FrameOK' /\ ZeroOK'
    BY <1>1 DEF vars, table, machine, memory, PInv, VarsOK, TableOK, FrameOK, ZeroOK
  <2>2. KmainOK' /\ KmainRuns' /\ UserOK' /\ IdleOK'
    BY <1>1 DEF vars, table, machine, memory, PInv, KmainOK, KmainRuns, UserOK, UserOf,
                IdleOK, Used
  <2>3. TablesOK(vm)' /\ RootsOK' /\ StacksOK'
    BY <1>1 DEF vars, table, machine, memory, PInv, TablesOK, RootsOK, StacksOK, Alive, Tops
  <2> QED
    BY <2>1, <2>2, <2>3 DEF PInv
<1>2. CASE Next
  <2>1. SlotIsPid'
    BY <1>2 DEF Next
  <2>2. CASE Call
    BY <2>1, <2>2, QuietInv, SpawnInv, YieldInv DEF Call
  <2>3. CASE SchedulerStep(Kmain)
    <3>1. CASE Leave(Kmain)
      BY <3>1, KmainStays, KmainLeaves
    <3> QED
      BY <2>3, <3>1, KmainFinds, KmainEnterInv, KmainSwitchInv DEF SchedulerStep
  <2>4. CASE Kernel
    BY <2>1, <2>3, <2>4, QuietInv, CreateInv, FrameInv, ReadyInv, SwitchToInv, FreeInv,
       ReapInv, BlockInv DEF Kernel
  <2>5. CASE Tick
    BY <2>5, TickInv
  <2>6. ASSUME NEW t \in Pids, User(t) PROVE PInv'
    <3>1. CASE SchedulerStep(t)
      BY <3>1, UserFinds, UserLeaves, UserEnterInv, UserSwitchInv DEF SchedulerStep
    <3> QED
      BY <2>6, <3>1, ExitInv, ExitWakeInv, ExitParentInv, MapInv DEF User
  <2> QED
    BY <1>2, <2>2, <2>4, <2>5, <2>6 DEF Next
<1> QED
  BY <1>1, <1>2

(* The inductive invariant of the process table, until a process is in a   *)
(* slot that is not its pid.                                               *)
THEOREM ProcessInvariant == Spec => [](mixed \/ PInv)
<1>1. Init => mixed \/ PInv
  BY PInit
<1>2. (mixed \/ PInv) /\ [Next]_vars => (mixed \/ PInv)'
  <2>1. [Next]_vars /\ mixed => mixed'
    BY DEF Next, vars
  <2> QED
    BY <2>1, Steps
<1> QED
  BY <1>1, <1>2, PTL DEF Spec

(* While slots are pids, the kernel stacks in use are those of the table,  *)
(* whatever the order of starting, ending, waiting and the timer.          *)
THEOREM StacksAreTracked == Spec => []StacksTracked
<1>1. (mixed \/ PInv) => StacksTracked
  BY DEF PInv, StacksOK, StacksTracked
<1> QED
  BY <1>1, ProcessInvariant, PTL

(* While slots are pids, the program that runs is the one current_pid      *)
(* names, it is RUNNING, and its interrupts use its own stack.             *)
THEOREM IdentityHolds == Spec => []Identity
<1>1. (mixed \/ PInv) => Identity
  BY DEF PInv, UserOK, UserOf, Identity
<1> QED
  BY <1>1, ProcessInvariant, PTL

(* While slots are pids, every page table that a process or CR3 leads to   *)
(* is in use as that table and as no other.                                *)
THEOREM TablesAreBacked == Spec => []TablesBacked
<1>1. (mixed \/ PInv) => TablesBacked
  <2> SUFFICES ASSUME PInv PROVE TablesBacked
    BY DEF TablesBacked
  <2> DEFINE roots == {pcb[s].pml4 : s \in Alive} \union {vm.cr3, Boot}
             pdpts == {vm.entry[r] : r \in roots} \ {None}
             pds   == {vm.entry[p] : p \in pdpts} \ {None}
  <2>1. roots \subseteq Tops(vm)
    BY DEF PInv, RootsOK, Tops
  <2>2. vm.roots \subseteq vm.used /\ Boot \notin vm.used
    BY Numbers DEF PInv, TablesOK, VarsOK, Tables
  <2>3. ASSUME NEW p \in pdpts PROVE p \in vm.used \ vm.roots
    <3>1. PICK r \in Tops(vm) : p = vm.entry[r] /\ p # None
      BY <2>1
    <3> QED
      BY <3>1 DEF PInv, TablesOK
  <2>4. ASSUME NEW d \in pds
        PROVE  d \in vm.used \ vm.roots /\ \A q \in Tops(vm) : vm.entry[q] # d
    <3>1. PICK r \in Tops(vm) : vm.entry[r] # None /\ d = vm.entry[vm.entry[r]] /\ d # None
      BY <2>1
    <3> QED
      BY <3>1 DEF PInv, TablesOK
  <2>5. \A p \in pdpts : \E q \in Tops(vm) : p = vm.entry[q]
    BY <2>1
  <2>6. \A s, o \in Alive : pcb[s].pml4 = pcb[o].pml4 => s = o \/ pcb[s].pml4 = Boot
    BY DEF PInv, RootsOK
  <2>7. TablesBacked = (mixed \/
           (/\ (roots \ {Boot}) \union pdpts \union pds \subseteq vm.used
            /\ roots \intersect pdpts = {} /\ roots \intersect pds = {}
            /\ pdpts \intersect pds = {}
            /\ \A s, o \in Alive : pcb[s].pml4 = pcb[o].pml4 => s = o \/ pcb[s].pml4 = Boot))
    BY DEF TablesBacked
  <2> HIDE DEF roots, pdpts, pds
  <2>8. (roots \ {Boot}) \union pdpts \union pds \subseteq vm.used
    BY <2>1, <2>2, <2>3, <2>4 DEF Tops
  <2>9. roots \intersect pdpts = {} /\ roots \intersect pds = {}
    BY <2>1, <2>2, <2>3, <2>4 DEF Tops
  <2>10. pdpts \intersect pds = {}
    BY <2>4, <2>5
  <2> QED
    BY <2>6, <2>7, <2>8, <2>9, <2>10
<1> QED
  BY <1>1, ProcessInvariant, PTL

=============================================================================
