------------------------------- MODULE Traps -------------------------------
(***************************************************************************)
(* The way into the kernel and back: the interrupt table of kernel/idt.c   *)
(* and the stubs of kernel/idt.asm and drivers/keyboard_asm.asm, one       *)
(* instruction a step.  The gate of int 0x80 leaves interrupts on, so the  *)
(* timer and the keyboard come between any two instructions of a system    *)
(* call and inside the C code it calls; they run with interrupts off.      *)
(*                                                                         *)
(* The program of ring 3 keeps in each register a value of its own, named  *)
(* like the register.  The frame the processor pushes is one word.         *)
(***************************************************************************)
EXTENDS Integers, Sequences

CONSTANT Exceptions     \* the exceptions that are raised

ASSUME ExceptionAssumption == Exceptions \subseteq 0 .. 31

VARIABLES
    regs,       \* the general registers, rsp left out
    stack,      \* the kernel stack, its top last
    code,       \* the stub that runs, or "ring3"
    at,         \* the instruction of the stub that comes next
    intr,       \* RFLAGS.IF: whether interrupts are on
    entered     \* history: the registers at each entry that has not returned

vars == <<regs, stack, code, at, intr, entered>>

CallerSaved == {"rax", "rcx", "rdx", "rsi", "rdi", "r8", "r9", "r10", "r11"}
CalleeSaved == {"rbx", "rbp", "r12", "r13", "r14", "r15"}
Registers == CallerSaved \union CalleeSaved

Last(s) == s[Len(s)]
Front(s) == SubSeq(s, 1, Len(s) - 1)

-----------------------------------------------------------------------------
(* The stubs: what they push, and what they pop after the C code           *)

syscall_isr ==
    [push |-> <<"r15", "r14", "r13", "r12", "rbp", "rbx", "r11", "r10",
                "r9", "r8", "rdi", "rsi", "rdx", "rcx", "rax">>,
     pop  |-> <<"rax", "rcx", "rdx", "rsi", "rdi", "r8", "r9", "r10", "r11",
                "rbx", "rbp", "r12", "r13", "r14", "r15">>]

(* Mutant: rbx and rbp come back in the order of the system call stub.     *)
irq0_swapped ==
    [push |-> <<"rax", "rcx", "rdx", "rsi", "rdi", "r8", "r9", "r10", "r11",
                "rbx", "rbp", "r12", "r13", "r14", "r15">>,
     pop  |-> <<"r15", "r14", "r13", "r12", "rbx", "rbp", "r11", "r10",
                "r9", "r8", "rdi", "rsi", "rdx", "rcx", "rax">>]

irq0 ==
    [push |-> <<"rax", "rcx", "rdx", "rsi", "rdi", "r8", "r9", "r10", "r11",
                "rbx", "rbp", "r12", "r13", "r14", "r15">>,
     pop  |-> <<"r15", "r14", "r13", "r12", "rbp", "rbx", "r11", "r10",
                "r9", "r8", "rdi", "rsi", "rdx", "rcx", "rax">>]

keyboard_irq_handler ==
    [push |-> <<"rax", "rbx", "rcx", "rdx", "rsi", "rdi", "rbp", "r8", "r9",
                "r10", "r11", "r12", "r13", "r14", "r15">>,
     pop  |-> <<"r15", "r14", "r13", "r12", "r11", "r10", "r9", "r8", "rbp",
                "rdi", "rsi", "rdx", "rcx", "rbx", "rax">>]

(* Its C code does not return: idt_handler stops the machine.              *)
isr_common ==
    [push |-> <<"rax", "rbx", "rcx", "rdx", "rsi", "rdi", "rbp", "r8", "r9",
                "r10", "r11", "r12", "r13", "r14", "r15">>]

Stub == [syscall_isr |-> syscall_isr, irq0 |-> irq0,
         keyboard_irq_handler |-> keyboard_irq_handler, isr_common |-> isr_common]

PUSHED == Len(syscall_isr.push)     \* 15 in all of them
Call == PUSHED + 1                  \* the places of call, of the C code,
InC == PUSHED + 2
Iretq == 2 * PUSHED + 3             \* and of iretq behind the pops

(* The exceptions for which the processor pushes an error code; the stubs  *)
(* of the others push a 0, so that idt_handler finds one layout.           *)
WithCode == {8, 10, 11, 12, 13, 14, 17}

-----------------------------------------------------------------------------
(* The table                                                               *)

(* The vectors of the sixteen lines, behind the exceptions.                *)
pic_init == [irq \in 0 .. 15 |-> IF irq < 8 THEN 32 + irq ELSE 40 + irq - 8]

IRQ0 == pic_init[0]
IRQ1 == pic_init[1]
Int80 == 128

Gate(stub, type, dpl) == [stub |-> stub, type |-> type, dpl |-> dpl]

idt_set_entry(idt, num, gate) == [idt EXCEPT ![num] = gate]

idt_init ==
    idt_set_entry([v \in 0 .. 255 |-> Gate(IF v < 32 THEN "isr_common" ELSE "irq0", "int", 0)],
                  Int80, Gate("syscall_isr", "trap", 3))

idt_set_irq1(idt) == idt_set_entry(idt, IRQ1, Gate("keyboard_irq_handler", "int", 0))

(* kmain has called both before it turns interrupts on.                    *)
Idt == idt_set_irq1(idt_init)

-----------------------------------------------------------------------------
UserRegs == [r \in Registers |-> r]

Init ==
    /\ regs = UserRegs
    /\ stack = <<>>
    /\ code = "ring3" /\ at = 0
    /\ intr = TRUE
    /\ entered = <<>>

(* The processor goes through gate v and, for an exception, the code and   *)
(* the number are pushed.                                                  *)
Enter(v) ==
    /\ stack' = Append(stack, [code |-> code, at |-> at, intr |-> intr])
                    \o (IF v > 31 THEN <<>>
                        ELSE <<IF v \in WithCode THEN "code" ELSE "zero", v>>)
    /\ code' = Idt[v].stub /\ at' = 1
    /\ intr' = (intr /\ Idt[v].type = "trap")
    /\ entered' = Append(entered, regs)
    /\ UNCHANGED regs

Halted == code = "isr_common" /\ at = InC

(* The timer, the keyboard and any other device.                           *)
Interrupt(irq) == intr /\ Enter(pic_init[irq])

(* A program may use the gates of ring 3 only.                             *)
IntN(v) == code = "ring3" /\ Enter(IF Idt[v].dpl = 3 THEN v ELSE 13)

(* A fault of the program, or of the C code of a system call.              *)
Exception(v) == (code = "ring3" \/ (at = InC /\ ~Halted)) /\ Enter(v)

(* The program goes on and gives every register a new value of its own.    *)
Program ==
    /\ code = "ring3"
    /\ regs' = UserRegs
    /\ UNCHANGED <<stack, code, at, intr, entered>>

Push ==
    /\ at \in 1 .. PUSHED
    /\ stack' = Append(stack, regs[Stub[code].push[at]])
    /\ at' = at + 1
    /\ UNCHANGED <<regs, code, intr, entered>>

(* The C code is entered: it keeps the registers it must give back on the  *)
(* stack and uses all of them.                                             *)
CallC ==
    /\ at = Call
    /\ stack' = Append(stack, [r \in CalleeSaved |-> regs[r]])
    /\ regs' = [r \in Registers |-> "c"]
    /\ at' = InC
    /\ UNCHANGED <<code, intr, entered>>

(* syscall_handler(regs) stores the result in regs[14].                    *)
Answered(s) == [s EXCEPT ![Len(s) - 14] = "result"]

ReturnC ==
    /\ at = InC /\ ~Halted
    /\ regs' = [r \in Registers |-> IF r \in CalleeSaved THEN Last(stack)[r] ELSE "c"]
    /\ stack' = IF code = "syscall_isr" THEN Answered(Front(stack)) ELSE Front(stack)
    /\ at' = at + 1
    /\ UNCHANGED <<code, intr, entered>>

Pop ==
    /\ at \in InC + 1 .. Iretq - 1
    /\ regs' = [regs EXCEPT ![Stub[code].pop[at - InC]] = Last(stack)]
    /\ stack' = Front(stack)
    /\ at' = at + 1
    /\ UNCHANGED <<code, intr, entered>>

Return ==
    /\ at = Iretq
    /\ code' = Last(stack).code /\ at' = Last(stack).at /\ intr' = Last(stack).intr
    /\ stack' = Front(stack)
    /\ entered' = Front(entered)
    /\ UNCHANGED regs

Next ==
    \/ \E irq \in {0, 1, 8} : Interrupt(irq)
    \/ \E v \in {IRQ0, Int80} : IntN(v)
    \/ \E v \in Exceptions : Exception(v)
    \/ Program \/ Push \/ CallC \/ ReturnC \/ Pop \/ Return

Spec == Init /\ [][Next]_vars

-----------------------------------------------------------------------------
(* Whoever is interrupted, the program, a stub between two instructions or *)
(* the C code, gets every register back; the program that made a system    *)
(* call finds its result in R15 and the other registers as they were.      *)
RegistersKept ==
    at = Iretq =>
        regs = [Last(entered) EXCEPT !["r15"] =
                    IF code = "syscall_isr" THEN "result" ELSE @]

(* kernel/syscall.h: "Retorno em RAX!".  The program that comes back from  *)
(* a system call finds the result in RAX.                                  *)
ReturnInRax == code = "syscall_isr" /\ at = Iretq => regs["rax"] = "result"

=============================================================================
