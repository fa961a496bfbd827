---------------------------- MODULE TrapsProofs ----------------------------
(***************************************************************************)
(* Whoever is interrupted gets its registers back, however deep the        *)
(* entries into the kernel are nested and whichever exceptions are raised. *)
(***************************************************************************)
EXTENDS Traps, SequenceTheorems, TLAPS

Returning == {"syscall_isr", "irq0", "keyboard_irq_handler"}
Stubs == Returning \union {"isr_common"}

Values == Registers \union {"c", "result"}
RegFiles == [Registers -> Values]
Frames == [code : Stubs \union {"ring3"}, at : 0 .. Iretq, intr : BOOLEAN]
Word == Values \union Frames \union [CalleeSaved -> Values]
            \union {"code", "zero"} \union 0 .. 31

-----------------------------------------------------------------------------
(* The layers of the stack                                                 *)

(* The frame of an entry lies at lo; what its stub pushes lies behind it,  *)
(* for an exception behind the code and the number.                        *)
Base(c, lo) == IF c = "isr_common" THEN lo + 2 ELSE lo

(* The registers that an entry through stub c gives back.                  *)
Given(c, E) == [E EXCEPT !["r15"] = IF c = "syscall_isr" THEN "result" ELSE @]

(* The three parts of stub c, which has come to instruction p and found    *)
(* the registers E: its words begin behind o, the registers are R now, and *)
(* hi is the first place that is not in use.                               *)
Parts(s, c, p, E, R, o, hi) ==
    /\ c \in Stubs /\ p \in 1 .. Iretq
    /\ c = "isr_common" => p <= InC
    /\ p <= Call =>
        /\ hi = o + p /\ R = E
        /\ \A i \in 1 .. p - 1 : s[o + i] = E[Stub[c].push[i]]
    /\ p = InC =>
        /\ hi = o + InC
        /\ \A i \in 1 .. PUSHED : s[o + i] = E[Stub[c].push[i]]
        /\ s[o + Call] = [r \in CalleeSaved |-> E[r]]
    /\ p > InC =>
        /\ hi = o + (Iretq + 1 - p)
        /\ \A i \in 1 .. Iretq - p : s[o + i] = Given(c, E)[Stub[c].push[i]]
        /\ \A i \in Iretq - p + 1 .. PUSHED :
                R[Stub[c].push[i]] = Given(c, E)[Stub[c].push[i]]

(* An entry whose frame lies at lo and whose stub has come to where f says; *)
(* hi is the place of the next frame.                                      *)
Layer(s, f, E, R, lo, hi) == Parts(s, f.code, f.at, E, R, Base(f.code, lo), hi)

(* The stack W is made of layers, with a frame at each place of b; E has   *)
(* the registers at the time of each frame.  Only the program makes system *)
(* calls.                                                                  *)
Layers(W, E, b) ==
    /\ W \in Seq(Word) /\ E \in Seq(RegFiles) /\ b \in Seq(Nat)
    /\ Len(b) = Len(E) /\ Len(b) > 0
    /\ b[1] = 1 /\ b[Len(b)] = Len(W)
    /\ W[1].code = "ring3" /\ W[1].at = 0
    /\ \A k \in 1 .. Len(b) : b[k] \in 1 .. Len(W) /\ W[b[k]] \in Frames
    /\ \A k, l \in 1 .. Len(b) : k < l => b[k] < b[l]
    /\ \A k \in 1 .. Len(b) - 1 :
            /\ Layer(W, W[b[k + 1]], E[k], E[k + 1], b[k], b[k + 1])
            /\ k > 1 => W[b[k + 1]].code # "syscall_isr"

(* The stack and the history as an interrupt at this point would leave them. *)
Now == [code |-> code, at |-> at, intr |-> intr]
Words == Append(stack, Now)
Saved == Append(entered, regs)

(* The inductive invariant.                                                *)
TrapsInv ==
    /\ stack \in Seq(Word) /\ entered \in Seq(RegFiles) /\ regs \in RegFiles
    /\ Now \in Frames
    /\ \E b \in Seq(Nat) : Layers(Words, Saved, b)

-----------------------------------------------------------------------------
(* The stubs and the table                                                 *)

LEMMA Numbers == PUSHED = 15 /\ Call = 16 /\ InC = 17 /\ Iretq = 33
BY DEF PUSHED, Call, InC, Iretq, syscall_isr

LEMMA PushInfo ==
    ASSUME NEW c \in Stubs
    PROVE  \A i \in 1 .. PUSHED : Stub[c].push[i] \in Registers
<1> USE Numbers DEF Stub, Registers, CallerSaved, CalleeSaved
<1>1. CASE c = "syscall_isr"
  BY <1>1 DEF syscall_isr
<1>2. CASE c = "irq0"
  BY <1>2 DEF irq0
<1>3. CASE c = "keyboard_irq_handler"
  BY <1>3 DEF keyboard_irq_handler
<1>4. CASE c = "isr_common"
  BY <1>4 DEF isr_common
<1> QED
  BY <1>1, <1>2, <1>3, <1>4 DEF Stubs, Returning

(* The registers come back in the opposite order of the pushes, each once. *)
LEMMA PopInfo ==
    ASSUME NEW c \in Returning
    PROVE  /\ \A i \in 1 .. PUSHED : Stub[c].pop[i] = Stub[c].push[PUSHED + 1 - i]
           /\ \A i, j \in 1 .. PUSHED : Stub[c].push[i] = Stub[c].push[j] => i = j
           /\ \A r \in Registers : \E i \in 1 .. PUSHED : Stub[c].push[i] = r
<1> DEFINE P == Stub[c].push  Q == Stub[c].pop
<1> USE Numbers
<1>1. CASE c = "syscall_isr"
  BY <1>1 DEF syscall_isr, Stub, Registers, CallerSaved, CalleeSaved
<1>2. CASE c = "irq0"
  BY <1>2 DEF irq0, Stub, Registers, CallerSaved, CalleeSaved
<1>3. CASE c = "keyboard_irq_handler"
  BY <1>3 DEF keyboard_irq_handler, Stub, Registers, CallerSaved, CalleeSaved
<1> QED
  BY <1>1, <1>2, <1>3 DEF Returning

LEMMA Table ==
    ASSUME NEW v \in 0 .. 255
    PROVE  /\ Idt[v].stub \in Stubs
           /\ (Idt[v].stub = "isr_common") <=> (v < 32)
           /\ (Idt[v].stub = "syscall_isr") <=> (v = 128)
           /\ (Idt[v].dpl = 3) <=> (v = 128)
<1> DEFINE I == [w \in 0 .. 255 |-> Gate(IF w < 32 THEN "isr_common" ELSE "irq0", "int", 0)]
           J == [I EXCEPT ![128] = Gate("syscall_isr", "trap", 3)]
           K == [J EXCEPT ![33] = Gate("keyboard_irq_handler", "int", 0)]
<1>1. Idt = K
  BY DEF Idt, idt_set_irq1, idt_init, idt_set_entry, IRQ1, Int80, pic_init
<1>2. K[v] = IF v = 33 THEN Gate("keyboard_irq_handler", "int", 0)
             ELSE IF v = 128 THEN Gate("syscall_isr", "trap", 3)
             ELSE Gate(IF v < 32 THEN "isr_common" ELSE "irq0", "int", 0)
  OBVIOUS
<1> QED
  BY <1>1, <1>2 DEF Gate, Stubs, Returning

-----------------------------------------------------------------------------
(* What the steps do to the layers                                         *)

(* A layer depends on the words behind its frame only.                     *)
LEMMA LayerSame ==
    ASSUME NEW s, NEW t, NEW f, NEW E, NEW R, NEW lo \in Nat, NEW hi \in Nat,
           Layer(s, f, E, R, lo, hi),
           \A i \in lo + 1 .. hi - 1 : s[i] = t[i]
    PROVE  Layer(t, f, E, R, lo, hi)
BY Numbers DEF Layer, Parts, Base

LEMMA Below ==
    ASSUME NEW k \in Nat, NEW m \in Nat, 1 <= k, k < m
    PROVE  k \in 1 .. m - 1 /\ k \in 1 .. m /\ k + 1 \in 1 .. m /\ m > 1
OBVIOUS

LEMMA Between ==
    ASSUME NEW lo \in Nat, NEW top \in Nat, NEW hi \in 1 .. top, NEW i \in lo + 1 .. hi - 1
    PROVE  i \in 1 .. top
OBVIOUS

(* Every step leaves the first m frames of b where they are, and what lies *)
(* up to the last of them; an entry and a step of the innermost entry have *)
(* one frame more.                                                         *)
Joins(W, E, b, W1, E1, b1, m, n) ==
    /\ W1 \in Seq(Word) /\ E1 \in Seq(RegFiles) /\ b1 \in Seq(Nat)
    /\ m \in 1 .. Len(b) /\ n \in {m, m + 1}
    /\ Len(b1) = n /\ Len(E1) = n /\ b1[n] = Len(W1)
    /\ \A k \in 1 .. m : b1[k] = b[k]
    /\ m > 1 => \A k \in 1 .. m : E1[k] = E[k]
    /\ \A i \in 1 .. b[m] : W1[i] = W[i]
    /\ n > m => /\ Len(W1) > b[m] /\ W1[Len(W1)] \in Frames
                /\ Layer(W1, W1[Len(W1)], E1[m], E1[n], b[m], Len(W1))
                /\ m > 1 => W1[Len(W1)].code # "syscall_isr"

LEMMA LayersJoin ==
    ASSUME NEW W, NEW E, NEW b, NEW W1, NEW E1, NEW b1, NEW m, NEW n,
           Layers(W, E, b), Joins(W, E, b, W1, E1, b1, m, n)
    PROVE  Layers(W1, E1, b1)
<1>0. /\ W1 \in Seq(Word) /\ E1 \in Seq(RegFiles) /\ b1 \in Seq(Nat)
      /\ m \in 1 .. Len(b) /\ (n = m \/ n = m + 1)
      /\ Len(b1) = n /\ Len(E1) = n /\ b1[n] = Len(W1)
      /\ \A k \in 1 .. m : b1[k] = b[k]
      /\ m > 1 => \A k \in 1 .. m : E1[k] = E[k]
      /\ \A i \in 1 .. b[m] : W1[i] = W[i]
      /\ n > m => /\ Len(W1) > b[m] /\ W1[Len(W1)] \in Frames
                  /\ Layer(W1, W1[Len(W1)], E1[m], E1[n], b[m], Len(W1))
                  /\ m > 1 => W1[Len(W1)].code # "syscall_isr"
  BY DEF Joins
<1> USE <1>0
<1>1. /\ \A k \in 1 .. m : b[k] \in Nat /\ 1 <= b[k] /\ W[b[k]] \in Frames
      /\ \A k, l \in 1 .. m : k < l => b[k] < b[l]
      /\ m \in Nat /\ 1 <= m /\ Len(W1) \in Nat
      /\ b[1] = 1 /\ W[1].code = "ring3" /\ W[1].at = 0
  <2>1. /\ Len(b) \in Nat /\ b[1] = 1 /\ W[1].code = "ring3" /\ W[1].at = 0
        /\ \A k \in 1 .. Len(b) : b[k] \in 1 .. Len(W) /\ W[b[k]] \in Frames
        /\ \A k, l \in 1 .. Len(b) : k < l => b[k] < b[l]
    BY DEF Layers
  <2>2. m \in Nat /\ 1 <= m /\ m <= Len(b) /\ Len(W1) \in Nat
    BY <2>1
  <2>3. \A k \in 1 .. m : k \in 1 .. Len(b)
    BY <2>1, <2>2
  <2> QED
    BY <2>1, <2>2, <2>3
<1>2. ASSUME NEW k \in 1 .. m - 1
      PROVE  /\ Layer(W, W[b[k + 1]], E[k], E[k + 1], b[k], b[k + 1])
             /\ k > 1 => W[b[k + 1]].code # "syscall_isr"
  <2>1. k \in 1 .. Len(b) - 1
    BY <1>1
  <2> QED
    BY <2>1 DEF Layers
<1> PICK top \in Nat : top = b[m]
  BY <1>1
<1>3. \A k \in 1 .. m : b[k] \in 1 .. top /\ W1[b[k]] = W[b[k]]
  <2>1. TAKE k \in 1 .. m
  <2>2. b[k] \in Nat /\ 1 <= b[k] /\ (k < m => b[k] < top) /\ (k = m => b[k] = top)
    BY <1>1
  <2>3. b[k] \in 1 .. top
    BY <1>1, <2>2
  <2> QED
    BY <2>3
<1>4. top <= Len(W1)
  BY <1>1
<1>5. ASSUME NEW k \in 1 .. n, k > m
      PROVE  k = n /\ n = m + 1
  BY <1>1, <1>5
<1>6. \A k \in 1 .. n : b1[k] \in 1 .. Len(W1) /\ W1[b1[k]] \in Frames
  <2>1. TAKE k \in 1 .. n
  <2>2. CASE k \in 1 .. m
    <3>1. b1[k] = b[k] /\ b[k] \in 1 .. top /\ W1[b[k]] \in Frames
      BY <2>2, <1>1, <1>3
    <3> QED
      BY <3>1, <1>1, <1>4
  <2>3. CASE k > m
    <3>1. k = n /\ n = m + 1
      BY <2>3, <1>5
    <3>2. b1[k] = Len(W1) /\ Len(W1) > top /\ W1[Len(W1)] \in Frames
      BY <3>1, <1>1
    <3> QED
      BY <3>2, <1>1
  <2> QED
    BY <2>2, <2>3, <1>1
<1>7. \A k, l \in 1 .. n : k < l => b1[k] < b1[l]
  <2>1. SUFFICES ASSUME NEW k \in 1 .. n, NEW l \in 1 .. n, k < l
                 PROVE  b1[k] < b1[l]
    OBVIOUS
  <2>2. k \in 1 .. m /\ b1[k] = b[k]
    BY <1>1, <2>1
  <2>3. CASE l \in 1 .. m
    BY <2>1, <2>2, <2>3, <1>1
  <2>4. CASE l > m
    <3>1. l = n /\ n = m + 1 /\ b1[l] = Len(W1) /\ Len(W1) > top
      BY <2>4, <1>5, <1>1
    <3>2. b[k] \in 1 .. top
      BY <2>2, <1>3
    <3> QED
      BY <3>1, <3>2, <2>2, <1>1
  <2> QED
    BY <2>3, <2>4, <1>1
<1>8. ASSUME NEW k \in 1 .. n - 1
      PROVE  /\ Layer(W1, W1[b1[k + 1]], E1[k], E1[k + 1], b1[k], b1[k + 1])
             /\ k > 1 => W1[b1[k + 1]].code # "syscall_isr"
  <2>1. CASE k = m
    <3>1. n = m + 1
      BY <2>1, <1>1
    <3>2. b1[k] = b[m] /\ b1[k + 1] = Len(W1)
      BY <2>1, <3>1, <1>1
    <3> QED
      BY <2>1, <3>1, <3>2, <1>1
  <2>2. CASE k < m
    <3>1. k \in 1 .. m - 1 /\ k \in 1 .. m /\ k + 1 \in 1 .. m /\ m > 1
      <4>1. k \in Nat /\ 1 <= k /\ m \in Nat
        BY <1>1
      <4> QED
        BY <4>1, <2>2, Below
    <3>2. b1[k] = b[k] /\ b1[k + 1] = b[k + 1] /\ E1[k] = E[k] /\ E1[k + 1] = E[k + 1]
      BY <3>1
    <3>3. W1[b[k + 1]] = W[b[k + 1]] /\ b[k] \in Nat /\ b[k + 1] \in 1 .. top
      BY <3>1, <1>1, <1>3
    <3>4. PICK lo \in Nat, hi \in 1 .. top : lo = b[k] /\ hi = b[k + 1]
      BY <3>3
    <3>5. ASSUME NEW i \in lo + 1 .. hi - 1
          PROVE  W[i] = W1[i]
      <4>1. i \in 1 .. top
        BY Between
      <4> QED
        BY <4>1
    <3>6. Layer(W, W[b[k + 1]], E[k], E[k + 1], lo, hi)
      BY <3>1, <3>4, <1>2
    <3>7. Layer(W1, W[b[k + 1]], E[k], E[k + 1], lo, hi)
      BY <3>5, <3>6, LayerSame
    <3> QED
      BY <3>1, <3>2, <3>3, <3>4, <3>7, <1>2
  <2> QED
    BY <2>1, <2>2, <1>1
<1>9. b1[1] = 1 /\ W1[1].code = "ring3" /\ W1[1].at = 0
  BY <1>1, <1>3
<1>10. b1[Len(b1)] = Len(W1) /\ Len(b1) = Len(E1) /\ Len(b1) > 0
  BY <1>1
<1> QED
  BY <1>6, <1>7, <1>8, <1>9, <1>10 DEF Layers

-----------------------------------------------------------------------------
(* The innermost entry                                                     *)

LEMMA AppendInfo ==
    ASSUME NEW S, NEW s \in Seq(S), NEW e \in S
    PROVE  /\ Append(s, e) \in Seq(S) /\ Len(s) \in Nat
           /\ Len(Append(s, e)) = Len(s) + 1
           /\ \A i \in 1 .. Len(s) : Append(s, e)[i] = s[i] /\ s[i] \in S
           /\ Append(s, e)[Len(s) + 1] = e
BY AppendProperties

LEMMA FrontInfo ==
    ASSUME NEW S, NEW s \in Seq(S), Len(s) > 0
    PROVE  /\ Front(s) \in Seq(S) /\ Len(Front(s)) = Len(s) - 1
           /\ \A i \in 1 .. Len(s) - 1 : Front(s)[i] = s[i]
           /\ Last(s) \in S
<1>1. Len(s) \in Nat /\ \A i \in 1 .. Len(s) : s[i] \in S
  OBVIOUS
<1>2. \A i \in 1 .. Len(s) - 1 : s[i] \in S
  BY <1>1
<1>3. PICK m \in Nat : m = Len(s) - 1
  BY <1>1
<1>4. /\ SubSeq(s, 1, m) \in Seq(S)
      /\ Len(SubSeq(s, 1, m)) = IF 1 <= m THEN m - 1 + 1 ELSE 0
      /\ \A i \in 1 .. m - 1 + 1 : SubSeq(s, 1, m)[i] = s[1 + i - 1]
  BY <1>2, <1>3, SubSeqProperties
<1>5. Front(s) = SubSeq(s, 1, m)
  BY <1>3 DEF Front
<1>6. Len(Front(s)) = m /\ \A i \in 1 .. m : Front(s)[i] = s[i]
  BY <1>4, <1>5
<1> QED
  BY <1>1, <1>3, <1>4, <1>5, <1>6 DEF Last

LEMMA NowIs ==
    /\ Now.code = code /\ Now.at = at /\ Now.intr = intr
    /\ Now' = [code |-> code', at |-> at', intr |-> intr']
    /\ Words' = Append(stack', Now') /\ Saved' = Append(entered', regs')
BY DEF Now, Words, Saved

(* The frames and the place of the innermost one, lo.                      *)
Innermost(b, lo) ==
    /\ b \in Seq(Nat) /\ Layers(Words, Saved, b)
    /\ Len(b) = Len(entered) + 1
    /\ Len(entered) > 0 =>
        /\ lo \in 1 .. Len(stack) /\ lo = b[Len(entered)]
        /\ stack[lo] \in Frames
        /\ Layer(stack, Now, Last(entered), regs, lo, Len(stack) + 1)
        /\ Len(entered) > 1 => code # "syscall_isr"
    /\ Len(entered) = 0 => code = "ring3" /\ at = 0

LEMMA Current ==
    ASSUME TrapsInv
    PROVE  /\ Len(stack) \in Nat /\ Len(entered) \in Nat
           /\ Words \in Seq(Word) /\ Len(Words) = Len(stack) + 1
           /\ Words[Len(stack) + 1] = Now
           /\ \A i \in 1 .. Len(stack) : Words[i] = stack[i]
           /\ Saved \in Seq(RegFiles) /\ Len(Saved) = Len(entered) + 1
           /\ Saved[Len(entered) + 1] = regs
           /\ \A k \in 1 .. Len(entered) : Saved[k] = entered[k]
           /\ \E b, lo : Innermost(b, lo)
<1>0. Now \in Word
  BY DEF TrapsInv, Word
<1>1. /\ Words \in Seq(Word) /\ Len(Words) = Len(stack) + 1 /\ Len(stack) \in Nat
      /\ Words[Len(stack) + 1] = Now
      /\ \A i \in 1 .. Len(stack) : Words[i] = stack[i]
  <2>1. stack \in Seq(Word)
    BY DEF TrapsInv
  <2> QED
    BY <1>0, <2>1, AppendInfo DEF Words
<1>2. /\ Saved \in Seq(RegFiles) /\ Len(Saved) = Len(entered) + 1 /\ Len(entered) \in Nat
      /\ Saved[Len(entered) + 1] = regs
      /\ \A k \in 1 .. Len(entered) : Saved[k] = entered[k]
  <2>1. entered \in Seq(RegFiles) /\ regs \in RegFiles
    BY DEF TrapsInv
  <2> QED
    BY <2>1, AppendInfo DEF Saved
<1>3. PICK b \in Seq(Nat) : Layers(Words, Saved, b)
  BY DEF TrapsInv
<1>4. PICK d \in Nat, h \in Nat : d = Len(entered) /\ h = Len(stack)
  BY <1>1, <1>2
<1>5. /\ Len(b) = d + 1 /\ b[1] = 1 /\ b[d + 1] = h + 1
      /\ Words[1].code = "ring3" /\ Words[1].at = 0
      /\ \A k \in 1 .. d + 1 : b[k] \in 1 .. h + 1 /\ Words[b[k]] \in Frames
      /\ \A k, l \in 1 .. d + 1 : k < l => b[k] < b[l]
  BY <1>1, <1>2, <1>3, <1>4 DEF Layers
<1>6. ASSUME d > 0
      PROVE  /\ b[d] \in 1 .. h /\ stack[b[d]] \in Frames
             /\ Layer(stack, Now, Last(entered), regs, b[d], h + 1)
             /\ d > 1 => code # "syscall_isr"
  <2>0. d \in 1 .. d + 1 /\ d + 1 \in 1 .. d + 1 /\ d < d + 1
    BY <1>6
  <2>1. b[d] \in 1 .. h + 1 /\ Words[b[d]] \in Frames /\ b[d] < h + 1
    BY <2>0, <1>5
  <2>2. b[d] \in 1 .. h /\ stack[b[d]] \in Frames
    BY <2>1, <1>1, <1>4
  <2>3. d \in 1 .. Len(b) - 1
    BY <1>5, <1>6
  <2>4. /\ Layer(Words, Words[b[d + 1]], Saved[d], Saved[d + 1], b[d], b[d + 1])
        /\ d > 1 => Words[b[d + 1]].code # "syscall_isr"
    BY <2>3, <1>3 DEF Layers
  <2>5. /\ b[d + 1] = h + 1 /\ Words[h + 1] = Now /\ Saved[d + 1] = regs
        /\ Saved[d] = Last(entered)
    BY <2>0, <1>1, <1>2, <1>4, <1>5, <1>6 DEF Last
  <2>6. Layer(Words, Now, Last(entered), regs, b[d], h + 1)
    BY <2>4, <2>5
  <2>7. \A i \in b[d] + 1 .. (h + 1) - 1 : Words[i] = stack[i]
    BY <2>2, <1>1, <1>4
  <2>8. b[d] \in Nat /\ h + 1 \in Nat
    BY <2>2
  <2>9. Layer(stack, Now, Last(entered), regs, b[d], h + 1)
    BY <2>6, <2>7, <2>8, LayerSame
  <2> QED
    BY <2>2, <2>4, <2>5, <2>9, NowIs
<1>7. ASSUME d = 0
      PROVE  code = "ring3" /\ at = 0
  BY <1>1, <1>4, <1>5, <1>7, NowIs
<1>8. Innermost(b, b[d])
  BY <1>3, <1>4, <1>5, <1>6, <1>7 DEF Innermost
<1> QED
  BY <1>1, <1>2, <1>8

(* In the kernel there is an entry, in ring 3 there is none.               *)
LEMMA Inside ==
    ASSUME NEW b, NEW lo, TrapsInv, Innermost(b, lo)
    PROVE  /\ code = "ring3" <=> Len(entered) = 0
           /\ at # 0 => Len(entered) > 0
<1>1. Len(entered) \in Nat
  BY Current
<1>2. Len(entered) > 0 => code \in Stubs
  BY NowIs DEF Innermost, Layer, Parts
<1>3. code \in Stubs => code # "ring3"
  BY DEF Stubs, Returning
<1> QED
  BY <1>1, <1>2, <1>3 DEF Innermost

-----------------------------------------------------------------------------
(* The steps                                                               *)

LEMMA EnterInv ==
    ASSUME TrapsInv, NEW v \in 0 .. 255, Enter(v), v = 128 => Len(entered) = 0
    PROVE  TrapsInv'
<1>1. PICK b, lo : Innermost(b, lo)
  BY Current
<1>2. PICK extra \in Seq(Word), x \in Nat :
            /\ stack' = Words \o extra /\ x = Len(extra)
            /\ x = IF v > 31 THEN 0 ELSE 2
  <2>1. CASE v > 31
    <3>1. <<>> \in Seq(Word) /\ Len(<<>>) = 0 /\ 0 \in Nat
      BY EmptySeq
    <3>2. stack' = Words \o <<>>
      BY <2>1 DEF Enter, Words, Now
    <3>3. 0 = IF v > 31 THEN 0 ELSE 2
      BY <2>1
    <3> QED
      BY <3>1, <3>2, <3>3, Zenon
  <2>2. CASE ~ (v > 31)
    <3>1. PICK a : a = IF v \in WithCode THEN "code" ELSE "zero"
      OBVIOUS
    <3>2. stack' = Words \o <<a, v>>
      BY <2>2, <3>1 DEF Enter, Words, Now
    <3>3. v \in Word /\ a \in Word
      <4>1. v \in 0 .. 31
        BY <2>2
      <4>2. a \in {"code", "zero"}
        BY <3>1
      <4> QED
        BY <4>1, <4>2, Zenon DEF Word
    <3>4. <<a, v>> \in Seq(Word) /\ Len(<<a, v>>) = 2
      BY <3>3
    <3>5. 2 = (IF v > 31 THEN 0 ELSE 2) /\ 2 \in Nat
      BY <2>2
    <3> QED
      BY <3>2, <3>4, <3>5, Zenon
  <2> QED
    BY <2>1, <2>2
<1>4. /\ stack' \in Seq(Word) /\ Len(stack') = Len(Words) + x
      /\ \A i \in 1 .. Len(Words) : stack'[i] = Words[i]
  <2>1. Words \in Seq(Word) /\ Len(Words) \in Nat
    BY Current
  <2>2. /\ Words \o extra \in Seq(Word) /\ Len(Words \o extra) = Len(Words) + x
        /\ \A i \in 1 .. Len(Words) + x :
                (Words \o extra)[i] = IF i <= Len(Words) THEN Words[i] ELSE extra[i - Len(Words)]
    <3>1. Len(extra) = x
      BY <1>2
    <3> QED
      BY <2>1, <3>1, ConcatProperties
  <2> QED
    BY <1>2, <2>1, <2>2
<1>5. Now' \in Frames /\ Now'.code = Idt[v].stub /\ Now'.at = 1
  <2>1. Now' = [code |-> Idt[v].stub, at |-> 1, intr |-> intr /\ Idt[v].type = "trap"]
    BY NowIs DEF Enter
  <2>2. (intr /\ Idt[v].type = "trap") \in BOOLEAN
    OBVIOUS
  <2>3. Idt[v].stub \in Stubs
    BY Table
  <2>4. 1 \in 0 .. Iretq
    BY Numbers
  <2> QED
    BY <2>1, <2>2, <2>3, <2>4 DEF Frames
<1>6. entered' = Saved /\ entered' \in Seq(RegFiles) /\ regs' = regs /\ regs \in RegFiles
  BY Current DEF Enter, Saved, TrapsInv
<1>7. /\ Words' \in Seq(Word) /\ Len(Words') = Len(stack') + 1
      /\ Words'[Len(stack') + 1] = Now'
      /\ \A i \in 1 .. Len(stack') : Words'[i] = stack'[i]
  <2>1. Now' \in Word
    BY <1>5 DEF Word
  <2> QED
    BY <1>4, <2>1, AppendInfo, NowIs
<1>8. /\ Saved' \in Seq(RegFiles) /\ Len(Saved') = Len(Saved) + 1
      /\ Saved'[Len(Saved) + 1] = regs
      /\ \A k \in 1 .. Len(Saved) : Saved'[k] = Saved[k]
  BY <1>6, AppendInfo, NowIs
<1>9. PICK d \in Nat, h \in Nat : d = Len(entered) /\ h = Len(stack)
  BY Current
<1>10. /\ b \in Seq(Nat) /\ Len(b) = d + 1 /\ Layers(Words, Saved, b)
       /\ Len(Words) = h + 1 /\ Len(Saved) = d + 1 /\ Saved[d + 1] = regs
       /\ Len(Words') = h + 2 + x /\ Words'[h + 2 + x] = Now' /\ x \in Nat
       /\ \A i \in 1 .. h + 1 : Words'[i] = Words[i]
  <2>1. /\ b \in Seq(Nat) /\ Len(b) = d + 1 /\ Layers(Words, Saved, b)
        /\ Len(Words) = h + 1 /\ Len(Saved) = d + 1 /\ Saved[d + 1] = regs
        /\ Len(Words') = h + 2 + x /\ Words'[h + 2 + x] = Now' /\ x \in Nat
    <3>1. b \in Seq(Nat) /\ Len(b) = d + 1 /\ Layers(Words, Saved, b)
      BY <1>1, <1>9 DEF Innermost
    <3>2. Len(Words) = h + 1 /\ Len(Saved) = d + 1 /\ Saved[d + 1] = regs
      BY <1>9, Current
    <3>3. Len(stack') = h + 1 + x
      BY <1>4, <3>2
    <3>4. Len(Words') = h + 2 + x /\ Len(stack') + 1 = h + 2 + x
      BY <1>7, <3>3
    <3> QED
      BY <3>1, <3>2, <3>4, <1>7
  <2>2. ASSUME NEW i \in 1 .. h + 1 PROVE Words'[i] = Words[i]
    <3>1. i \in 1 .. Len(Words) /\ i \in 1 .. Len(stack')
      BY <2>1, <1>4
    <3> QED
      BY <3>1, <1>4, <1>7
  <2> QED
    BY <2>1, <2>2
<1>11. PICK b1 : b1 = Append(b, h + 2 + x)
  OBVIOUS
<1>12. /\ b1 \in Seq(Nat) /\ Len(b1) = d + 2 /\ b1[d + 2] = h + 2 + x
       /\ \A k \in 1 .. d + 1 : b1[k] = b[k]
  BY <1>10, <1>11, AppendInfo
<1>13. b[d + 1] = h + 1
  BY <1>10 DEF Layers
<1>14. Layer(Words', Now', regs, regs, h + 1, h + 2 + x)
  <2>1. Now'.code \in Stubs /\ (Now'.code = "isr_common" => x = 2)
            /\ (Now'.code # "isr_common" => x = 0)
    <3>1. x = IF v > 31 THEN 0 ELSE 2
      BY <1>2
    <3>2. Idt[v].stub \in Stubs /\ ((Idt[v].stub = "isr_common") <=> (v < 32))
      BY Table
    <3> QED
      BY <1>5, <3>1, <3>2
  <2> QED
    BY <2>1, <1>5, Numbers DEF Layer, Parts, Base
<1>15. d + 1 > 1 => Now'.code # "syscall_isr"
  <2>1. (Idt[v].stub = "syscall_isr") <=> (v = 128)
    BY Table
  <2> QED
    BY <2>1, <1>5, <1>9
<1>16. Layers(Words', Saved', b1)
  <2>1. /\ d + 1 \in 1 .. Len(b) /\ d + 2 \in Nat /\ d + 2 = (d + 1) + 1
        /\ Len(Saved') = d + 2 /\ Saved'[d + 2] = regs /\ Saved'[d + 1] = regs
        /\ \A k \in 1 .. d + 1 : Saved'[k] = Saved[k]
        /\ h + 2 + x > h + 1
    <3>1. d + 1 \in 1 .. Len(b) /\ d + 2 \in Nat /\ d + 2 = (d + 1) + 1 /\ h + 2 + x > h + 1
      <4>1. Len(b) = d + 1 /\ x \in Nat
        BY <1>10
      <4> QED
        BY <4>1
    <3>2. \A k \in 1 .. d + 1 : Saved'[k] = Saved[k]
      BY <1>8, <1>10
    <3>3. d + 1 \in 1 .. d + 1
      OBVIOUS
    <3> QED
      BY <3>1, <3>2, <3>3, <1>8, <1>10
  <2>2. /\ Len(Words') > b[d + 1] /\ Words'[Len(Words')] \in Frames
        /\ Layer(Words', Words'[Len(Words')], Saved'[d + 1], Saved'[d + 2], b[d + 1], Len(Words'))
        /\ d + 1 > 1 => Words'[Len(Words')].code # "syscall_isr"
    BY <2>1, <1>5, <1>10, <1>13, <1>14, <1>15
  <2>3. \A i \in 1 .. b[d + 1] : Words'[i] = Words[i]
    BY <1>10, <1>13
  <2>4. b1[d + 2] = Len(Words')
    BY <1>10, <1>12
  <2>5. Joins(Words, Saved, b, Words', Saved', b1, d + 1, d + 2)
    BY <2>1, <2>2, <2>3, <2>4, <1>7, <1>8, <1>12 DEF Joins
  <2> QED
    BY <2>5, <1>10, LayersJoin
<1> QED
  BY <1>4, <1>5, <1>6, <1>12, <1>16 DEF TrapsInv

(* A step of the stub or of the C code of the innermost entry.             *)
LEMMA StepInv ==
    ASSUME TrapsInv, NEW b, NEW lo, Innermost(b, lo), Len(entered) > 0,
           entered' = entered, code' = code, intr' = intr, at' \in 1 .. Iretq,
           stack' \in Seq(Word), regs' \in RegFiles,
           Len(stack') >= lo, \A i \in 1 .. lo : stack'[i] = stack[i],
           Layer(stack', Now', Last(entered), regs', lo, Len(stack') + 1)
    PROVE  TrapsInv'
<1>1. Now' \in Frames /\ Now'.code = code
  <2>1. Now \in Frames
    BY DEF TrapsInv
  <2>2. code \in Stubs \union {"ring3"} /\ intr \in BOOLEAN
    BY <2>1 DEF Now, Frames
  <2> QED
    BY <2>2, NowIs, Numbers DEF Frames
<1>2. PICK d \in Nat, h \in Nat, h1 \in Nat :
            d = Len(entered) /\ h = Len(stack) /\ h1 = Len(stack')
  BY Current
<1>3. /\ Words' \in Seq(Word) /\ Len(Words') = h1 + 1
      /\ Words'[h1 + 1] = Now'
      /\ \A i \in 1 .. h1 : Words'[i] = stack'[i]
  <2>1. Now' \in Word
    BY <1>1 DEF Word
  <2> QED
    BY <2>1, <1>2, AppendInfo, NowIs
<1>4. /\ Saved' \in Seq(RegFiles) /\ Len(Saved') = d + 1 /\ Saved'[d + 1] = regs'
      /\ \A k \in 1 .. d : Saved'[k] = entered[k]
      /\ entered' \in Seq(RegFiles)
  <2>1. entered \in Seq(RegFiles)
    BY DEF TrapsInv
  <2> QED
    BY <2>1, <1>2, AppendInfo, NowIs
<1>5. /\ b \in Seq(Nat) /\ Len(b) = d + 1 /\ Layers(Words, Saved, b)
      /\ lo \in 1 .. h /\ lo = b[d] /\ (d > 1 => code # "syscall_isr")
      /\ \A i \in 1 .. h : Words[i] = stack[i]
      /\ \A k \in 1 .. d : Saved[k] = entered[k]
  BY <1>2, Current DEF Innermost
<1>6. PICK b1 : b1 = [b EXCEPT ![d + 1] = h1 + 1]
  OBVIOUS
<1>7. /\ b1 \in Seq(Nat) /\ Len(b1) = d + 1 /\ b1[d + 1] = h1 + 1
      /\ \A k \in 1 .. d : b1[k] = b[k]
  <2>1. d + 1 \in 1 .. Len(b) /\ h1 + 1 \in Nat
    BY <1>5
  <2>2. \A k \in 1 .. d : k \in 1 .. Len(b) /\ k # d + 1
    <3>1. Len(b) = d + 1
      BY <1>5
    <3> QED
      BY <3>1
  <2> QED
    BY <2>1, <2>2, <1>5, <1>6, ExceptSeq
<1>8. \A i \in 1 .. lo : Words'[i] = Words[i]
  <2>1. TAKE i \in 1 .. lo
  <2>2. i \in 1 .. h /\ i \in 1 .. h1
    BY <1>2, <1>5
  <2> QED
    BY <2>2, <1>3, <1>5
<1>9. Layer(Words', Now', Last(entered), regs', lo, h1 + 1)
  <2>1. lo \in Nat /\ h1 + 1 \in Nat
    BY <1>5
  <2>2. ASSUME NEW i \in lo + 1 .. (h1 + 1) - 1 PROVE stack'[i] = Words'[i]
    <3>1. i \in 1 .. h1
      BY <2>1
    <3> QED
      BY <3>1, <1>3
  <2> QED
    BY <2>1, <2>2, <1>2, LayerSame
<1>10. Layers(Words', Saved', b1)
  <2>1. /\ d \in 1 .. Len(b) /\ d + 1 \in Nat /\ h1 + 1 > b[d] /\ d + 1 > d
        /\ \A k \in 1 .. d : Saved'[k] = Saved[k]
        /\ Saved'[d] = Last(entered)
    BY <1>2, <1>4, <1>5 DEF Last
  <2>2. /\ Len(Words') > b[d] /\ Words'[Len(Words')] \in Frames
        /\ Layer(Words', Words'[Len(Words')], Saved'[d], Saved'[d + 1], b[d], Len(Words'))
        /\ d > 1 => Words'[Len(Words')].code # "syscall_isr"
    BY <2>1, <1>1, <1>3, <1>4, <1>5, <1>9
  <2>3. \A i \in 1 .. b[d] : Words'[i] = Words[i]
    BY <1>5, <1>8
  <2>4. b1[d + 1] = Len(Words')
    BY <1>3, <1>7
  <2>5. Joins(Words, Saved, b, Words', Saved', b1, d, d + 1)
    BY <2>1, <2>2, <2>3, <2>4, <1>3, <1>4, <1>7 DEF Joins
  <2> QED
    BY <2>5, <1>5, LayersJoin
<1> QED
  BY <1>1, <1>4, <1>7, <1>10 DEF TrapsInv

(* What is known of the innermost entry.                                   *)
LEMMA Opened ==
    ASSUME TrapsInv, NEW b, NEW lo, Innermost(b, lo), at # 0
    PROVE  /\ Len(entered) > 0 /\ Last(entered) \in RegFiles
           /\ lo \in Nat /\ lo >= 1 /\ lo <= Len(stack) /\ Len(stack) \in Nat
           /\ stack \in Seq(Word) /\ stack[lo] \in Frames
           /\ regs \in RegFiles
           /\ Layer(stack, Now, Last(entered), regs, lo, Len(stack) + 1)
           /\ Base(code, lo) \in Nat /\ Base(code, lo) >= lo
           /\ code \in Stubs /\ at \in 1 .. Iretq
<1>1. Len(entered) > 0 /\ Len(stack) \in Nat
  BY Inside, Current
<1>2. /\ lo \in 1 .. Len(stack) /\ stack[lo] \in Frames
      /\ Layer(stack, Now, Last(entered), regs, lo, Len(stack) + 1)
  BY <1>1 DEF Innermost
<1>3. lo \in Nat /\ lo >= 1 /\ lo <= Len(stack)
  BY <1>1, <1>2
<1>4. stack \in Seq(Word) /\ regs \in RegFiles /\ entered \in Seq(RegFiles)
  BY DEF TrapsInv
<1>5. Last(entered) \in RegFiles
  BY <1>1, <1>4, FrontInfo
<1>6. Base(code, lo) \in Nat /\ Base(code, lo) >= lo
  BY <1>3 DEF Base
<1>7. code \in Stubs /\ at \in 1 .. Iretq
  BY <1>2, NowIs DEF Layer, Parts
<1> QED
  BY <1>1, <1>2, <1>3, <1>4, <1>5, <1>6, <1>7

LEMMA PushInv ==
    ASSUME TrapsInv, Push
    PROVE  TrapsInv'
<1>1. PICK b, lo : Innermost(b, lo)
  BY Current
<1>2. at \in 1 .. PUSHED /\ at # 0 /\ at \in Nat
  BY Numbers DEF Push
<1>0. PICK o \in Nat, h \in Nat : o = Base(code, lo) /\ h = Len(stack)
  BY <1>1, <1>2, Opened
<1>3. PICK E, w : /\ E = Last(entered) /\ o = Base(code, lo) /\ h = Len(stack)
                  /\ w = regs[Stub[code].push[at]]
  BY <1>0
<1>4. /\ h + 1 = o + at /\ regs = E /\ code \in Stubs
      /\ \A i \in 1 .. at - 1 : stack[o + i] = E[Stub[code].push[i]]
  <2>1. Parts(stack, code, at, E, regs, o, h + 1)
    BY <1>1, <1>2, <1>3, Opened, NowIs DEF Layer
  <2>2. at <= Call
    BY <1>2, Numbers
  <2> QED
    BY <2>1, <2>2, <1>2, Numbers DEF Parts
<1>5. w \in Word
  <2>1. regs \in [Registers -> Values]
    BY DEF TrapsInv, RegFiles
  <2>2. Stub[code].push[at] \in Registers
    BY <1>2, <1>4, PushInfo
  <2>3. w \in Values
    BY <2>1, <2>2, <1>3
  <2> QED
    BY <2>3, Zenon DEF Word
<1>6. /\ stack' = Append(stack, w) /\ at' = at + 1 /\ regs' = regs
      /\ code' = code /\ intr' = intr /\ entered' = entered
  BY <1>3 DEF Push
<1>7. /\ stack' \in Seq(Word) /\ Len(stack') = h + 1
      /\ \A i \in 1 .. h : stack'[i] = stack[i]
      /\ stack'[h + 1] = w
  BY <1>1, <1>2, <1>3, <1>5, <1>6, Opened, AppendInfo
<1>8. ASSUME NEW i \in 1 .. at
      PROVE  stack'[o + i] = E[Stub[code].push[i]]
  <2>1. CASE i = at
    BY <2>1, <1>3, <1>4, <1>7
  <2>2. CASE i # at
    <3>1. i \in 1 .. at - 1
      BY <2>2, <1>2
    <3>2. o + i \in 1 .. h
      BY <3>1, <1>2, <1>4
    <3> QED
      BY <3>1, <3>2, <1>4, <1>7
  <2> QED
    BY <2>1, <2>2
<1>9. Layer(stack', Now', E, regs', lo, Len(stack') + 1)
  <2>1. Now'.code = code /\ Now'.at = at + 1
    BY <1>6, NowIs
  <2>2. at + 1 \in 1 .. Iretq /\ at + 1 <= Call /\ at + 1 <= InC
    BY <1>2, Numbers
  <2>3. Len(stack') + 1 = o + (at + 1)
    BY <1>4, <1>7, <1>2
  <2>4. ~ (at + 1 = InC) /\ ~ (at + 1 > InC) /\ (at + 1) - 1 = at
    BY <1>2, Numbers
  <2> QED
    BY <2>1, <2>2, <2>3, <2>4, <1>3, <1>4, <1>6, <1>8 DEF Layer, Parts
<1>10. Len(stack') >= lo /\ (\A i \in 1 .. lo : stack'[i] = stack[i]) /\ at' \in 1 .. Iretq
  <2>1. lo \in Nat /\ lo <= h
    BY <1>1, <1>2, <1>3, Opened
  <2>2. \A i \in 1 .. lo : i \in 1 .. h
    BY <2>1
  <2>3. at' \in 1 .. Iretq
    BY <1>2, <1>6, Numbers
  <2> QED
    BY <2>1, <2>2, <2>3, <1>7
<1>11. regs' \in RegFiles /\ Len(entered) > 0
  BY <1>1, <1>2, <1>6, Opened
<1> QED
  BY <1>1, <1>3, <1>6, <1>7, <1>9, <1>10, <1>11, StepInv

LEMMA CallCInv ==
    ASSUME TrapsInv, CallC
    PROVE  TrapsInv'
<1>1. PICK b, lo : Innermost(b, lo)
  BY Current
<1>2. at = Call /\ at # 0
  BY Numbers DEF CallC
<1>0. PICK o \in Nat, h \in Nat : o = Base(code, lo) /\ h = Len(stack)
  BY <1>1, <1>2, Opened
<1>3. PICK E, w : /\ E = Last(entered) /\ o = Base(code, lo) /\ h = Len(stack)
                  /\ w = [r \in CalleeSaved |-> regs[r]]
  BY <1>0
<1>4. /\ h + 1 = o + Call /\ regs = E /\ code \in Stubs
      /\ \A i \in 1 .. PUSHED : stack[o + i] = E[Stub[code].push[i]]
  <2>1. Parts(stack, code, at, E, regs, o, h + 1)
    BY <1>1, <1>2, <1>3, Opened, NowIs DEF Layer
  <2>2. at <= Call
    BY <1>2, Numbers
  <2> QED
    BY <2>1, <2>2, <1>2, Numbers DEF Parts
<1>5. w \in Word
  <2>1. regs \in [Registers -> Values] /\ \A r \in CalleeSaved : r \in Registers
    BY DEF TrapsInv, RegFiles, Registers
  <2>2. w \in [CalleeSaved -> Values]
    BY <2>1, <1>3
  <2> QED
    BY <2>2, Zenon DEF Word
<1>6. /\ stack' = Append(stack, w) /\ at' = InC /\ regs' = [r \in Registers |-> "c"]
      /\ code' = code /\ intr' = intr /\ entered' = entered
  BY <1>3 DEF CallC
<1>7. /\ stack' \in Seq(Word) /\ Len(stack') = h + 1
      /\ \A i \in 1 .. h : stack'[i] = stack[i]
      /\ stack'[h + 1] = w
  BY <1>1, <1>2, <1>3, <1>5, <1>6, Opened, AppendInfo
<1>8. ASSUME NEW i \in 1 .. PUSHED
      PROVE  stack'[o + i] = E[Stub[code].push[i]]
  <2>1. o + i \in 1 .. h
    BY <1>4, Numbers
  <2> QED
    BY <2>1, <1>4, <1>7
<1>9. Layer(stack', Now', E, regs', lo, Len(stack') + 1)
  <2>1. Now'.code = code /\ Now'.at = InC
    BY <1>6, NowIs
  <2>2. InC \in 1 .. Iretq /\ InC <= InC /\ ~ (InC <= Call) /\ ~ (InC > InC)
    BY Numbers
  <2>3. Len(stack') + 1 = o + InC
    BY <1>4, <1>7, Numbers
  <2>4. stack'[o + Call] = [r \in CalleeSaved |-> E[r]]
    BY <1>3, <1>4, <1>7
  <2> QED
    BY <2>1, <2>2, <2>3, <2>4, <1>3, <1>4, <1>8 DEF Layer, Parts
<1>10. Len(stack') >= lo /\ (\A i \in 1 .. lo : stack'[i] = stack[i]) /\ at' \in 1 .. Iretq
  <2>1. lo \in Nat /\ lo <= h
    BY <1>1, <1>2, <1>3, Opened
  <2>2. \A i \in 1 .. lo : i \in 1 .. h
    BY <2>1
  <2> QED
    BY <2>1, <2>2, <1>6, <1>7, Numbers
<1>11. regs' \in RegFiles /\ Len(entered) > 0
  BY <1>1, <1>2, <1>6, Opened DEF RegFiles, Values
<1> QED
  BY <1>1, <1>3, <1>6, <1>7, <1>9, <1>10, <1>11, StepInv

LEMMA GivenIs ==
    ASSUME NEW E \in RegFiles, NEW c
    PROVE  /\ Given(c, E) \in RegFiles
           /\ \A r \in Registers :
                Given(c, E)[r] = IF c = "syscall_isr" /\ r = "r15" THEN "result" ELSE E[r]
<1>1. "r15" \in Registers /\ "result" \in Values
  BY DEF Registers, CalleeSaved, Values
<1> QED
  BY <1>1 DEF Given, RegFiles

(* Only the stubs that return come behind their C code.                    *)
LEMMA Returns ==
    ASSUME NEW c \in Stubs, c # "isr_common", NEW lo
    PROVE  c \in Returning /\ Base(c, lo) = lo
BY DEF Stubs, Base

LEMMA ReturnCInv ==
    ASSUME TrapsInv, ReturnC
    PROVE  TrapsInv'
<1>1. PICK b, lo : Innermost(b, lo)
  BY Current
<1>2. at = InC /\ at # 0 /\ code # "isr_common"
  BY Numbers DEF ReturnC, Halted
<1>0. PICK h \in Nat : h = Len(stack)
  BY Current
<1>3. PICK E, w : E = Last(entered) /\ h = Len(stack) /\ w = Last(stack)
  BY <1>0
<1>4. /\ Parts(stack, code, at, E, regs, lo, h + 1) /\ code \in Returning /\ code \in Stubs
      /\ lo \in Nat /\ lo >= 1 /\ E \in RegFiles
  <2>1. code \in Stubs /\ Layer(stack, Now, E, regs, lo, h + 1) /\ lo \in Nat /\ lo >= 1 /\ E \in RegFiles
    BY <1>1, <1>2, <1>3, Opened
  <2>2. code \in Returning /\ Base(code, lo) = lo
    BY <2>1, <1>2, Returns
  <2> QED
    BY <2>1, <2>2, NowIs DEF Layer
<1>5. /\ h + 1 = lo + InC /\ \A i \in 1 .. PUSHED : stack[lo + i] = E[Stub[code].push[i]]
      /\ stack[lo + Call] = [r \in CalleeSaved |-> E[r]]
  BY <1>2, <1>4 DEF Parts
<1>6. h = lo + 16 /\ h \in Nat /\ w = [r \in CalleeSaved |-> E[r]]
  BY <1>3, <1>4, <1>5, Numbers DEF Last
<1>7. regs' \in RegFiles
  <2>1. regs' = [r \in Registers |-> IF r \in CalleeSaved THEN w[r] ELSE "c"]
    BY <1>3 DEF ReturnC
  <2>2. \A r \in CalleeSaved : w[r] \in Values
    BY <1>4, <1>6 DEF RegFiles, Registers
  <2>3. "c" \in Values
    BY DEF Values
  <2> QED
    BY <2>1, <2>2, <2>3 DEF RegFiles
<1>8. PICK s : s = Front(stack)
  OBVIOUS
<1>9. s \in Seq(Word) /\ Len(s) = lo + 15 /\ \A i \in 1 .. lo + 15 : s[i] = stack[i]
  <2>1. stack \in Seq(Word) /\ Len(stack) > 0 /\ Len(stack) - 1 = lo + 15
    BY <1>3, <1>4, <1>6 DEF TrapsInv
  <2> QED
    BY <2>1, <1>8, FrontInfo
<1>10. /\ stack' \in Seq(Word) /\ Len(stack') = lo + 15
       /\ \A i \in 1 .. lo : stack'[i] = stack[i]
       /\ \A i \in 1 .. 15 : stack'[lo + i] = Given(code, E)[Stub[code].push[i]]
  <2>0. ASSUME NEW i \in 1 .. 15
        PROVE  /\ s[lo + i] = E[Stub[code].push[i]] /\ lo + i \in 1 .. lo + 15
               /\ Stub[code].push[i] \in Registers
    <3>1. lo + i \in 1 .. lo + 15 /\ i \in 1 .. PUSHED
      BY <1>4, Numbers
    <3> QED
      BY <3>1, <1>4, <1>5, <1>9, PushInfo
  <2>9. \A i \in 1 .. lo : i \in 1 .. lo + 15
    BY <1>4
  <2>1. CASE code # "syscall_isr"
    <3>1. stack' = s
      BY <2>1, <1>8 DEF ReturnC
    <3>2. \A i \in 1 .. 15 : Given(code, E)[Stub[code].push[i]] = E[Stub[code].push[i]]
      BY <2>0, <2>1, <1>4, GivenIs
    <3> QED
      BY <3>1, <3>2, <2>0, <2>9, <1>9
  <2>2. CASE code = "syscall_isr"
    <3>1. stack' = [s EXCEPT ![lo + 1] = "result"]
      <4>1. stack' = [s EXCEPT ![Len(s) - 14] = "result"]
        BY <2>2, <1>8 DEF ReturnC, Answered
      <4>2. Len(s) - 14 = lo + 1
        BY <1>4, <1>9
      <4> QED
        BY <4>1, <4>2
    <3>2. "result" \in Word /\ lo + 1 \in 1 .. Len(s)
      BY <1>4, <1>9 DEF Word, Values
    <3>3. /\ stack' \in Seq(Word) /\ Len(stack') = lo + 15
          /\ \A i \in 1 .. lo + 15 : stack'[i] = IF i = lo + 1 THEN "result" ELSE s[i]
      BY <3>1, <3>2, <1>9, ExceptSeq
    <3>4. \A i \in 1 .. lo : stack'[i] = stack[i]
      BY <3>3, <2>9, <1>4, <1>9
    <3>5. ASSUME NEW i \in 1 .. 15
          PROVE  stack'[lo + i] = Given(code, E)[Stub[code].push[i]]
      <4>1. (Stub[code].push[i] = "r15") <=> (i = 1)
        BY <2>2 DEF Stub, syscall_isr
      <4>2. Given(code, E)[Stub[code].push[i]]
                = IF i = 1 THEN "result" ELSE E[Stub[code].push[i]]
        BY <4>1, <2>0, <2>2, <1>4, GivenIs
      <4>3. stack'[lo + i] = IF i = 1 THEN "result" ELSE s[lo + i]
        <5>1. (lo + i = lo + 1) <=> (i = 1)
          BY <1>4
        <5> QED
          BY <5>1, <2>0, <3>3
      <4> QED
        BY <4>2, <4>3, <2>0
    <3> QED
      BY <3>3, <3>4, <3>5
  <2> QED
    BY <2>1, <2>2
<1>11. code' = code /\ intr' = intr /\ entered' = entered /\ at' = 18
  BY <1>2, Numbers DEF ReturnC
<1>12. Layer(stack', Now', E, regs', lo, Len(stack') + 1)
  <2>1. Now'.code = code /\ Now'.at = 18 /\ Base(code, lo) = lo
    BY <1>2, <1>4, <1>11, NowIs, Returns
  <2>2. Parts(stack', code, 18, E, regs', lo, lo + 16)
    BY <1>2, <1>4, <1>10, Numbers DEF Parts
  <2>3. Len(stack') + 1 = lo + 16
    BY <1>4, <1>10
  <2> QED
    BY <2>1, <2>2, <2>3 DEF Layer
<1>13. Len(stack') >= lo /\ at' \in 1 .. Iretq
  BY <1>4, <1>10, <1>11, Numbers
<1>14. Len(entered) > 0
  BY <1>1, <1>2, Opened
<1> QED
  BY <1>1, <1>3, <1>7, <1>10, <1>11, <1>12, <1>13, <1>14, StepInv

LEMMA PopInv ==
    ASSUME TrapsInv, Pop
    PROVE  TrapsInv'
<1>1. PICK b, lo : Innermost(b, lo)
  BY Current
<1>2. at \in 18 .. 32 /\ at # 0 /\ at > InC /\ at # InC /\ ~ (at <= Call) /\ ~ (at <= InC)
  BY Numbers DEF Pop
<1>0. PICK h \in Nat : h = Len(stack)
  BY Current
<1>3. PICK E, w : E = Last(entered) /\ h = Len(stack) /\ w = Last(stack)
  BY <1>0
<1>4. /\ Parts(stack, code, at, E, regs, lo, h + 1) /\ code \in Returning /\ code \in Stubs
      /\ lo \in Nat /\ lo >= 1 /\ E \in RegFiles /\ regs \in RegFiles
  <2>1. /\ code \in Stubs /\ Layer(stack, Now, E, regs, lo, h + 1) /\ lo \in Nat /\ lo >= 1
        /\ E \in RegFiles /\ regs \in RegFiles
    BY <1>1, <1>2, <1>3, Opened
  <2>2. code # "isr_common"
    BY <2>1, <1>2, NowIs DEF Layer, Parts
  <2>3. code \in Returning /\ Base(code, lo) = lo
    BY <2>1, <2>2, Returns
  <2> QED
    BY <2>1, <2>3, NowIs DEF Layer
<1>5. PICK j \in 1 .. 15 : j = 33 - at
  BY <1>2
<1>6. PICK G, P : G = Given(code, E) /\ P = Stub[code].push
  OBVIOUS
<1>7. /\ h + 1 = lo + (j + 1)
      /\ \A i \in 1 .. j : stack[lo + i] = G[P[i]]
      /\ \A i \in j + 1 .. 15 : regs[P[i]] = G[P[i]]
  <2>1. /\ h + 1 = lo + (Iretq + 1 - at)
        /\ \A i \in 1 .. Iretq - at : stack[lo + i] = G[P[i]]
        /\ \A i \in Iretq - at + 1 .. PUSHED : regs[P[i]] = G[P[i]]
    BY <1>2, <1>4, <1>6 DEF Parts
  <2>2. Iretq + 1 - at = j + 1 /\ Iretq - at = j /\ PUSHED = 15
    BY <1>2, <1>5, Numbers
  <2> QED
    BY <2>1, <2>2
<1>8. h = lo + j /\ w = G[P[j]]
  <2>1. h = lo + j
    BY <1>4, <1>7
  <2> QED
    BY <2>1, <1>3, <1>7 DEF Last
<1>9. /\ G \in RegFiles /\ \A i \in 1 .. 15 : P[i] \in Registers
      /\ \A i \in 1 .. 15 : P[i] = P[j] => i = j
  BY <1>4, <1>6, GivenIs, PushInfo, PopInfo, Numbers
<1>10. regs' = [regs EXCEPT ![P[j]] = w]
  <2>1. at - InC \in 1 .. PUSHED /\ PUSHED + 1 - (at - InC) = j
    BY <1>2, <1>5, Numbers
  <2>2. Stub[code].pop[at - InC] = P[j]
    BY <2>1, <1>4, <1>6, PopInfo
  <2> QED
    BY <2>2, <1>3 DEF Pop
<1>11. /\ regs' \in RegFiles
       /\ \A i \in j .. 15 : regs'[P[i]] = G[P[i]]
  <2>1. G[P[j]] \in Values /\ P[j] \in Registers
    BY <1>9 DEF RegFiles
  <2>2. regs' \in RegFiles /\ regs'[P[j]] = G[P[j]]
    BY <2>1, <1>4, <1>8, <1>10 DEF RegFiles
  <2>3. ASSUME NEW i \in j + 1 .. 15 PROVE regs'[P[i]] = G[P[i]]
    <3>1. i \in 1 .. 15 /\ i # j
      OBVIOUS
    <3>2. P[i] \in Registers /\ P[i] # P[j]
      BY <3>1, <1>9
    <3> QED
      BY <3>2, <1>4, <1>7, <1>10 DEF RegFiles
  <2>4. \A i \in j .. 15 : i = j \/ i \in j + 1 .. 15
    OBVIOUS
  <2> QED
    BY <2>2, <2>3, <2>4
<1>12. /\ stack' \in Seq(Word) /\ Len(stack') = lo + (j - 1)
       /\ \A i \in 1 .. lo + (j - 1) : stack'[i] = stack[i]
  <2>1. stack \in Seq(Word) /\ Len(stack) > 0 /\ Len(stack) - 1 = lo + (j - 1)
    BY <1>3, <1>4, <1>8 DEF TrapsInv
  <2>2. stack' = Front(stack)
    BY DEF Pop
  <2> QED
    BY <2>1, <2>2, FrontInfo
<1>13. code' = code /\ intr' = intr /\ entered' = entered /\ at' = at + 1
  BY DEF Pop
<1>14. Layer(stack', Now', E, regs', lo, Len(stack') + 1)
  <2>1. Now'.code = code /\ Now'.at = at + 1 /\ Base(code, lo) = lo
    <3>1. code # "isr_common"
      BY <1>4 DEF Returning
    <3> QED
      BY <3>1, <1>4, <1>13, NowIs, Returns
  <2>2. /\ at + 1 \in 1 .. Iretq /\ ~ (at + 1 <= Call) /\ at + 1 # InC
        /\ lo + (j - 1) + 1 = lo + (Iretq + 1 - (at + 1))
        /\ Iretq - (at + 1) = j - 1 /\ Iretq - (at + 1) + 1 = j /\ PUSHED = 15
    BY <1>2, <1>4, <1>5, Numbers
  <2>3. ASSUME NEW i \in 1 .. j - 1 PROVE stack'[lo + i] = G[P[i]]
    <3>1. lo + i \in 1 .. lo + (j - 1) /\ i \in 1 .. j
      BY <1>4
    <3> QED
      BY <3>1, <1>7, <1>12
  <2>4. code # "isr_common"
    BY <1>4 DEF Returning
  <2>5. Parts(stack', code, at + 1, E, regs', lo, lo + (j - 1) + 1)
    BY <2>2, <2>3, <2>4, <1>4, <1>6, <1>11 DEF Parts
  <2> QED
    BY <2>1, <2>5, <1>12 DEF Layer
<1>15. Len(stack') >= lo /\ at' \in 1 .. Iretq /\ \A i \in 1 .. lo : stack'[i] = stack[i]
  <2>1. Len(stack') >= lo
    BY <1>4, <1>12
  <2>2. at' \in 1 .. Iretq
    BY <1>2, <1>13, Numbers
  <2>3. \A i \in 1 .. lo : i \in 1 .. lo + (j - 1)
    BY <1>4
  <2> QED
    BY <2>1, <2>2, <2>3, <1>12
<1>16. Len(entered) > 0
  BY <1>1, <1>2, Opened
<1> QED
  BY <1>1, <1>3, <1>11, <1>12, <1>13, <1>14, <1>15, <1>16, StepInv

(* Behind the last pop every register is what the entry gives back.        *)
LEMMA AtIretq ==
    ASSUME TrapsInv, at = Iretq
    PROVE  /\ regs = Given(code, Last(entered))
           /\ \E b, lo : Innermost(b, lo) /\ lo = Len(stack) /\ Len(entered) > 0
<1>1. PICK b, lo : Innermost(b, lo)
  BY Current
<1>2. at # 0 /\ at > InC /\ ~ (at <= InC)
  BY Numbers
<1>3. PICK E : E = Last(entered)
  OBVIOUS
<1>4. /\ code \in Stubs /\ Layer(stack, Now, E, regs, lo, Len(stack) + 1)
      /\ lo \in Nat /\ Len(stack) \in Nat /\ Len(entered) > 0
      /\ E \in RegFiles /\ regs \in RegFiles
  BY <1>1, <1>2, <1>3, Opened
<1>5. code # "isr_common"
  BY <1>2, <1>4, NowIs DEF Layer, Parts
<1>6. code \in Returning /\ Base(code, lo) = lo
  BY <1>4, <1>5, Returns
<1>7. Parts(stack, code, Iretq, E, regs, lo, Len(stack) + 1)
  BY <1>4, <1>6, NowIs DEF Layer
<1>8. /\ Len(stack) + 1 = lo + (Iretq + 1 - Iretq)
      /\ \A i \in Iretq - Iretq + 1 .. PUSHED :
            regs[Stub[code].push[i]] = Given(code, E)[Stub[code].push[i]]
  BY <1>2, <1>7 DEF Parts
<1>9. lo = Len(stack)
  BY <1>4, <1>8, Numbers
<1>10. ASSUME NEW r \in Registers PROVE regs[r] = Given(code, E)[r]
  <2>1. PICK i \in 1 .. PUSHED : Stub[code].push[i] = r
    BY <1>6, PopInfo
  <2>2. i \in Iretq - Iretq + 1 .. PUSHED
    BY Numbers
  <2> QED
    BY <2>1, <2>2, <1>8
<1>11. Given(code, E) \in RegFiles
  BY <1>4, GivenIs
<1>12. regs = Given(code, E)
  BY <1>4, <1>10, <1>11 DEF RegFiles
<1> QED
  BY <1>1, <1>3, <1>4, <1>9, <1>12

LEMMA ReturnInv ==
    ASSUME TrapsInv, Return
    PROVE  TrapsInv'
<1>1. PICK b, lo : Innermost(b, lo) /\ lo = Len(stack) /\ Len(entered) > 0
  BY AtIretq DEF Return
<1>2. PICK d \in Nat, h \in Nat : d = Len(entered) /\ h = Len(stack)
  BY Current
<1>3. /\ b \in Seq(Nat) /\ Len(b) = d + 1 /\ Layers(Words, Saved, b)
      /\ h \in 1 .. h /\ h = b[d] /\ stack[h] \in Frames
      /\ (d > 1 => code # "syscall_isr") /\ d > 0
  BY <1>1, <1>2 DEF Innermost
<1>4. stack \in Seq(Word) /\ entered \in Seq(RegFiles) /\ regs \in RegFiles
  BY DEF TrapsInv
<1>5. Now' = stack[h] /\ Now' \in Frames
  <2>1. Last(stack) = stack[h]
    BY <1>2 DEF Last
  <2>2. Now' = [code |-> stack[h].code, at |-> stack[h].at, intr |-> stack[h].intr]
    BY <2>1, NowIs DEF Return
  <2> QED
    BY <2>2, <1>3 DEF Frames
<1>6. /\ stack' \in Seq(Word) /\ Len(stack') = h - 1
      /\ \A i \in 1 .. h - 1 : stack'[i] = stack[i]
  <2>1. stack' = Front(stack) /\ Len(stack) > 0
    BY <1>2, <1>3 DEF Return
  <2> QED
    BY <2>1, <1>2, <1>4, FrontInfo
<1>7. /\ Words' \in Seq(Word) /\ Len(Words') = h
      /\ \A i \in 1 .. h : Words'[i] = Words[i]
  <2>1. Now' \in Word
    BY <1>5 DEF Word
  <2>2. /\ Words' \in Seq(Word) /\ Len(Words') = (h - 1) + 1
        /\ \A i \in 1 .. h - 1 : Words'[i] = stack'[i]
        /\ Words'[(h - 1) + 1] = Now'
    BY <2>1, <1>6, NowIs, AppendInfo
  <2>3. (h - 1) + 1 = h
    OBVIOUS
  <2>4. ASSUME NEW i \in 1 .. h PROVE Words'[i] = Words[i]
    <3>1. Words[i] = stack[i]
      BY <1>2, Current
    <3>2. CASE i = h
      BY <3>1, <3>2, <2>2, <2>3, <1>5
    <3>3. CASE i # h
      <4>1. i \in 1 .. h - 1
        BY <3>3
      <4> QED
        BY <4>1, <3>1, <2>2, <1>6
    <3> QED
      BY <3>2, <3>3
  <2> QED
    BY <2>2, <2>3, <2>4
<1>8. /\ entered' \in Seq(RegFiles) /\ Len(entered') = d - 1 /\ regs' = regs
      /\ \A k \in 1 .. d - 1 : entered'[k] = entered[k]
  <2>1. entered' = Front(entered) /\ Len(entered) > 0 /\ regs' = regs
    BY <1>1 DEF Return
  <2> QED
    BY <2>1, <1>2, <1>4, FrontInfo
<1>9. /\ Saved' \in Seq(RegFiles) /\ Len(Saved') = d
      /\ Saved'[d] = regs /\ \A k \in 1 .. d - 1 : Saved'[k] = entered[k]
  <2>1. (d - 1) + 1 = d
    OBVIOUS
  <2>2. /\ Saved' \in Seq(RegFiles) /\ Len(Saved') = (d - 1) + 1
        /\ \A k \in 1 .. d - 1 : Saved'[k] = entered'[k]
        /\ Saved'[(d - 1) + 1] = regs
    BY <1>4, <1>8, NowIs, AppendInfo
  <2> QED
    BY <2>1, <2>2, <1>8
<1>10. ASSUME d > 1, NEW k \in 1 .. d PROVE Saved'[k] = Saved[k]
  <2>1. Saved[k] = entered[k]
    BY <1>2, Current
  <2>2. CASE k = d
    <3>1. regs = Given(code, Last(entered)) /\ Last(entered) = entered[d]
      BY <1>2, AtIretq DEF Return, Last
    <3>2. entered[d] \in RegFiles
      BY <1>2, <1>3, <1>4
    <3>3. code # "syscall_isr"
      BY <1>3, <1>10
    <3>4. \A r \in Registers : regs[r] = entered[d][r]
      BY <3>1, <3>2, <3>3, GivenIs
    <3>5. regs = entered[d]
      BY <3>2, <3>4, <1>4 DEF RegFiles
    <3> QED
      BY <2>1, <2>2, <3>5, <1>9
  <2>3. CASE k # d
    <3>1. k \in 1 .. d - 1
      BY <2>3
    <3> QED
      BY <3>1, <2>1, <1>9
  <2> QED
    BY <2>2, <2>3
<1>11. PICK b1 : b1 = Front(b)
  OBVIOUS
<1>12. b1 \in Seq(Nat) /\ Len(b1) = d /\ \A k \in 1 .. d : b1[k] = b[k]
  <2>1. Len(b) > 0 /\ Len(b) - 1 = d
    BY <1>3
  <2> QED
    BY <2>1, <1>3, <1>11, FrontInfo
<1>13. Joins(Words, Saved, b, Words', Saved', b1, d, d)
  <2>1. d \in 1 .. Len(b) /\ d \in 1 .. d /\ ~ (d > d)
    BY <1>3
  <2>2. b1[d] = Len(Words')
    BY <2>1, <1>3, <1>7, <1>12
  <2>3. \A i \in 1 .. b[d] : Words'[i] = Words[i]
    BY <1>3, <1>7
  <2> QED
    BY <2>1, <2>2, <2>3, <1>7, <1>9, <1>10, <1>12 DEF Joins
<1>14. Layers(Words', Saved', b1)
  BY <1>3, <1>13, LayersJoin
<1> QED
  BY <1>4, <1>5, <1>6, <1>8, <1>12, <1>14 DEF TrapsInv

LEMMA UserRegsType == UserRegs \in RegFiles
BY DEF UserRegs, RegFiles, Values

LEMMA ProgramInv ==
    ASSUME TrapsInv, Program
    PROVE  TrapsInv'
<1>1. PICK b, lo : Innermost(b, lo)
  BY Current
<1>2. Len(entered) = 0
  BY <1>1, Inside DEF Program
<1>3. /\ stack' = stack /\ entered' = entered /\ Now' = Now /\ Words' = Words
      /\ regs' = UserRegs /\ regs' \in RegFiles
  BY UserRegsType DEF Program, Now, Words
<1>4. Saved' \in Seq(RegFiles) /\ Len(Saved') = 1
  BY <1>2, <1>3, NowIs, AppendInfo DEF TrapsInv
<1>5. b \in Seq(Nat) /\ Len(b) = 1 /\ Layers(Words, Saved, b)
  BY <1>1, <1>2 DEF Innermost
<1>6. Words \in Seq(Word) /\ b[1] = Len(Words)
  BY <1>5 DEF Layers
<1>7. Joins(Words, Saved, b, Words', Saved', b, 1, 1)
  BY <1>3, <1>4, <1>5, <1>6 DEF Joins
<1>8. Layers(Words', Saved', b)
  BY <1>5, <1>7, LayersJoin
<1> QED
  BY <1>3, <1>5, <1>8 DEF TrapsInv

LEMMA TrapsInit == Init => TrapsInv
<1> SUFFICES ASSUME Init PROVE TrapsInv
  OBVIOUS
<1>1. Now \in Frames /\ Now.code = "ring3" /\ Now.at = 0
  BY Numbers DEF Init, Now, Frames
<1>2. stack = <<>> /\ entered = <<>> /\ regs \in RegFiles
  BY UserRegsType DEF Init
<1>3. stack \in Seq(Word) /\ entered \in Seq(RegFiles) /\ Len(stack) = 0 /\ Len(entered) = 0
  BY <1>2, EmptySeq
<1>4. Words \in Seq(Word) /\ Len(Words) = 1 /\ Words[1] = Now
  <2>1. Now \in Word
    BY <1>1 DEF Word
  <2> QED
    BY <2>1, <1>3, AppendInfo DEF Words
<1>5. Saved \in Seq(RegFiles) /\ Len(Saved) = 1
  BY <1>2, <1>3, AppendInfo DEF Saved
<1>6. PICK b : b = <<1>>
  OBVIOUS
<1>7. b \in Seq(Nat) /\ Len(b) = 1 /\ b[1] = 1
  BY <1>6
<1>8. Layers(Words, Saved, b)
  BY <1>1, <1>4, <1>5, <1>7 DEF Layers
<1> QED
  BY <1>1, <1>2, <1>3, <1>7, <1>8 DEF TrapsInv

LEMMA TrapsNext == TrapsInv /\ [Next]_vars => TrapsInv'
<1> SUFFICES ASSUME TrapsInv, [Next]_vars PROVE TrapsInv'
  OBVIOUS
<1>0. PICK b, lo : Innermost(b, lo)
  BY Current
<1>1. ASSUME NEW irq \in {0, 1, 8}, Interrupt(irq) PROVE TrapsInv'
  <2>1. pic_init[irq] \in 0 .. 255 /\ pic_init[irq] # 128
    BY DEF pic_init
  <2> QED
    BY <2>1, <1>1, EnterInv DEF Interrupt
<1>2. ASSUME NEW v \in {IRQ0, Int80}, IntN(v) PROVE TrapsInv'
  <2>1. v \in 0 .. 255
    BY DEF IRQ0, Int80, pic_init
  <2>2. PICK w \in 0 .. 255 : Enter(w)
    BY <2>1, <1>2 DEF IntN
  <2>3. Len(entered) = 0
    BY <1>0, <1>2, Inside DEF IntN
  <2> QED
    BY <2>2, <2>3, EnterInv
<1>3. ASSUME NEW v \in Exceptions, Exception(v) PROVE TrapsInv'
  <2>1. v \in 0 .. 255 /\ v # 128
    BY ExceptionAssumption
  <2> QED
    BY <2>1, <1>3, EnterInv DEF Exception
<1>4. CASE UNCHANGED vars
  <2>1. Now' = Now /\ Words' = Words /\ Saved' = Saved
    BY <1>4 DEF vars, Now, Words, Saved
  <2> QED
    BY <2>1, <1>4 DEF vars, TrapsInv
<1> QED
  BY <1>1, <1>2, <1>3, <1>4, ProgramInv, PushInv, CallCInv, ReturnCInv, PopInv, ReturnInv
  DEF Next

(* kernel/idt.asm, drivers/keyboard_asm.asm: the stack is at every         *)
(* instruction made of the layers of the entries that have not returned,   *)
(* each with the registers it found, in the order its stub pushes them.    *)
THEOREM StackIsLayered == Spec => []TrapsInv
BY TrapsInit, TrapsNext, PTL DEF Spec

(* kernel/idt.asm, drivers/keyboard_asm.asm: whoever is interrupted gets   *)
(* every register back, whatever interrupts come between two instructions  *)
(* and however deep they are nested; a system call changes R15 only.       *)
THEOREM RegistersAreKept == Spec => []RegistersKept
<1>1. TrapsInv => RegistersKept
  <2> SUFFICES ASSUME TrapsInv, at = Iretq
               PROVE  regs = [Last(entered) EXCEPT !["r15"] =
                                IF code = "syscall_isr" THEN "result" ELSE @]
    BY DEF RegistersKept
  <2> QED
    BY AtIretq DEF Given
<1> QED
  BY <1>1, StackIsLayered, PTL

=============================================================================
