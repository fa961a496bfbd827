------------------------------ MODULE Keyboard ------------------------------
(***************************************************************************)
(* The PS/2 driver of drivers/keyboard.c and its reader, the loop at the   *)
(* end of kmain in kernel/kernel.c.  IRQ1 has an interrupt gate, so        *)
(* keyboard_handler runs whole between two steps of the reader; the reader *)
(* is cut at each of its reads and writes of the ring.                     *)
(*                                                                         *)
(* The variables of the software key repeat are left out: the branch of    *)
(* keyboard_read that looks at them runs only on an empty ring, which      *)
(* ReadNeverWaits excludes.                                                *)
(***************************************************************************)
EXTENDS Integers, Sequences

CONSTANTS
    KB_BUFFER_SIZE,     \* slots of the ring (256 in the code)
    Scancodes           \* the scancodes that arrive

ASSUME SizeAssumption == KB_BUFFER_SIZE \in Nat /\ KB_BUFFER_SIZE >= 2

Slots == 0 .. (KB_BUFFER_SIZE - 1)

(* One scancode of each kind process_scancode tells apart: the prefix, a   *)
(* letter, its release, the modifiers, a key that has an escape sequence   *)
(* after the prefix and no character without it, and the slash, which has  *)
(* a character both ways.                                                  *)
AllScancodes == {"E0", "c", "c_up", "shift", "shift_up", "ctrl", "ctrl_up",
                 "alt", "alt_up", "arrow", "slash"}

ASSUME ScancodeAssumption == Scancodes \subseteq AllScancodes

Characters == {"c", "C", "^C", "/", "?", "ESC", "[", "A"}
ArrowSeq == <<"ESC", "[", "A">>

VARIABLES
    kb_buffer, kb_head, kb_tail,
    shift_pressed, ctrl_pressed, ext_flag,
    sigint_pending,
    kpc,    \* where kmain's loop is
    c,      \* keyboard_read's local
    key     \* the key last passed to shell_input

vars == <<kb_buffer, kb_head, kb_tail, shift_pressed, ctrl_pressed, ext_flag,
          sigint_pending, kpc, c, key>>

ring == <<kb_buffer, kb_head, kb_tail>>
modifiers == <<shift_pressed, ctrl_pressed, ext_flag>>
reader == <<kb_tail, sigint_pending, c, key>>

Init ==
    /\ kb_buffer = [i \in Slots |-> "none"]
    /\ kb_head = 0
    /\ kb_tail = 0
    /\ shift_pressed = 0
    /\ ctrl_pressed = 0
    /\ ext_flag = 0
    /\ sigint_pending = 0
    /\ kpc = "avail"
    /\ c = "none"
    /\ key = "none"

Advance(i) == (i + 1) % KB_BUFFER_SIZE

-----------------------------------------------------------------------------
(* keyboard_handler                                                        *)

(* The ring as the handler sees it.                                        *)
Ring == [buf |-> kb_buffer, head |-> kb_head]

(* Mutants: no test for a full ring; the slot after the head is written.   *)
kbuf_put_unchecked(r, ch) == 
    [buf |-> [r.buf EXCEPT ![r.head] = ch], head |-> Advance(r.head)]
kbuf_put_ahead(r, ch) ==
    IF Advance(r.head) # kb_tail
    THEN [buf |-> [r.buf EXCEPT ![Advance(r.head)] = ch], head |-> Advance(r.head)]
    ELSE r

kbuf_put(r, ch) ==
    IF Advance(r.head) # kb_tail
    THEN [buf |-> [r.buf EXCEPT ![r.head] = ch], head |-> Advance(r.head)]
    ELSE r

kbuf_put_seq(r, s) == kbuf_put(kbuf_put(kbuf_put(r, s[1]), s[2]), s[3])

Store(r) == kb_buffer' = r.buf /\ kb_head' = r.head

(* norm[], shf[] and the control characters.                               *)
ascii(sc) ==
    CASE sc = "c" /\ ctrl_pressed = 1 -> "^C"
      [] sc = "c" /\ ctrl_pressed = 0 /\ shift_pressed = 0 -> "c"
      [] sc = "c" /\ ctrl_pressed = 0 /\ shift_pressed # 0 -> "C"
      [] sc = "slash" /\ shift_pressed = 0 -> "/"
      [] sc = "slash" /\ shift_pressed # 0 -> "?"

Prefix(sc) ==
    /\ sc = "E0"
    /\ ext_flag' = 1
    /\ UNCHANGED <<kb_buffer, kb_head, shift_pressed, ctrl_pressed>>

(* handle_extended, with the flag cleared first.                           *)
Extended(sc) ==
    /\ sc # "E0"
    /\ ext_flag = 1
    /\ ext_flag' = 0
    /\ Store(CASE sc = "arrow" -> kbuf_put_seq(Ring, ArrowSeq)
               [] sc = "slash" -> kbuf_put(Ring, "/")
               [] OTHER -> Ring)
    /\ ctrl_pressed' = (CASE sc = "ctrl" -> 1 [] sc = "ctrl_up" -> 0 [] OTHER -> ctrl_pressed)
    /\ shift_pressed' = (CASE sc = "alt" -> 2 [] sc = "alt_up" -> 0 [] OTHER -> shift_pressed)

Modifier(sc) ==
    /\ ext_flag = 0
    /\ sc \in {"shift", "shift_up", "alt", "alt_up", "ctrl", "ctrl_up"}
    /\ shift_pressed' = (CASE sc \in {"shift", "alt"} -> 1
                           [] sc \in {"shift_up", "alt_up"} -> 0
                           [] OTHER -> shift_pressed)
    /\ ctrl_pressed' = (CASE sc = "ctrl" -> 1 [] sc = "ctrl_up" -> 0 [] OTHER -> ctrl_pressed)
    /\ UNCHANGED <<kb_buffer, kb_head, ext_flag>>

(* A release, or a make code without a character, changes nothing here.    *)
Make(sc) ==
    /\ ext_flag = 0
    /\ sc \in {"c", "slash"}
    /\ Store(kbuf_put(Ring, ascii(sc)))
    /\ UNCHANGED modifiers

(* An interrupt ends a hlt.                                                *)
Wake == kpc' = IF kpc = "halted" THEN "avail" ELSE kpc

(* IRQ1 with scancode sc.                                                  *)
keyboard_handler(sc) ==
    /\ \/ Prefix(sc)
       \/ Extended(sc)
       \/ Modifier(sc)
       \/ Make(sc)
       \/ ext_flag = 0 /\ sc \in {"c_up", "arrow"} /\ UNCHANGED <<kb_buffer, kb_head, modifiers>>
    /\ Wake
    /\ UNCHANGED reader

(* Mutant: the timer does not end a hlt.                                   *)
timer_asleep == UNCHANGED vars

(* IRQ0: of what timer_tick_handler does, the reader sees that it wakes.   *)
timer_tick == Wake /\ UNCHANGED <<kb_buffer, kb_head, modifiers, reader>>

-----------------------------------------------------------------------------
(* kmain's loop                                                            *)

Go(from, to) == kpc = from /\ kpc' = to

keyboard_avail ==
    /\ Go("avail", IF kb_head # kb_tail THEN "test" ELSE "hlt")
    /\ UNCHANGED <<ring, modifiers, sigint_pending, c, key>>

(* keyboard_read: test the ring, read the character, move the tail.        *)
ReadTest ==
    /\ kb_head # kb_tail
    /\ Go("test", "load")
    /\ UNCHANGED <<ring, modifiers, sigint_pending, c, key>>

ReadLoad ==
    /\ Go("load", "advance")
    /\ c' = kb_buffer[kb_tail]
    /\ UNCHANGED <<ring, modifiers, sigint_pending, key>>

ReadAdvance ==
    /\ Go("advance", "hlt")
    /\ kb_tail' = Advance(kb_tail)
    /\ sigint_pending' = IF c = "^C" THEN 1 ELSE sigint_pending
    /\ key' = c
    /\ c' = "none"
    /\ UNCHANGED <<kb_buffer, kb_head, modifiers>>

(* The hlt instruction: an interrupt that came before it does not end it.  *)
Halt ==
    /\ Go("hlt", "halted")
    /\ UNCHANGED <<ring, modifiers, sigint_pending, c, key>>

Loop == keyboard_avail \/ ReadTest \/ ReadLoad \/ ReadAdvance \/ Halt

Next == (\E sc \in Scancodes : keyboard_handler(sc)) \/ timer_tick \/ Loop

Spec == Init /\ [][Next]_vars

(* kmain runs whenever it is not halted, and the timer keeps ticking;      *)
(* nobody has to type.                                                     *)
FairSpec == Spec /\ WF_vars(Loop) /\ WF_vars(timer_tick)

-----------------------------------------------------------------------------
(* Properties                                                              *)

Waiting == (kb_head - kb_tail + KB_BUFFER_SIZE) % KB_BUFFER_SIZE

(* The characters between the tail and the head.                           *)
Queue == [i \in 1 .. Waiting |-> kb_buffer[(kb_tail + i - 1) % KB_BUFFER_SIZE]]

TypeOK ==
    /\ kb_buffer \in [Slots -> Characters \union {"none"}]
    /\ kb_head \in Slots
    /\ kb_tail \in Slots
    /\ shift_pressed \in {0, 1, 2}
    /\ ctrl_pressed \in {0, 1}
    /\ ext_flag \in {0, 1}
    /\ sigint_pending \in {0, 1}
    /\ kpc \in {"avail", "test", "load", "advance", "hlt", "halted"}
    /\ c \in Characters \union {"none"}
    /\ key \in Characters \union {"none"}

(* Once keyboard_avail has said yes the ring stays nonempty, however many  *)
(* keys arrive, so keyboard_read never spins inside kmain's loop, and its  *)
(* key repeat is never reached.                                            *)
ReadNeverWaits == kpc \in {"test", "load", "advance"} => kb_head # kb_tail

(* The character that was read is still in its slot when the tail moves:   *)
(* no key overwrites a slot that has not been given up.                    *)
SlotKept == kpc = "advance" => kb_buffer[kb_tail] = c

(* The ring is a queue: keys come out in order, each once, and only a full *)
(* ring loses any, from the end of what one key puts in.                   *)
KeyQ == INSTANCE KeyQueue WITH
            q <- Queue, out <- key, Cap <- KB_BUFFER_SIZE - 1,
            Strings <- {<<ch>> : ch \in Characters} \union {ArrowSeq}
RefinesQueue == KeyQ!Spec

(* Every key in the ring reaches the shell, also the one that comes between*)
(* a keyboard_avail that says no and the hlt.                              *)
KeysDelivered == \A t \in Slots : (kb_head # kb_tail /\ kb_tail = t) ~> (kb_tail # t)

=============================================================================
