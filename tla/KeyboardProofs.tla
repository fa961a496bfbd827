--------------------------- MODULE KeyboardProofs ---------------------------
(***************************************************************************)
(* The ring of the keyboard driver is safe for every size, with interrupts *)
(* between any two steps of the reader.                                    *)
(***************************************************************************)
EXTENDS Keyboard, TLAPS

N == KB_BUFFER_SIZE

(* The next slot is a slot, and another one.                               *)
LEMMA AdvanceInSlots ==
    ASSUME NEW i \in Slots
    PROVE  Advance(i) \in Slots /\ Advance(i) # i
<1>1. N \in Nat /\ N >= 2
  BY SizeAssumption DEF N
<1>2. CASE i + 1 < N
  BY <1>1, <1>2 DEF Advance, Slots, N
<1>3. CASE i + 1 = N
  BY <1>1, <1>3 DEF Advance, Slots, N
<1> QED
  BY <1>1, <1>2, <1>3 DEF Slots, N

(* The ring as a stored record, and what kbuf_put keeps of it: the head    *)
(* does not reach the tail of a ring that is not empty, and the slot at    *)
(* the tail keeps its character.                                           *)
RingOK(r) ==
    /\ r.buf \in [Slots -> Characters \union {"none"}]
    /\ r.head \in Slots

LEMMA PutKeeps ==
    ASSUME NEW r, RingOK(r), kb_tail \in Slots, NEW ch \in Characters
    PROVE  /\ RingOK(kbuf_put(r, ch))
           /\ r.head # kb_tail =>
                 /\ kbuf_put(r, ch).head # kb_tail
                 /\ kbuf_put(r, ch).buf[kb_tail] = r.buf[kb_tail]
<1>1. Advance(r.head) \in Slots /\ r.head \in Slots
  BY AdvanceInSlots DEF RingOK
<1>2. CASE Advance(r.head) # kb_tail
  BY <1>1, <1>2 DEF kbuf_put, RingOK
<1>3. CASE Advance(r.head) = kb_tail
  BY <1>3 DEF kbuf_put
<1> QED
  BY <1>2, <1>3

(* The same for the three characters of an escape sequence.                *)
LEMMA SeqKeeps ==
    ASSUME NEW r, RingOK(r), kb_tail \in Slots
    PROVE  LET t == kbuf_put_seq(r, ArrowSeq)
           IN  /\ RingOK(t)
               /\ r.head # kb_tail => t.head # kb_tail /\ t.buf[kb_tail] = r.buf[kb_tail]
<1> DEFINE a == kbuf_put(r, "ESC")
           b == kbuf_put(a, "[")
           t == kbuf_put(b, "A")
<1>1. /\ RingOK(a) 
      /\ r.head # kb_tail => a.head # kb_tail /\ a.buf[kb_tail] = r.buf[kb_tail]
  BY PutKeeps DEF Characters
<1> HIDE DEF a
<1>2. /\ RingOK(b) 
      /\ a.head # kb_tail => b.head # kb_tail /\ b.buf[kb_tail] = a.buf[kb_tail]
  BY <1>1, PutKeeps DEF Characters
<1> HIDE DEF b
<1>3. /\ RingOK(t) 
      /\ b.head # kb_tail => t.head # kb_tail /\ t.buf[kb_tail] = b.buf[kb_tail]
  BY <1>2, PutKeeps DEF Characters
<1>4. t = kbuf_put_seq(r, ArrowSeq)
  BY DEF kbuf_put_seq, ArrowSeq, a, b
<1> QED
  BY <1>1, <1>2, <1>3, <1>4

IInv == TypeOK /\ ReadNeverWaits /\ SlotKept

(* What the handler leaves of the ring, whatever the scancode.             *)
LEMMA StoreKeeps ==
    ASSUME IInv, NEW sc, keyboard_handler(sc)
    PROVE  /\ kb_buffer' \in [Slots -> Characters \union {"none"}] /\ kb_head' \in Slots
           /\ kb_head # kb_tail => kb_head' # kb_tail /\ kb_buffer'[kb_tail] = kb_buffer[kb_tail]
           /\ shift_pressed' \in {0, 1, 2} /\ ctrl_pressed' \in {0, 1} /\ ext_flag' \in {0, 1}
<1> DEFINE Kept(r) == 
       RingOK(r) /\ (kb_head # kb_tail => r.head # kb_tail /\ r.buf[kb_tail] = kb_buffer[kb_tail])
<1>1. RingOK(Ring) /\ Ring.head = kb_head /\ Ring.buf = kb_buffer /\ kb_tail \in Slots
  BY DEF IInv, TypeOK, RingOK, Ring
<1>2. Kept(Ring) /\ \A ch \in Characters : Kept(kbuf_put(Ring, ch))
  BY <1>1, PutKeeps
<1>3. Kept(kbuf_put_seq(Ring, ArrowSeq))
  BY <1>1, SeqKeeps
<1>4. shift_pressed \in {0, 1, 2} /\ ctrl_pressed \in {0, 1} /\ ext_flag \in {0, 1}
  BY DEF IInv, TypeOK
<1>5. CASE Prefix(sc)
  BY <1>1, <1>2, <1>4, <1>5 DEF Prefix, RingOK
<1>6. CASE Extended(sc)
  <2>1. \E r : Kept(r) /\ Store(r)
    BY <1>2, <1>3, <1>6 DEF Extended, Characters
  <2>2. shift_pressed' \in {0, 1, 2} /\ ctrl_pressed' \in {0, 1} /\ ext_flag' \in {0, 1}
    BY <1>4, <1>6 DEF Extended
  <2> QED
    BY <2>1, <2>2 DEF Store, RingOK
<1>7. CASE Modifier(sc)
  BY <1>1, <1>2, <1>4, <1>7 DEF Modifier, RingOK
<1>8. CASE Make(sc)
  <2>1. ascii(sc) \in Characters
    BY <1>4, <1>8 DEF Make, ascii, Characters
  <2>2. Kept(kbuf_put(Ring, ascii(sc))) /\ Store(kbuf_put(Ring, ascii(sc)))
    BY <1>2, <1>8, <2>1 DEF Make
  <2> QED
    BY <1>4, <1>8, <2>2 DEF Make, Store, RingOK, modifiers
<1>9. CASE UNCHANGED <<kb_buffer, kb_head, modifiers>>
  BY <1>1, <1>2, <1>4, <1>9 DEF modifiers, RingOK
<1> QED
  BY <1>5, <1>6, <1>7, <1>8, <1>9 DEF keyboard_handler

(* An interrupt between any two steps of the reader keeps the invariant.   *)
LEMMA HandlerInv ==
    ASSUME IInv, NEW sc, keyboard_handler(sc)
    PROVE  IInv'
<1>1. /\ kb_tail' = kb_tail /\ sigint_pending' = sigint_pending /\ c' = c /\ key' = key
      /\ kpc' = IF kpc = "halted" THEN "avail" ELSE kpc
  BY DEF keyboard_handler, reader, Wake
<1>2. TypeOK'
  BY <1>1, StoreKeeps DEF IInv, TypeOK
<1>3. ReadNeverWaits' /\ SlotKept'
  BY <1>1, StoreKeeps DEF IInv, ReadNeverWaits, SlotKept
<1> QED
  BY <1>2, <1>3 DEF IInv

(* A step of the reader keeps it.                                          *)
LEMMA LoopInv ==
    ASSUME IInv, Loop
    PROVE  IInv'
<1> USE DEF IInv, TypeOK, ReadNeverWaits, SlotKept, Go, ring, modifiers
<1>1. CASE keyboard_avail
  BY <1>1 DEF keyboard_avail
<1>2. CASE ReadTest
  BY <1>2 DEF ReadTest
<1>3. CASE ReadLoad
  BY <1>3 DEF ReadLoad
<1>4. CASE ReadAdvance
  <2>1. Advance(kb_tail) \in Slots
    BY AdvanceInSlots
  <2> QED
    BY <1>4, <2>1 DEF ReadAdvance
<1>5. CASE Halt
  BY <1>5 DEF Halt
<1> QED
  BY <1>1, <1>2, <1>3, <1>4, <1>5 DEF Loop

(* The invariant holds in every state.                                     *)
LEMMA Inductive == Spec => []IInv
<1>1. Init => IInv
  BY SizeAssumption DEF Init, IInv, TypeOK, ReadNeverWaits, SlotKept, Slots
<1>2. IInv /\ [Next]_vars => IInv'
  <2> SUFFICES ASSUME IInv, [Next]_vars PROVE IInv'
    OBVIOUS
  <2>1. CASE timer_tick
    BY <2>1 DEF timer_tick, Wake, modifiers, reader, IInv, TypeOK, ReadNeverWaits, SlotKept
  <2>2. CASE UNCHANGED vars
    BY <2>2 DEF vars, IInv, TypeOK, ReadNeverWaits, SlotKept
  <2> QED
    BY <2>1, <2>2, HandlerInv, LoopInv DEF Next
<1> QED
  BY <1>1, <1>2, PTL DEF Spec

(* The ring indices stay in the ring and the flags keep their values.      *)
THEOREM TypeCorrect == Spec => []TypeOK
BY Inductive, PTL DEF IInv

(* keyboard_read in kmain's loop never finds the ring empty.               *)
THEOREM NeverWaits == Spec => []ReadNeverWaits
BY Inductive, PTL DEF IInv

(* A slot that is being read is not overwritten, also when the ring is     *)
(* full and keys keep coming.                                              *)
THEOREM SlotSafe == Spec => []SlotKept
BY Inductive, PTL DEF IInv

-----------------------------------------------------------------------------
(* The refinement of the queue                                             *)

(* The remainder of what two slots add up to.                              *)
LEMMA Remainder ==
    ASSUME NEW x \in 0 .. 2 * N - 1
    PROVE  x % N = IF x < N THEN x ELSE x - N
<1>1. N \in Nat /\ N >= 2
  BY SizeAssumption DEF N
<1>2. CASE x < N
  BY <1>1, <1>2
<1>3. CASE x >= N
  <2>1. x - N \in 0 .. N - 1 /\ x = N + (x - N)
    BY <1>1, <1>3
  <2> QED
    BY <1>1, <1>3, <2>1
<1> QED
  BY <1>1, <1>2, <1>3

(* How many characters wait in ring r, and which.                          *)
Filled(r) == (r.head - kb_tail + N) % N
Content(r) == [i \in 1 .. Filled(r) |-> r.buf[(kb_tail + i - 1) % N]]

LEMMA FilledIs ==
    ASSUME NEW r, r.head \in Slots, kb_tail \in Slots
    PROVE  /\ Filled(r) = IF r.head >= kb_tail THEN r.head - kb_tail ELSE r.head - kb_tail + N
           /\ Filled(r) \in 0 .. N - 1
<1>1. N \in Nat /\ N >= 2
  BY SizeAssumption DEF N
<1>2. r.head - kb_tail + N \in 0 .. 2 * N - 1
  BY <1>1 DEF Slots, N
<1>3. Filled(r) = IF r.head - kb_tail + N < N THEN r.head - kb_tail + N ELSE r.head - kb_tail
  BY <1>1, <1>2, Remainder DEF Filled, Slots, N
<1> QED
  BY <1>1, <1>3 DEF Slots, N

Values == Characters \union {"none"}

LEMMA ContentIs ==
    ASSUME NEW r, RingOK(r), kb_tail \in Slots
    PROVE  /\ Content(r) \in Seq(Values) /\ Len(Content(r)) = Filled(r)
           /\ \A i \in 1 .. Filled(r) :
                 LET k == kb_tail + i - 1
                 IN  Content(r)[i] = r.buf[IF k < N THEN k ELSE k - N]
<1>1. N \in Nat /\ N >= 2 /\ Filled(r) \in 0 .. N - 1
  BY SizeAssumption, FilledIs DEF N, RingOK
<1>2. ASSUME NEW i \in 1 .. Filled(r)
      PROVE  LET k == kb_tail + i - 1
             IN  /\ k % N = IF k < N THEN k ELSE k - N
                 /\ k % N \in Slots
  <2>1. kb_tail + i - 1 \in 0 .. 2 * N - 1
    BY <1>1 DEF Slots, N
  <2> QED
    BY <1>1, <2>1, Remainder DEF Slots, N
<1>3. \A i \in 1 .. Filled(r) : r.buf[(kb_tail + i - 1) % N] \in Values
  BY <1>2 DEF RingOK, Values
<1> QED
  BY <1>1, <1>2, <1>3 DEF Content

(* kbuf_put appends the character if the ring has room for it.             *)
LEMMA PutAppends ==
    ASSUME NEW r, RingOK(r), kb_tail \in Slots, NEW ch \in Characters
    PROVE  Content(kbuf_put(r, ch)) =
              IF Len(Content(r)) < N - 1 THEN Append(Content(r), ch) ELSE Content(r)
<1> DEFINE t == kbuf_put(r, ch)
           n == Filled(r)
<1>1. N \in Nat /\ N >= 2 /\ n \in 0 .. N - 1 /\ r.head \in Slots
  BY SizeAssumption, FilledIs DEF N, RingOK
<1>2. n = IF r.head >= kb_tail THEN r.head - kb_tail ELSE r.head - kb_tail + N
  BY FilledIs DEF RingOK
<1>3. Advance(r.head) = IF r.head + 1 < N THEN r.head + 1 ELSE 0
  <2>1. r.head + 1 \in 0 .. 2 * N - 1
    BY <1>1 DEF Slots, N
  <2> QED
    BY <1>1, <2>1, Remainder DEF Advance, Slots, N
<1>4. Advance(r.head) # kb_tail <=> n < N - 1
  BY <1>1, <1>2, <1>3 DEF Slots, N
<1>5. RingOK(t)
  BY PutKeeps
<1>6. /\ Content(r) \in Seq(Values) /\ Len(Content(r)) = n
      /\ Content(t) \in Seq(Values) /\ Len(Content(t)) = Filled(t)
  BY <1>5, ContentIs
<1>7. CASE n < N - 1
  <2>1. t = [buf |-> [r.buf EXCEPT ![r.head] = ch], head |-> Advance(r.head)]
    BY <1>4, <1>7 DEF kbuf_put
  <2>2. Filled(t) = n + 1
    <3>1. Filled(t) = IF t.head >= kb_tail THEN t.head - kb_tail ELSE t.head - kb_tail + N
      BY <1>5, FilledIs DEF RingOK
    <3> QED
      BY <1>1, <1>2, <1>3, <1>7, <2>1, <3>1 DEF Slots, N
  <2>3. ASSUME NEW i \in 1 .. n + 1
        PROVE  Content(t)[i] = Append(Content(r), ch)[i]
    <3> DEFINE k == kb_tail + i - 1
               j == IF k < N THEN k ELSE k - N
    <3>1. Content(t)[i] = t.buf[j]
      BY <1>5, <2>2, ContentIs
    <3>2. j \in Slots /\ (j = r.head <=> i = n + 1)
      BY <1>1, <1>2, <1>7 DEF Slots, N
    <3>3. CASE i = n + 1
      <4>1. Content(t)[i] = ch
        BY <2>1, <3>1, <3>2, <3>3 DEF RingOK
      <4> QED
        BY <1>1, <1>6, <3>3, <4>1
    <3>4. CASE i # n + 1
      <4>1. i \in 1 .. n
        BY <1>1, <3>4
      <4>2. Content(r)[i] = r.buf[j]
        BY <4>1, ContentIs
      <4>3. Content(t)[i] = r.buf[j]
        BY <2>1, <3>1, <3>2, <3>4 DEF RingOK
      <4> QED
        BY <1>1, <1>6, <4>1, <4>2, <4>3
    <3> QED
      BY <3>3, <3>4
  <2>4. Append(Content(r), ch) \in Seq(Values) /\ Len(Append(Content(r), ch)) = n + 1
    BY <1>6 DEF Values
  <2> QED
    <3> HIDE DEF t, n
    <3>1. Content(t) = Append(Content(r), ch)
      BY <1>1, <1>6, <2>2, <2>3, <2>4
    <3> QED
      BY <1>6, <1>7, <3>1 DEF t
<1>8. CASE ~(n < N - 1)
  BY <1>4, <1>6, <1>8 DEF kbuf_put
<1> QED
  BY <1>7, <1>8

(* What a key that puts s into the ring makes of the queue.                *)
After(s) == Queue \o SubSeq(s, 1, KeyQ!Room(Len(s)))

LEMMA QueueIs ==
    ASSUME TypeOK
    PROVE  /\ RingOK(Ring) /\ Queue = Content(Ring)
           /\ Queue \in Seq(Values) /\ Len(Queue) \in 0 .. N - 1
           /\ Len(Queue) = Filled(Ring)
<1>1. RingOK(Ring) /\ kb_tail \in Slots
  BY DEF TypeOK, RingOK, Ring
<1>2. Queue = Content(Ring)
  BY DEF Queue, Waiting, Content, Filled, Ring, N
<1> QED
  BY <1>1, <1>2, ContentIs, FilledIs DEF RingOK

LEMMA PutOne ==
    ASSUME TypeOK, NEW ch \in Characters
    PROVE  Content(kbuf_put(Ring, ch)) = After(<<ch>>)
<1>1. /\ Queue = Content(Ring) /\ Queue \in Seq(Values) /\ Len(Queue) \in 0 .. N - 1
      /\ RingOK(Ring) /\ kb_tail \in Slots /\ N \in Nat
  BY QueueIs, SizeAssumption DEF TypeOK, N
<1>2. Content(kbuf_put(Ring, ch)) = IF Len(Queue) < N - 1 THEN Append(Queue, ch) ELSE Queue
  BY <1>1, PutAppends
<1>3. CASE Len(Queue) < N - 1
  <2>1. KeyQ!Room(Len(<<ch>>)) = 1
    BY <1>1, <1>3 DEF KeyQ!Room, N
  <2>2. Append(Queue, ch) = Queue \o SubSeq(<<ch>>, 1, 1)
    BY <1>1 DEF Values
  <2> QED
    BY <1>2, <1>3, <2>1, <2>2 DEF After
<1>4. CASE Len(Queue) = N - 1
  <2>1. KeyQ!Room(Len(<<ch>>)) = 0
    BY <1>1, <1>4 DEF KeyQ!Room, N
  <2>2. Queue = Queue \o SubSeq(<<ch>>, 1, 0)
    BY <1>1 DEF Values
  <2> QED
    BY <1>1, <1>2, <1>4, <2>1, <2>2 DEF After
<1> QED
  BY <1>1, <1>3, <1>4

LEMMA PutThree ==
    ASSUME TypeOK
    PROVE  Content(kbuf_put_seq(Ring, ArrowSeq)) = After(ArrowSeq)
<1> DEFINE a == kbuf_put(Ring, "ESC")
           b == kbuf_put(a, "[")
           t == kbuf_put(b, "A")
           q == Queue
           n == Len(Queue)
<1>1. /\ q = Content(Ring) /\ q \in Seq(Values) /\ n \in 0 .. N - 1
      /\ RingOK(Ring) /\ kb_tail \in Slots /\ N \in Nat
      /\ {"ESC", "[", "A"} \subseteq Characters
  BY QueueIs, SizeAssumption DEF TypeOK, N, Characters
<1>2. RingOK(a) /\ Content(a) = IF n < N - 1 THEN Append(q, "ESC") ELSE q
  BY <1>1, PutAppends, PutKeeps
<1> HIDE DEF a
<1>3. RingOK(b) /\ Content(b) = IF Len(Content(a)) < N - 1 THEN Append(Content(a), "[") ELSE Content(a)
  BY <1>1, <1>2, PutAppends, PutKeeps
<1> HIDE DEF b
<1>4. Content(t) = IF Len(Content(b)) < N - 1 THEN Append(Content(b), "A") ELSE Content(b)
  BY <1>1, <1>3, PutAppends
<1>5. t = kbuf_put_seq(Ring, ArrowSeq)
  BY DEF kbuf_put_seq, ArrowSeq, a, b
<1> HIDE DEF t, q
<1>6. KeyQ!Room(Len(ArrowSeq)) = IF 3 <= N - 1 - n THEN 3 ELSE N - 1 - n
  BY DEF KeyQ!Room, ArrowSeq, N
<1>7. CASE n + 3 <= N - 1
  <2>1. Content(t) = Append(Append(Append(q, "ESC"), "["), "A")
    BY <1>1, <1>2, <1>3, <1>4, <1>7 DEF q, Values
  <2>2. Append(Append(Append(q, "ESC"), "["), "A") = q \o SubSeq(ArrowSeq, 1, 3)
    BY <1>1 DEF ArrowSeq, Values
  <2> QED
    BY <1>1, <1>5, <1>6, <1>7, <2>1, <2>2 DEF After, q
<1>8. CASE n + 2 = N - 1
  <2>1. Content(t) = Append(Append(q, "ESC"), "[")
    BY <1>1, <1>2, <1>3, <1>4, <1>8 DEF q, Values
  <2>2. Append(Append(q, "ESC"), "[") = q \o SubSeq(ArrowSeq, 1, 2)
    BY <1>1 DEF ArrowSeq, Values
  <2> QED
    BY <1>1, <1>5, <1>6, <1>8, <2>1, <2>2 DEF After, q
<1>9. CASE n + 1 = N - 1
  <2>1. Content(t) = Append(q, "ESC")
    BY <1>1, <1>2, <1>3, <1>4, <1>9 DEF q, Values
  <2>2. Append(q, "ESC") = q \o SubSeq(ArrowSeq, 1, 1)
    BY <1>1 DEF ArrowSeq, Values
  <2> QED
    BY <1>1, <1>5, <1>6, <1>9, <2>1, <2>2 DEF After, q
<1>10. CASE n = N - 1
  <2>1. Content(t) = q
    BY <1>1, <1>2, <1>3, <1>4, <1>10 DEF q, Values
  <2>2. q = q \o SubSeq(ArrowSeq, 1, 0)
    BY <1>1 DEF ArrowSeq, Values
  <2> QED
    BY <1>1, <1>5, <1>6, <1>10, <2>1, <2>2 DEF After, q
<1> QED
  BY <1>1, <1>7, <1>8, <1>9, <1>10

(* An interrupt puts the string of its key, or nothing, into the queue.    *)
LEMMA HandlerRefines ==
    ASSUME IInv, NEW sc, keyboard_handler(sc)
    PROVE  [KeyQ!Next]_<<Queue, key>>
<1>1. kb_tail' = kb_tail /\ key' = key /\ TypeOK
  BY DEF keyboard_handler, reader, IInv
<1>2. ASSUME NEW r, Store(r) PROVE Queue' = Content(r)
  BY <1>1, <1>2 DEF Queue, Waiting, Content, Filled, Store, N
<1>3. ASSUME NEW ch \in Characters, Store(kbuf_put(Ring, ch))
      PROVE  KeyQ!Next
  <2>1. Queue' = After(<<ch>>)
    BY <1>1, <1>2, <1>3, PutOne
  <2> QED
    BY <1>1, <2>1 DEF KeyQ!Next, KeyQ!Put, After
<1>4. ASSUME Store(kbuf_put_seq(Ring, ArrowSeq))
      PROVE  KeyQ!Next
  <2>1. Queue' = After(ArrowSeq)
    BY <1>1, <1>2, <1>4, PutThree
  <2> QED
    BY <1>1, <2>1 DEF KeyQ!Next, KeyQ!Put, After
<1>5. ASSUME UNCHANGED <<kb_buffer, kb_head>> PROVE UNCHANGED <<Queue, key>>
  BY <1>1, <1>5 DEF Queue, Waiting
<1>6. CASE Prefix(sc) \/ Modifier(sc) \/ UNCHANGED <<kb_buffer, kb_head, modifiers>>
  BY <1>5, <1>6 DEF Prefix, Modifier
<1>7. CASE Extended(sc)
  <2>1. \/ Store(kbuf_put_seq(Ring, ArrowSeq))
        \/ Store(kbuf_put(Ring, "/"))
        \/ Store(Ring)
    BY <1>7 DEF Extended
  <2>2. Store(Ring) => UNCHANGED <<kb_buffer, kb_head>>
    BY DEF Store, Ring
  <2> QED
    BY <1>3, <1>4, <1>5, <2>1, <2>2 DEF Characters
<1>8. CASE Make(sc)
  <2>1. ascii(sc) \in Characters
    BY <1>1, <1>8 DEF Make, ascii, Characters, TypeOK
  <2> QED
    BY <1>3, <1>8, <2>1 DEF Make
<1> QED
  BY <1>6, <1>7, <1>8 DEF keyboard_handler

(* The reader takes the first character when it moves the tail.            *)
LEMMA AdvanceRefines ==
    ASSUME IInv, ReadAdvance
    PROVE  KeyQ!Get
<1> DEFINE n == Filled(Ring)
           j(t, i) == IF t + i - 1 < N THEN t + i - 1 ELSE t + i - 1 - N
<1>1. /\ TypeOK /\ kpc = "advance" /\ kb_head # kb_tail /\ kb_buffer[kb_tail] = c
      /\ kb_tail' = Advance(kb_tail) /\ key' = c /\ kb_buffer' = kb_buffer /\ kb_head' = kb_head
  BY DEF IInv, ReadAdvance, Go, ReadNeverWaits, SlotKept
<1>2. N \in Nat /\ N >= 2 /\ kb_head \in Slots /\ kb_tail \in Slots /\ Ring.head = kb_head /\ Ring.buf = kb_buffer
  BY <1>1, SizeAssumption DEF TypeOK, N, Ring
<1>3. /\ Queue \in Seq(Values) /\ Len(Queue) = n
      /\ \A i \in 1 .. n : Queue[i] = kb_buffer[j(kb_tail, i)]
  <2>1. RingOK(Ring) /\ Queue = Content(Ring) /\ Queue \in Seq(Values) /\ Len(Queue) = n
    BY <1>1, QueueIs
  <2>2. kb_tail \in Slots
    BY <1>2
  <2>3. \A i \in 1 .. n : LET k == kb_tail + i - 1
                          IN  Content(Ring)[i] = Ring.buf[IF k < N THEN k ELSE k - N]
    BY ONLY <2>1, <2>2, ContentIs
  <2>4. kb_tail \in Int /\ n \in Int /\ N \in Int
    BY <1>2, FilledIs DEF Slots, N
  <2> HIDE DEF n
  <2> QED
    BY <1>2, <2>1, <2>3, <2>4
<1>4. n = (IF kb_head >= kb_tail THEN kb_head - kb_tail ELSE kb_head - kb_tail + N)
  BY <1>2, FilledIs
<1>5. n \in 1 .. N - 1
  BY <1>1, <1>2, <1>4 DEF Slots, N
<1>6. Queue[1] = c
  BY <1>1, <1>2, <1>3, <1>5 DEF Slots, N
<1>7. Advance(kb_tail) = IF kb_tail + 1 < N THEN kb_tail + 1 ELSE 0
  <2>1. kb_tail + 1 \in 0 .. 2 * N - 1
    BY <1>2 DEF Slots, N
  <2> QED
    BY <1>2, <2>1, Remainder DEF Advance, Slots, N
<1>8. Advance(kb_tail) \in Slots
  BY <1>2, <1>7 DEF Slots, N
<1>9. Waiting' = n - 1
  <2>1. kb_head - Advance(kb_tail) + N \in 0 .. 2 * N - 1
    BY <1>2, <1>8 DEF Slots, N
  <2>2. Waiting' = (kb_head - Advance(kb_tail) + N) % N
    BY <1>1 DEF Waiting, N
  <2> QED
    BY <1>1, <1>2, <1>4, <1>7, <2>1, <2>2, Remainder DEF Slots, N
<1>10. Queue' = [i \in 1 .. n - 1 |-> kb_buffer[(Advance(kb_tail) + i - 1) % N]]
  BY <1>1, <1>9 DEF Queue, N
<1>11. ASSUME NEW i \in 1 .. n - 1
       PROVE  kb_buffer[(Advance(kb_tail) + i - 1) % N] = Queue[i + 1]
  <2>1. Advance(kb_tail) + i - 1 \in 0 .. 2 * N - 1
    BY <1>2, <1>5, <1>8 DEF Slots, N
  <2> DEFINE x == Advance(kb_tail) + i - 1
  <2>2. x % N = IF x < N THEN x ELSE x - N
    <3> HIDE DEF x
    <3> QED
      BY <2>1, Remainder DEF x
  <2>3. j(Advance(kb_tail), i) = j(kb_tail, i + 1)
    BY <1>2, <1>5, <1>7 DEF Slots, N
  <2>4. i + 1 \in 1 .. n /\ Queue[i + 1] = kb_buffer[j(kb_tail, i + 1)]
    <3>1. i + 1 \in 1 .. n
      BY <1>5
    <3> QED
      BY <1>3, <3>1
  <2>5. Advance(kb_tail) \in Int /\ kb_tail \in Int /\ N \in Int
    BY <1>2, <1>8 DEF Slots
  <2> QED
    BY <2>2, <2>3, <2>4, <2>5
<1> HIDE DEF n
<1>12. Queue' = Tail(Queue)
  <2>1. Queue' = [i \in 1 .. n - 1 |-> Queue[i + 1]]
    BY <1>10, <1>11
  <2>2. /\ Tail(Queue) \in Seq(Values) /\ Len(Tail(Queue)) = n - 1
        /\ \A i \in 1 .. n - 1 : Tail(Queue)[i] = Queue[i + 1]
    BY <1>3, <1>5
  <2> DEFINE s == [i \in 1 .. n - 1 |-> Queue[i + 1]]
  <2>3. s \in Seq(Values) /\ Len(s) = n - 1
    BY <1>3, <1>5
  <2>4. \A i \in 1 .. n - 1 : s[i] = Tail(Queue)[i]
    BY <2>2
  <2> HIDE DEF s
  <2>5. s = Tail(Queue)
    BY <1>5, <2>2, <2>3, <2>4
  <2> QED
    BY <2>1, <2>5 DEF s
<1> QED
  BY <1>1, <1>3, <1>5, <1>6, <1>12 DEF KeyQ!Get

(* The ring with its reader is a bounded queue, for every size of the      *)
(* ring: characters come out in order and once, and only what finds the    *)
(* ring full is lost, from the end of what one key puts in.                *)
THEOREM ImplementsQueue == Spec => RefinesQueue
<1>1. Init => KeyQ!Init
  <2> SUFFICES ASSUME Init PROVE KeyQ!Init
    OBVIOUS
  <2>1. Waiting = 0
    BY SizeAssumption DEF Init, Waiting
  <2> QED
    BY <2>1 DEF Init, KeyQ!Init, Queue
<1>2. IInv /\ [Next]_vars => [KeyQ!Next]_<<Queue, key>>
  <2> SUFFICES ASSUME IInv, [Next]_vars PROVE [KeyQ!Next]_<<Queue, key>>
    OBVIOUS
  <2>1. ASSUME UNCHANGED <<kb_buffer, kb_head, kb_tail, key>> PROVE UNCHANGED <<Queue, key>>
    BY <2>1 DEF Queue, Waiting
  <2>2. CASE timer_tick \/ UNCHANGED vars
    BY <2>1, <2>2 DEF timer_tick, reader, vars
  <2>3. CASE keyboard_avail \/ ReadTest \/ ReadLoad \/ Halt
    BY <2>1, <2>3 DEF keyboard_avail, ReadTest, ReadLoad, Halt, ring
  <2>4. CASE ReadAdvance
    BY <2>4, AdvanceRefines DEF KeyQ!Next
  <2> QED
    BY <2>2, <2>3, <2>4, HandlerRefines DEF Next, Loop
<1> QED
  BY <1>1, <1>2, Inductive, PTL DEF Spec, RefinesQueue, KeyQ!Spec

=============================================================================
