--------------------------- MODULE KeyboardProofs ---------------------------
(***************************************************************************)
(* The keyboard driver for every size of the ring and every sequence of    *)
(* bytes: the shift count agrees with the keys that are down, and the ring *)
(* is a bounded queue between the interrupt and the readers.               *)
(***************************************************************************)
EXTENDS Keyboard, TLAPS, FiniteSetTheorems, SequenceTheorems

\* Each leaf goes to the SMT solver unless it names another prover.
USE SMTT(60)

-----------------------------------------------------------------------------
(* Shift *)

\* How many of the two shift keys a set of keys has.
LEMMA ShiftCount ==
  ASSUME NEW S
  PROVE  Cardinality(S \cap ShiftKeys)
           = (IF 42 \in S THEN 1 ELSE 0) + (IF 54 \in S THEN 1 ELSE 0)
<1>1. Cardinality({}) = 0
  BY ZenonT(60), FS_EmptySet
<1>2. Cardinality({42}) = 1 /\ Cardinality({54}) = 1 /\ IsFiniteSet({42})
  BY ZenonT(60), FS_Singleton
<1>3. Cardinality({42} \cup {54}) = 2
  <2>1. 54 \notin {42}
    OBVIOUS
  <2> QED BY <1>2, <2>1, FS_AddElement
<1>4. CASE 42 \in S /\ 54 \in S
  <2>1. S \cap ShiftKeys = {42} \cup {54}
    BY <1>4 DEF ShiftKeys
  <2> QED BY <2>1, <1>3, <1>4
<1>5. CASE 42 \in S /\ 54 \notin S
  <2>1. S \cap ShiftKeys = {42}
    BY <1>5 DEF ShiftKeys
  <2> QED BY <2>1, <1>2, <1>5
<1>6. CASE 42 \notin S /\ 54 \in S
  <2>1. S \cap ShiftKeys = {54}
    BY <1>6 DEF ShiftKeys
  <2> QED BY <2>1, <1>2, <1>6
<1>7. CASE 42 \notin S /\ 54 \notin S
  <2>1. S \cap ShiftKeys = {}
    BY <1>7 DEF ShiftKeys
  <2> QED BY <2>1, <1>1, <1>7
<1> QED BY <1>4, <1>5, <1>6, <1>7

\* A key that is pressed or released is counted exactly if it changes the set.
LEMMA ShiftStep ==
  ASSUME ShiftCountsKeys, [KeyboardNext]_keyboard
  PROVE  ShiftCountsKeys'
<1> DEFINE n(S) == (IF 42 \in S THEN 1 ELSE 0) + (IF 54 \in S THEN 1 ELSE 0)
<1>0. k_down = n(key_down) /\ shift_state = IF k_down > 0 THEN 1 ELSE 0
  BY ShiftCount DEF ShiftCountsKeys
<1>1. SUFFICES k_down' = n(key_down') /\ shift_state' = IF k_down' > 0 THEN 1 ELSE 0
  BY ShiftCount DEF ShiftCountsKeys
<1>2. CASE UNCHANGED modes
  BY <1>0, <1>2 DEF modes
<1>3. ASSUME NEW byte \in Byte, Sendable(byte), OnRelease(byte)
      PROVE  k_down' = n(key_down') /\ shift_state' = IF k_down' > 0 THEN 1 ELSE 0
  <2> DEFINE code == byte - 128
  <2>1. /\ key_down' = key_down \ {code}
        /\ IF code \in ShiftKeys THEN do_shift(TRUE, FALSE) ELSE UNCHANGED <<k_down, shift_state>>
    BY ZenonT(60), <1>3 DEF OnRelease
  <2>2. CASE code \in ShiftKeys
    <3>1. /\ k_down' = IF k_down > 0 THEN k_down - 1 ELSE 0
          /\ shift_state' = IF k_down' > 0 THEN 1 ELSE 0
      BY ZenonT(60), <2>1, <2>2 DEF do_shift
    <3>2. code \in key_down
      BY <1>3 DEF Sendable, OnRelease, Byte
    <3> QED BY <1>0, <2>1, <2>2, <3>1, <3>2 DEF ShiftKeys
  <2>3. CASE code \notin ShiftKeys
    BY <1>0, <2>1, <2>3 DEF ShiftKeys
  <2> QED BY <2>2, <2>3
<1>4. ASSUME NEW byte \in Byte, OnPress(byte)
      PROVE  k_down' = n(key_down') /\ shift_state' = IF k_down' > 0 THEN 1 ELSE 0
  <2> DEFINE r == byte \in key_down
  <2>1. /\ key_down' = key_down \cup {byte}
        /\ IF byte \in ShiftKeys THEN do_shift(FALSE, r) ELSE UNCHANGED <<k_down, shift_state>>
    BY ZenonT(60), <1>4 DEF OnPress
  <2>2. CASE byte \in ShiftKeys /\ ~r
    <3>1. k_down' = k_down + 1 /\ shift_state' = IF k_down' > 0 THEN 1 ELSE 0
      BY ZenonT(60), <2>1, <2>2 DEF do_shift
    <3> QED BY <1>0, <2>1, <2>2, <3>1 DEF ShiftKeys
  <2>3. CASE r \/ byte \notin ShiftKeys
    <3>1. UNCHANGED <<k_down, shift_state>>
      BY ZenonT(60), <2>1, <2>3 DEF do_shift
    <3> QED BY <1>0, <2>1, <2>3, <3>1 DEF ShiftKeys
  <2> QED BY <2>2, <2>3
<1> QED
  BY <1>2, <1>3, <1>4
  DEF KeyboardNext, keyboard_handler, keyboard, getchar, OnPrefix, OnExtended

\* In whatever order keys are pressed, repeated and released, and whatever comes
\* after prefix bytes, the count of do_shift is the number of shift keys that are
\* down and the shift state says whether there is one.
THEOREM ShiftIsCounted == KeyboardSpec => []ShiftCountsKeys
<1>1. KeyboardInit => ShiftCountsKeys
  <2> SUFFICES ASSUME KeyboardInit PROVE ShiftCountsKeys
    OBVIOUS
  <2>1. key_down = {} /\ k_down = 0 /\ shift_state = 0
    BY DEF KeyboardInit
  <2> HIDE DEF KeyboardInit
  <2>2. Cardinality(key_down \cap ShiftKeys) = 0
    BY <2>1, ShiftCount
  <2> QED BY <2>1, <2>2 DEF ShiftCountsKeys
<1> QED BY <1>1, ShiftStep, PTL DEF KeyboardSpec

-----------------------------------------------------------------------------
(* The ring *)

N == BUFFER_SIZE

\* Positions in the ring.
LEMMA ModN ==
  /\ \A a \in 0 .. N - 1 : a % N = a
  /\ \A a \in N .. 2 * N - 1 : a % N = a - N
  /\ \A a \in -N .. -1 : a % N = a + N
<1>1. N \in Nat /\ N > 1
  BY BufferSizeAssumption DEF N
<1>2. \A a \in 0 .. N - 1 : a % N = a
  BY <1>1
<1>3. \A a \in N .. 2 * N - 1 : a % N = a - N
  BY <1>1
<1>4. \A a \in -N .. -1 : a % N = a + N
  BY <1>1
<1> QED BY <1>2, <1>3, <1>4

\* What a ring b with the positions h and t holds.
Held(b, h, t) == [i \in 1 .. (h - t) % N |-> b[(t + i - 1) % N]]

Code == 0 .. 127
Rings == [0 .. N - 1 -> Code]

\* It is a sequence of as many characters as head is ahead of tail.
LEMMA HeldSeq ==
  ASSUME NEW b \in Rings, NEW h \in 0 .. N - 1, NEW t \in 0 .. N - 1
  PROVE  /\ Held(b, h, t) \in Seq(Code)
         /\ Len(Held(b, h, t)) = (h - t) % N
         /\ Len(Held(b, h, t)) = IF h >= t THEN h - t ELSE h - t + N
<1>1. N \in Nat /\ N > 1
  BY BufferSizeAssumption DEF N
<1>2. (h - t) % N = IF h >= t THEN h - t ELSE h - t + N
  BY <1>1, ModN
<1>3. (h - t) % N \in 0 .. N - 1
  BY <1>1, <1>2
<1>4. \A i \in 1 .. (h - t) % N : (t + i - 1) % N \in 0 .. N - 1
  BY <1>1, <1>3, ModN
<1>5. Held(b, h, t) \in [1 .. (h - t) % N -> Code]
  BY <1>4 DEF Held, Rings
<1>6. Held(b, h, t) \in Seq(Code)
  BY <1>3, <1>5, SeqDef
<1>7. DOMAIN Held(b, h, t) = 1 .. (h - t) % N
  BY <1>5
<1> QED BY <1>2, <1>3, <1>6, <1>7, LenProperties

\* The place of the i-th character.
Place(t, i) == IF t + i - 1 < N THEN t + i - 1 ELSE t + i - 1 - N

\* The characters are found from tail on, around the end of the ring.
LEMMA HeldAt ==
  ASSUME NEW b \in Rings, NEW h \in 0 .. N - 1, NEW t \in 0 .. N - 1,
         NEW i \in 1 .. Len(Held(b, h, t))
  PROVE  Held(b, h, t)[i] = b[Place(t, i)]
<1>1. N \in Nat /\ N > 1
  BY BufferSizeAssumption DEF N
<1>2. i \in 1 .. (h - t) % N /\ (h - t) % N < N
  <2>1. PICK len : /\ len = Len(Held(b, h, t)) /\ len = (h - t) % N
                   /\ len = IF h >= t THEN h - t ELSE h - t + N
    BY ZenonT(60), HeldSeq
  <2> QED BY <1>1, <2>1
<1>3. t + i - 1 \in 0 .. 2 * N - 1
  BY <1>1, <1>2
<1>4. (t + i - 1) % N = Place(t, i)
  <2>1. CASE t + i - 1 < N
    BY <1>1, <1>3, <2>1, ModN DEF Place
  <2>2. CASE ~(t + i - 1 < N)
    <3>1. t + i - 1 \in N .. 2 * N - 1
      BY <1>1, <1>3, <2>2
    <3>2. (t + i - 1) % N = (t + i - 1) - N
      BY ZenonT(60), <3>1, ModN
    <3>3. Place(t, i) = (t + i - 1) - N
      BY <1>1, <2>2 DEF Place
    <3> QED BY ZenonT(60), <3>2, <3>3
  <2> QED BY <2>1, <2>2
<1> QED BY <1>2, <1>4 DEF Held

\* push_to_buffer appends one character, or drops it when N - 1 wait.
LEMMA HeldPush ==
  ASSUME NEW b \in Rings, NEW h \in 0 .. N - 1, NEW t \in 0 .. N - 1, NEW c \in Code
  PROVE  /\ (h + 1) % N \in 0 .. N - 1 /\ [b EXCEPT ![h] = c] \in Rings
         /\ (h + 1) % N = t => Len(Held(b, h, t)) = N - 1
         /\ (h + 1) % N # t =>
               /\ Len(Held(b, h, t)) < N - 1
               /\ Held([b EXCEPT ![h] = c], (h + 1) % N, t) = Append(Held(b, h, t), c)
<1>0. PICK n, b2, s, s2 : /\ n = (h + 1) % N /\ b2 = [b EXCEPT ![h] = c]
                          /\ s = Held(b, h, t) /\ s2 = Held(b2, n, t)
  BY ZenonT(60)
<1>1. N \in Nat /\ N > 1
  BY BufferSizeAssumption DEF N
<1>2. n = IF h + 1 < N THEN h + 1 ELSE 0
  BY <1>0, <1>1, ModN
<1>3. n \in 0 .. N - 1 /\ b2 \in Rings
  BY <1>0, <1>1, <1>2 DEF Rings
<1>4. s \in Seq(Code) /\ Len(s) = IF h >= t THEN h - t ELSE h - t + N
  BY ZenonT(60), <1>0, HeldSeq
<1>5. s2 \in Seq(Code) /\ Len(s2) = IF n >= t THEN n - t ELSE n - t + N
  BY ZenonT(60), <1>0, <1>3, HeldSeq
<1>6. n = t => Len(s) = N - 1
  BY <1>1, <1>2, <1>4
<1>7. ASSUME n # t PROVE Len(s) < N - 1 /\ s2 = Append(s, c)
  <2>1. Len(s) < N - 1 /\ Len(s2) = Len(s) + 1
    BY <1>1, <1>2, <1>4, <1>5, <1>7
  <2>2. ASSUME NEW i \in 1 .. Len(s2) PROVE s2[i] = Append(s, c)[i]
    <3>1. s2[i] = b2[Place(t, i)]
      <4>1. i \in 1 .. Len(Held(b2, n, t))
        BY <1>0
      <4>2. Held(b2, n, t)[i] = b2[Place(t, i)]
        BY ZenonT(60), <1>3, <4>1, HeldAt
      <4> QED BY ZenonT(60), <1>0, <4>2
    <3>2. CASE i = Len(s) + 1
      <4>1. Place(t, i) = h
        BY <1>1, <1>4, <2>1, <3>2 DEF Place
      <4>2. Append(s, c)[i] = c
        BY <1>4, <3>2
      <4> QED BY <1>0, <3>1, <4>1, <4>2 DEF Rings
    <3>3. CASE i \in 1 .. Len(s)
      <4>1. Place(t, i) # h /\ Place(t, i) \in 0 .. N - 1
        BY <1>1, <1>4, <2>1, <3>3 DEF Place
      <4>2. s[i] = b[Place(t, i)]
        <5>1. i \in 1 .. Len(Held(b, h, t))
          BY <1>0, <3>3
        <5>2. Held(b, h, t)[i] = b[Place(t, i)]
          BY ZenonT(60), <5>1, HeldAt
        <5> QED BY ZenonT(60), <1>0, <5>2
      <4>3. Append(s, c)[i] = s[i]
        BY <1>4, <3>3
      <4> QED BY <1>0, <3>1, <4>1, <4>2, <4>3 DEF Rings
    <3> QED BY <1>4, <2>1, <3>2, <3>3
  <2>3. Append(s, c) \in Seq(Code) /\ Len(Append(s, c)) = Len(s) + 1
    BY <1>4
  <2> QED BY ZenonT(60), <1>5, <2>1, <2>2, <2>3, SeqEqual
<1> QED BY ZenonT(60), <1>0, <1>3, <1>6, <1>7

\* getchar takes the oldest character.
LEMMA HeldPop ==
  ASSUME NEW b \in Rings, NEW h \in 0 .. N - 1, NEW t \in 0 .. N - 1, t # h
  PROVE  /\ (t + 1) % N \in 0 .. N - 1
         /\ Held(b, h, t) # << >>
         /\ Head(Held(b, h, t)) = b[t]
         /\ Held(b, h, (t + 1) % N) = Tail(Held(b, h, t))
<1>0. PICK n, s, s2 : n = (t + 1) % N /\ s = Held(b, h, t) /\ s2 = Held(b, h, n)
  BY ZenonT(60)
<1>1. N \in Nat /\ N > 1
  BY BufferSizeAssumption DEF N
<1>2. n = IF t + 1 < N THEN t + 1 ELSE 0
  BY <1>0, <1>1, ModN
<1>3. n \in 0 .. N - 1
  BY <1>1, <1>2
<1>4. s \in Seq(Code) /\ Len(s) = IF h >= t THEN h - t ELSE h - t + N
  BY ZenonT(60), <1>0, HeldSeq
<1>5. s2 \in Seq(Code) /\ Len(s2) = IF h >= n THEN h - n ELSE h - n + N
  BY ZenonT(60), <1>0, <1>3, HeldSeq
<1>6. Len(s) > 0 /\ Len(s2) = Len(s) - 1
  BY <1>1, <1>2, <1>4, <1>5
<1>7. s # << >>
  BY <1>6
<1>8. /\ Tail(s) \in Seq(Code) /\ Len(Tail(s)) = Len(s) - 1
      /\ \A i \in 1 .. Len(Tail(s)) : Tail(s)[i] = s[i + 1]
  BY <1>4, <1>7, HeadTailProperties
<1>9. ASSUME NEW i \in 1 .. Len(s2) PROVE s2[i] = Tail(s)[i]
  <2>1. Place(n, i) = Place(t, i + 1)
    BY <1>1, <1>2, <1>4, <1>6 DEF Place
  <2>2. s2[i] = b[Place(n, i)]
    <3>1. i \in 1 .. Len(Held(b, h, n))
      BY <1>0
    <3>2. Held(b, h, n)[i] = b[Place(n, i)]
      BY ZenonT(60), <1>3, <3>1, HeldAt
    <3> QED BY ZenonT(60), <1>0, <3>2
  <2>3. s[i + 1] = b[Place(t, i + 1)]
    <3>1. i + 1 \in 1 .. Len(Held(b, h, t))
      BY <1>0, <1>4, <1>6
    <3>2. Held(b, h, t)[i + 1] = b[Place(t, i + 1)]
      BY ZenonT(60), <3>1, HeldAt
    <3> QED BY ZenonT(60), <1>0, <3>2
  <2> QED BY <1>6, <1>8, <2>1, <2>2, <2>3
<1>10. s2 = Tail(s)
  BY ZenonT(60), <1>5, <1>6, <1>8, <1>9, SeqEqual
<1>11. Head(s) = b[t]
  <2>1. 1 \in 1 .. Len(Held(b, h, t))
    BY <1>0, <1>4, <1>6
  <2>2. Held(b, h, t)[1] = b[Place(t, 1)]
    BY ZenonT(60), <2>1, HeldAt
  <2>3. Place(t, 1) = t
    BY <1>1 DEF Place
  <2>4. Head(s) = s[1]
    BY <1>4, <1>7
  <2> QED BY ZenonT(60), <1>0, <2>2, <2>3, <2>4
<1> QED BY ZenonT(60), <1>0, <1>3, <1>7, <1>10, <1>11

-----------------------------------------------------------------------------
(* What the handler pushes *)

\* The part of the state that decides what is pushed and where.
RingType ==
    /\ key_buffer \in Rings /\ head \in 0 .. N - 1 /\ tail \in 0 .. N - 1
    /\ caps_lock \in {0, 1} /\ num_lock \in {0, 1} /\ shift_state \in {0, 1}

\* The tables hold ASCII codes.
LEMMA TableCodes ==
  /\ \A code \in Scancode : scancode_to_ascii(code) \in Code
  /\ \A c \in Code : ShiftOf(c) \in Code
  /\ \A code \in Scancode : push_arrow(code) \in Code
<1>0. ASSUME NEW j \in 1 .. 21 PROVE Shifted[j] \in Code
  BY DEF Shifted, Code
<1>1. \A code \in Scancode : scancode_to_ascii(code) \in Code
  BY DEF Scancode, Code, scancode_to_ascii
<1>2. \A c \in Code : ShiftOf(c) \in Code
  <2> TAKE c \in Code
  <2>1. CASE \E i \in 1 .. Len(Unshifted) : Unshifted[i] = c
    <3>1. PICK i \in 1 .. Len(Unshifted) : ShiftOf(c) = Shifted[i]
      BY ZenonT(60), <2>1 DEF ShiftOf
    <3>2. Len(Unshifted) = 21
      BY DEF Unshifted
    <3> QED BY <1>0, <3>1, <3>2
  <2>2. CASE ~ \E i \in 1 .. Len(Unshifted) : Unshifted[i] = c
    BY ZenonT(60), <2>2 DEF ShiftOf
  <2> QED BY <2>1, <2>2
<1>3. \A code \in Scancode : push_arrow(code) \in Code
  BY DEF Scancode, Code, push_arrow, KEY_HOME, KEY_UP, KEY_PGUP, KEY_LEFT, KEY_RIGHT,
         KEY_END, KEY_DOWN, KEY_PGDN, KEY_INS, KEY_DEL
<1> QED BY <1>1, <1>2, <1>3

\* So does every key.
LEMMA KeyCodes ==
  ASSUME RingType, NEW code \in Scancode
  PROVE  /\ CharOf(code) \in Code
         /\ ExtendedChar(code) \in Code
         /\ code \in Keypad => handle_keypad(code) \in Code
<1>1. CharOf(code) \in Code
  <2> DEFINE c == scancode_to_ascii(code)
  <2>1. c \in Code
    BY ZenonT(60), TableCodes
  <2>2. ShiftOf(c) \in Code
    BY ZenonT(60), <2>1, TableCodes
  <2>3. CharOf(code) \in {c, c - 32, ShiftOf(c)} /\ (CharOf(code) = c - 32 => Letter(c) \/ CharOf(code) = c \/ CharOf(code) = ShiftOf(c))
    BY ZenonT(60) DEF CharOf
  <2> HIDE DEF c
  <2> QED BY <2>1, <2>2, <2>3 DEF Letter, Code
<1>2. ExtendedChar(code) \in Code
  <2>1. push_arrow(code) \in Code
    BY ZenonT(60), TableCodes
  <2> QED BY <2>1 DEF ExtendedChar, Code
<1>3. ASSUME code \in Keypad PROVE handle_keypad(code) \in Code
  <2>1. push_arrow(code) \in Code
    BY ZenonT(60), TableCodes
  <2>2. code = 55 \/ code = 74 \/ code = 78 \/ code \in (71 .. 83) \ {74, 78}
    BY <1>3 DEF Keypad
  <2>3. CASE code \in (71 .. 83) \ {74, 78}
    <3>1. handle_keypad(code) =
            IF num_lock = 1
            THEN <<55, 56, 57, 45, 52, 53, 54, 43, 49, 50, 51, 48, 46>>[code - 70]
            ELSE push_arrow(code)
      BY <2>3 DEF handle_keypad
    <3> QED BY <2>1, <2>3, <3>1 DEF Code
  <2>4. CASE code = 55 \/ code = 74 \/ code = 78
    BY <2>4 DEF handle_keypad, Code
  <2> QED BY <2>2, <2>3, <2>4
<1> QED BY <1>1, <1>2, <1>3

\* The low seven bits of a byte are a scan code.
LEMMA Bytes ==
  ASSUME NEW byte \in Byte
  PROVE  byte % 128 \in Scancode
BY DEF Byte, Scancode

\* One push of a code, or none.
LEMMA PushStep ==
  ASSUME RingType, NEW c \in Code, PushIfAny(c)
  PROVE  /\ key_buffer' \in Rings /\ head' \in 0 .. N - 1 /\ tail' \in 0 .. N - 1
         /\ IF c = 0 THEN UNCHANGED <<Contents, event>> ELSE c \in Char /\ Fifo!Push(c)
<1>1. Contents = Held(key_buffer, head, tail)
  BY DEF Contents, Waiting, Held, N
<1>2. Contents' = Held(key_buffer', head', tail')
  BY DEF Contents, Waiting, Held, N
<1>3. head \in 0 .. N - 1 /\ tail \in 0 .. N - 1 /\ key_buffer \in Rings
  BY DEF RingType
<1>4. CASE c = 0
  BY <1>1, <1>2, <1>3, <1>4 DEF PushIfAny, ring
<1>5. CASE c # 0
  <2>1. push_to_buffer(c) /\ event' = Fifo!Handed("push", c) /\ c \in Char
    BY <1>5 DEF PushIfAny, Handed, Fifo!Handed, Code, Char
  <2>2. CASE (head + 1) % N = tail
    <3>1. UNCHANGED <<key_buffer, head, tail>>
      BY <2>1, <2>2 DEF push_to_buffer, N
    <3>2. Len(Contents) = N - 1 /\ Contents' = Contents
      <4>1. Len(Held(key_buffer, head, tail)) = N - 1
        BY ZenonT(60), <1>3, <2>2, HeldPush
      <4> QED BY <1>1, <1>2, <3>1, <4>1
    <3>3. N \in Nat /\ BUFFER_SIZE = N
      BY BufferSizeAssumption DEF N
    <3>4. Fifo!Push(c)
      BY <2>1, <3>2, <3>3 DEF Fifo!Push
    <3> QED BY <1>3, <1>5, <2>1, <3>1, <3>4
  <2>3. CASE (head + 1) % N # tail
    <3>1. /\ key_buffer' = [key_buffer EXCEPT ![head] = c]
          /\ head' = (head + 1) % N
          /\ tail' = tail
      BY <2>1, <2>3 DEF push_to_buffer, N
    <3>2. /\ head' \in 0 .. N - 1 /\ key_buffer' \in Rings
          /\ Len(Contents) < N - 1 /\ Contents' = Append(Contents, c)
      <4>1. /\ (head + 1) % N \in 0 .. N - 1 /\ [key_buffer EXCEPT ![head] = c] \in Rings
            /\ Len(Held(key_buffer, head, tail)) < N - 1
            /\ Held([key_buffer EXCEPT ![head] = c], (head + 1) % N, tail)
                 = Append(Held(key_buffer, head, tail), c)
        BY ZenonT(60), <1>3, <2>3, HeldPush
      <4> QED BY ZenonT(60), <1>1, <1>2, <3>1, <4>1
    <3>3. Fifo!Push(c)
      BY <2>1, <3>2 DEF Fifo!Push, N
    <3> QED BY <1>3, <1>5, <2>1, <3>1, <3>2, <3>3
  <2> QED BY <2>2, <2>3
<1> QED BY <1>4, <1>5

\* Every step of the driver pushes a code, reads the oldest character or leaves
\* the ring alone.
LEMMA DriverStep ==
  ASSUME RingType, [KeyboardNext]_keyboard
  PROVE  RingType' /\ [Fifo!Next]_<<Contents, event>>
<1> DEFINE Locks == caps_lock' \in {0, 1} /\ num_lock' \in {0, 1} /\ shift_state' \in {0, 1}
<1>1. CASE UNCHANGED keyboard
  BY <1>1 DEF keyboard, ring, modes, RingType, Contents, Waiting
<1>2. CASE getchar
  <2>1. Contents = Held(key_buffer, head, tail)
    BY DEF Contents, Waiting, Held, N
  <2>2. Contents' = Held(key_buffer', head', tail')
    BY DEF Contents, Waiting, Held, N
  <2>3. UNCHANGED <<key_buffer, head, caps_lock, num_lock, shift_state>>
    BY <1>2 DEF getchar, modes
  <2>4. CASE tail = head
    <3>1. tail' = tail /\ event' = Fifo!Handed("read", 0)
      BY <1>2, <2>4 DEF getchar, CharRead, Handed, Fifo!Handed
    <3>2. Contents = << >> /\ Contents' = Contents
      <4>1. head \in 0 .. N - 1 /\ tail \in 0 .. N - 1 /\ key_buffer \in Rings
        BY DEF RingType
      <4>2. Contents \in Seq(Code) /\ Len(Contents) = 0
        BY <2>1, <2>4, <4>1, HeldSeq
      <4>3. Contents = << >>
        BY ZenonT(60), <4>2, EmptySeq
      <4> QED BY <2>1, <2>2, <2>3, <3>1, <4>3
    <3>3. Fifo!Next
      BY ZenonT(60), <3>1, <3>2 DEF Fifo!Next, Fifo!Read
    <3> QED BY <2>3, <3>1, <3>3 DEF RingType
  <2>5. CASE tail # head
    <3>1. tail' = (tail + 1) % N /\ event' = Fifo!Handed("read", key_buffer[tail])
      BY <1>2, <2>5 DEF getchar, CharRead, Handed, Fifo!Handed, N
    <3>2. /\ tail' \in 0 .. N - 1 /\ Contents # << >> /\ Contents' = Tail(Contents)
          /\ Head(Contents) = key_buffer[tail]
      <4>1. head \in 0 .. N - 1 /\ tail \in 0 .. N - 1 /\ key_buffer \in Rings
        BY DEF RingType
      <4>2. /\ (tail + 1) % N \in 0 .. N - 1
            /\ Held(key_buffer, head, tail) # << >>
            /\ Head(Held(key_buffer, head, tail)) = key_buffer[tail]
            /\ Held(key_buffer, head, (tail + 1) % N) = Tail(Held(key_buffer, head, tail))
        BY ZenonT(60), <2>5, <4>1, HeldPop
      <4> QED BY ZenonT(60), <2>1, <2>2, <2>3, <3>1, <4>2
    <3>3. Fifo!Next
      BY ZenonT(60), <3>1, <3>2 DEF Fifo!Next, Fifo!Read
    <3> QED BY ZenonT(60), <2>3, <3>2, <3>3 DEF RingType
  <2> QED BY <2>4, <2>5
<1>3. ASSUME NEW byte \in Byte, keyboard_handler(byte)
      PROVE  Locks /\ \E c \in Code : PushIfAny(c)
  <2>0. PushIfAny(0) <=> UNCHANGED ring
    BY DEF PushIfAny
  <2>1. 0 \in Code
    BY DEF Code
  <2>2. CASE OnPrefix(byte)
    BY <2>0, <2>1, <2>2 DEF OnPrefix, modes, RingType
  <2>3. CASE OnExtended(byte)
    <3> DEFINE code == byte % 128
               c == IF byte >= 128 \/ code \in ShiftKeys THEN 0 ELSE ExtendedChar(code)
    <3>1. PushIfAny(c) /\ UNCHANGED modes
      BY ZenonT(60), <2>3 DEF OnExtended
    <3>2. ExtendedChar(code) \in Code
      BY ZenonT(60), Bytes, KeyCodes
    <3>3. c \in Code
      BY ZenonT(60), <2>1, <3>2
    <3>4. Locks
      BY <3>1 DEF modes, RingType
    <3> QED BY ZenonT(60), <3>1, <3>3, <3>4
  <2>4. CASE OnRelease(byte)
    <3>1. UNCHANGED <<ring, caps_lock, num_lock>>
      BY <2>4 DEF OnRelease
    <3>2. shift_state' \in {0, 1}
      BY <2>4 DEF OnRelease, do_shift, RingType
    <3> QED BY <2>0, <2>1, <3>1, <3>2 DEF RingType
  <2>5. CASE OnPress(byte)
    <3> DEFINE c == CASE byte \in ShiftKeys \cup {CapsKey, NumLockKey} -> 0
                      [] byte \in Keypad -> handle_keypad(byte)
                      [] OTHER -> CharOf(byte)
               r == byte \in key_down
    <3>1. /\ PushIfAny(c)
          /\ byte < 128
          /\ IF byte \in ShiftKeys THEN do_shift(FALSE, r) ELSE UNCHANGED <<k_down, shift_state>>
          /\ caps_lock' = IF byte = CapsKey THEN Toggle(caps_lock, r) ELSE caps_lock
          /\ num_lock' = IF byte = NumLockKey THEN Toggle(num_lock, r) ELSE num_lock
      BY ZenonT(60), <2>5 DEF OnPress
    <3>2. byte \in Scancode
      BY <3>1 DEF Byte, Scancode
    <3>3. CharOf(byte) \in Code /\ (byte \in Keypad => handle_keypad(byte) \in Code)
      BY ZenonT(60), <3>2, KeyCodes
    <3>4. byte \in Keypad => byte \notin ShiftKeys \cup {CapsKey, NumLockKey}
      BY DEF Keypad, ShiftKeys, CapsKey, NumLockKey
    <3>5. c \in Code
      BY ZenonT(60), <2>1, <3>3, <3>4
    <3>6. caps_lock' \in {0, 1} /\ num_lock' \in {0, 1}
      BY <3>1 DEF RingType, Toggle
    <3>7. shift_state' \in {0, 1}
      BY <3>1 DEF RingType, do_shift
    <3> QED BY ZenonT(60), <3>1, <3>5, <3>6, <3>7
  <2> QED BY ZenonT(60), <1>3, <2>2, <2>3, <2>4, <2>5 DEF keyboard_handler
<1>4. ASSUME NEW byte \in Byte, keyboard_handler(byte)
      PROVE  RingType' /\ [Fifo!Next]_<<Contents, event>>
  <2>1. PICK c \in Code : PushIfAny(c)
    BY ZenonT(60), <1>3, <1>4
  <2>2. /\ key_buffer' \in Rings /\ head' \in 0 .. N - 1 /\ tail' \in 0 .. N - 1
        /\ IF c = 0 THEN UNCHANGED <<Contents, event>> ELSE c \in Char /\ Fifo!Push(c)
    BY ZenonT(60), <2>1, PushStep
  <2>3. Locks
    BY ZenonT(60), <1>3, <1>4
  <2> QED BY ZenonT(60), <2>2, <2>3 DEF RingType, Fifo!Next
<1> QED BY ZenonT(60), <1>1, <1>2, <1>4 DEF KeyboardNext

\* For every size of the buffer and every sequence of bytes and reads: the ring
\* of keyboard.c is a queue of BUFFER_SIZE - 1 characters.  Each push_to_buffer
\* appends its character unless the queue is full, and each getchar takes and
\* returns the oldest, or 0 from an empty queue.
THEOREM RingCorrect == KeyboardSpec => RingIsFifo
<1>1. KeyboardInit => RingType /\ Fifo!Init
  <2> SUFFICES ASSUME KeyboardInit PROVE RingType /\ Fifo!Init
    OBVIOUS
  <2>0. event = [op |-> "none", char |-> 0, turn |-> 0]
    BY DEF KeyboardInit
  <2>1. N \in Nat /\ N > 1
    BY BufferSizeAssumption DEF N
  <2>2. key_buffer = [i \in 0 .. N - 1 |-> 0] /\ head = 0 /\ tail = 0
    BY DEF KeyboardInit, N
  <2>3. RingType
    BY <2>1, <2>2 DEF KeyboardInit, RingType, Rings, Code
  <2>4. Contents = Held(key_buffer, head, tail)
    BY DEF Contents, Waiting, Held, N
  <2>5. Contents \in Seq(Code) /\ Len(Contents) = 0
    BY <2>2, <2>3, <2>4, HeldSeq DEF RingType
  <2>6. Contents = << >>
    BY ZenonT(60), <2>5, EmptySeq
  <2> QED BY <2>0, <2>3, <2>6 DEF Fifo!Init
<1>2. RingType /\ [KeyboardNext]_keyboard => RingType' /\ [Fifo!Next]_<<Contents, event>>
  BY DriverStep
<1> QED BY <1>1, <1>2, PTL DEF KeyboardSpec, RingIsFifo, Fifo!Spec

=============================================================================
