------------------------------ MODULE Keyboard ------------------------------
(***************************************************************************)
(* The PS/2 keyboard driver of driver/keyboard.c: one run of               *)
(* keyboard_handler per byte of the controller, and the non-blocking       *)
(* getchar that the read system calls use.  Characters are ASCII codes, 0  *)
(* is no character.                                                        *)
(***************************************************************************)
EXTENDS Integers, Sequences, FiniteSets

CONSTANT BUFFER_SIZE       \* 256 in the code

ASSUME BufferSizeAssumption == BUFFER_SIZE \in Nat /\ BUFFER_SIZE > 1

VARIABLES
    key_buffer, head, tail,        \* the ring of characters
    key_down,                      \* the bitmap of keys held down, as a set
    k_down, shift_state,           \* shift keys down; bit KG_SHIFT of the state
    caps_lock, num_lock,
    rep,                           \* the byte repeats a key that is held
    prev_scancode,                 \* 0, or the prefix byte just received
    event                          \* history: the last character handed to push_to_buffer
                                   \* or returned by getchar; no action reads it

ring     == <<key_buffer, head, tail, event>>
modes    == <<key_down, k_down, shift_state, caps_lock, num_lock, rep>>
keyboard == <<ring, modes, prev_scancode>>

Scancode == 0 .. 127
Byte     == 0 .. 255
Char     == 1 .. 127

KEY_UP == 1
KEY_DOWN == 2
KEY_LEFT == 3
KEY_RIGHT == 4
KEY_HOME == 16
KEY_END == 17
KEY_PGUP == 18
KEY_PGDN == 19
KEY_INS == 20
KEY_DEL == 21

PrefixBytes   == {224, 225}      \* 0xE0, 0xE1
ShiftKeys  == {42, 54}        \* 0x2A, 0x36
CapsKey    == 58              \* 0x3A
NumLockKey == 69              \* 0x45
Keypad     == {55} \cup (71 .. 83)

KeyboardInit ==
    /\ key_buffer = [i \in 0 .. BUFFER_SIZE - 1 |-> 0] /\ head = 0 /\ tail = 0
    /\ key_down = {} /\ k_down = 0 /\ shift_state = 0
    /\ caps_lock = 0 /\ num_lock = 0 /\ rep = FALSE
    /\ prev_scancode = 0
    /\ event = [op |-> "none", char |-> 0, turn |-> 0]

-----------------------------------------------------------------------------
(* The ring *)

\* What event becomes when c is handed over; its turn flips each time.
Handed(op, c) == [op |-> op, char |-> c, turn |-> 1 - event.turn]

\* Mutant: the ring counts as full one character too early.
push_to_buffer_early(c) ==
    IF (head + 1) % BUFFER_SIZE = tail \/ (head + 2) % BUFFER_SIZE = tail
    THEN UNCHANGED <<key_buffer, head, tail>>
    ELSE /\ key_buffer' = [key_buffer EXCEPT ![head] = c]
         /\ head' = (head + 1) % BUFFER_SIZE
         /\ tail' = tail

push_to_buffer(c) ==
    LET next == (head + 1) % BUFFER_SIZE
    IN  IF next = tail THEN UNCHANGED <<key_buffer, head, tail>>
        ELSE /\ key_buffer' = [key_buffer EXCEPT ![head] = c]
             /\ head' = next
             /\ tail' = tail

\* What getchar returns, and its effect on the ring.
CharRead == IF tail = head THEN 0 ELSE key_buffer[tail]

getchar ==
    /\ tail' = IF tail = head THEN tail ELSE (tail + 1) % BUFFER_SIZE
    /\ event' = Handed("read", CharRead)
    /\ UNCHANGED <<key_buffer, head, modes, prev_scancode>>

-----------------------------------------------------------------------------
(* Scan codes to characters *)

\* Scan codes 0 to 57; the rest of the table is 0.
scancode_to_ascii(code) ==
    IF code > 57 THEN 0
    ELSE <<0, 27, 49, 50, 51, 52, 53, 54, 55, 56, 57, 48, 45, 61, 8, 9,
           113, 119, 101, 114, 116, 121, 117, 105, 111, 112, 91, 93, 10, 0,
           97, 115, 100, 102, 103, 104, 106, 107, 108, 59, 39, 96, 0, 92,
           122, 120, 99, 118, 98, 110, 109, 44, 46, 47, 0, 42, 0, 32>>[code + 1]

\* The characters that shift changes, and what it changes them to.
Unshifted == <<49, 50, 51, 52, 53, 54, 55, 56, 57, 48, 45, 61, 91, 93, 59, 39, 96, 92, 44, 46, 47>>
Shifted   == <<33, 64, 35, 36, 37, 94, 38, 42, 40, 41, 95, 43, 123, 125, 58, 34, 126, 124, 60, 62, 63>>

ShiftOf(c) ==
    IF \E i \in 1 .. Len(Unshifted) : Unshifted[i] = c
    THEN Shifted[CHOOSE i \in 1 .. Len(Unshifted) : Unshifted[i] = c]
    ELSE c

Letter(c) == c \in 97 .. 122

CharOf(code) ==
    LET c == scancode_to_ascii(code)
    IN  IF Letter(c) THEN (IF shift_state # caps_lock THEN c - 32 ELSE c)
        ELSE IF shift_state = 1 THEN ShiftOf(c)
        ELSE c

push_arrow(code) ==
    IF code \in 71 .. 83
    THEN <<KEY_HOME, KEY_UP, KEY_PGUP, 0, KEY_LEFT, 0, KEY_RIGHT, 0,
           KEY_END, KEY_DOWN, KEY_PGDN, KEY_INS, KEY_DEL>>[code - 70]
    ELSE 0

\* '*', '-', '+', then digits with NumLock and navigation keys without.
handle_keypad(code) ==
    CASE code = 55 -> 42
      [] code = 74 -> 45
      [] code = 78 -> 43
      [] code \in (71 .. 83) \ {74, 78} ->
            IF num_lock = 1
            THEN <<55, 56, 57, 45, 52, 53, 54, 43, 49, 50, 51, 48, 46>>[code - 70]
            ELSE push_arrow(code)

ExtendedChar(code) ==
    CASE code = 28 -> 10
      [] code = 53 -> 47
      [] OTHER -> push_arrow(code)

-----------------------------------------------------------------------------
(* The interrupt handler *)

\* Mutant: a repeated make code counts as another key.
do_shift_counts_repeats(up, r) ==
    /\ k_down' = IF up THEN (IF k_down > 0 THEN k_down - 1 ELSE 0) ELSE k_down + 1
    /\ shift_state' = IF k_down' > 0 THEN 1 ELSE 0

\* r is the value of rep that the handler has just assigned.
do_shift(up, r) ==
    IF r THEN UNCHANGED <<k_down, shift_state>>
    ELSE /\ k_down' = IF up THEN (IF k_down > 0 THEN k_down - 1 ELSE 0) ELSE k_down + 1
         /\ shift_state' = IF k_down' > 0 THEN 1 ELSE 0

\* 0 is not pushed.
PushIfAny(c) ==
    IF c = 0 THEN UNCHANGED ring ELSE push_to_buffer(c) /\ event' = Handed("push", c)

OnPrefix(byte) ==
    /\ byte \in PrefixBytes
    /\ prev_scancode' = byte
    /\ UNCHANGED <<ring, modes>>

\* Mutant: the shift codes that wrap an extended key are taken for keys.
OnExtended_shifts(byte) ==
    LET code == byte % 128
        up   == byte >= 128
    IN  /\ byte \notin PrefixBytes /\ prev_scancode # 0
        /\ prev_scancode' = 0
        /\ IF code \in ShiftKeys
           THEN do_shift(up, FALSE) /\ UNCHANGED <<key_down, caps_lock, num_lock, rep, ring>>
           ELSE UNCHANGED modes /\ PushIfAny(IF up THEN 0 ELSE ExtendedChar(code))

\* The byte after a prefix: releases, and the fake shifts, have no effect.
OnExtended(byte) ==
    LET code == byte % 128
        up   == byte >= 128
    IN  /\ byte \notin PrefixBytes /\ prev_scancode # 0
        /\ prev_scancode' = 0
        /\ PushIfAny(IF up \/ code \in ShiftKeys THEN 0 ELSE ExtendedChar(code))
        /\ UNCHANGED modes

OnRelease(byte) ==
    LET code == byte - 128
    IN  /\ byte \notin PrefixBytes /\ prev_scancode = 0 /\ byte >= 128
        /\ key_down' = key_down \ {code}
        /\ rep' = FALSE
        /\ IF code \in ShiftKeys THEN do_shift(TRUE, FALSE)
           ELSE UNCHANGED <<k_down, shift_state>>
        /\ UNCHANGED <<ring, caps_lock, num_lock, prev_scancode>>

\* Mutant: a lock key toggles again each time its make code repeats.
Toggle_each_time(lock, r) == 1 - lock

Toggle(lock, r) == IF r THEN lock ELSE 1 - lock

OnPress(code) ==
    LET r == code \in key_down
    IN  /\ prev_scancode = 0 /\ code < 128
        /\ rep' = r
        /\ key_down' = key_down \cup {code}
        /\ IF code \in ShiftKeys THEN do_shift(FALSE, r)
           ELSE UNCHANGED <<k_down, shift_state>>
        /\ caps_lock' = IF code = CapsKey THEN Toggle(caps_lock, r) ELSE caps_lock
        /\ num_lock' = IF code = NumLockKey THEN Toggle(num_lock, r) ELSE num_lock
        /\ PushIfAny(CASE code \in ShiftKeys \cup {CapsKey, NumLockKey} -> 0
                       [] code \in Keypad -> handle_keypad(code)
                       [] OTHER -> CharOf(code))
        /\ UNCHANGED prev_scancode

\* One byte of the controller, with interrupts off to the end of the handler.
keyboard_handler(byte) ==
    OnPrefix(byte) \/ OnExtended(byte) \/ OnRelease(byte) \/ OnPress(byte)

\* The PS/2 keyboard sends a break code only for a key whose make code it has
\* sent.  Bytes after a prefix, and make codes, may be any.
Sendable(byte) ==
    byte >= 128 /\ byte \notin PrefixBytes /\ prev_scancode = 0 => byte - 128 \in key_down

\* The driver by itself: any byte of such a keyboard, and tasks that read.
KeyboardNext == getchar \/ \E byte \in Byte : Sendable(byte) /\ keyboard_handler(byte)

KeyboardSpec == KeyboardInit /\ [][KeyboardNext]_keyboard

-----------------------------------------------------------------------------
(* What the driver promises *)

\* Where the characters that wait are, oldest first.
Waiting == (head - tail) % BUFFER_SIZE

Contents == [i \in 1 .. Waiting |-> key_buffer[(tail + i - 1) % BUFFER_SIZE]]

Fifo == INSTANCE KeyFifo WITH CAPACITY <- BUFFER_SIZE - 1, fifo <- Contents

\* The ring that interrupts fill and getchar empties is a queue: every character
\* handed to push_to_buffer (keyboard.c:41) is appended unless BUFFER_SIZE - 1
\* wait, and every getchar takes and returns the oldest, or returns 0 when none
\* waits.  So none is lost before the ring is full, none is repeated or invented
\* and the order is kept.
RingIsFifo == Fifo!Spec

\* The count of do_shift agrees with the bitmap of held keys, in whatever order
\* keys are pressed, repeated and released, so the last shift key that is
\* released, and no other, ends the shift state.
ShiftCountsKeys ==
    /\ k_down = Cardinality(key_down \cap ShiftKeys)
    /\ shift_state = IF k_down > 0 THEN 1 ELSE 0

=============================================================================
