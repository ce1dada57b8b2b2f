------------------------------ MODULE Keyboard -----------------------------
(***************************************************************************)
(* The PS/2 keyboard driver, src/kernel/drivers/keyboard.c: the interrupt  *)
(* handler kb_irq that turns scancodes into characters of a ring, and a    *)
(* reader in keyboard_getchar.  The handler is one step: it runs with      *)
(* interrupts off on the CPU the reader runs on.  keyboard_poll holds      *)
(* kb_lock, which the handler does not take, so an interrupt may come      *)
(* between any two of its accesses to the ring.  A key is named by its     *)
(* unshifted character or by its function; update_leds only writes to the  *)
(* device.  Operators named ..._bug are seeded faults for mutation runs.   *)
(***************************************************************************)
EXTENDS Integers, Sequences

CONSTANTS
  KB_BUF_SIZE,
  Keys             \* the keys of the keyboard

Modifiers == {"shift", "ctrl", "alt"}
Locks     == {"caps", "num", "scroll"}
Letters   == {"c", "l", "x"}       \* with a lower and an upper case
CtrlKeys  == {"c", "l"}            \* make ^C and ^L
Silent    == {"esc"}               \* 0 in the tables normal and shifted

ASSUME KeyboardAssumption == KB_BUF_SIZE \in Nat \ {0, 1}

VARIABLES
  buf, rp, wp,
  held,            \* the flags shift, ctrl and alt
  locks,           \* the flags caps, num and scroll
  extended,
  reader,          \* where keyboard_getchar is
  c,               \* its local variable
  returned         \* the last character it returned

keyVars    == <<held, locks, extended>>
readerVars == <<reader, c, returned>>
vars       == <<buf, rp, wp, keyVars, readerVars>>

Slots == 0 .. KB_BUF_SIZE - 1
Nul   == <<"nul">>
E0    == <<"e0">>
Extended  == <<"ext">>             \* the second byte of an extended key
Plain(k)  == <<"plain", k>>        \* normal[k]
Upper(k)  == <<"upper", k>>        \* shifted[k]
Control(k) == <<"ctrl", k>>
Typing == Keys \ (Modifiers \cup Locks \cup Silent)
Chars == {E0, Extended} \cup {Plain(k) : k \in Typing} \cup {Upper(k) : k \in Typing}
           \cup {Control(k) : k \in Keys \cap CtrlKeys}

keyboard_init ==
  /\ buf = [i \in Slots |-> Nul]
  /\ rp = 0 /\ wp = 0
  /\ held = {} /\ locks = {}
  /\ extended = FALSE
  /\ reader = "poll"
  /\ c = Nul
  /\ returned = Nul
-----------------------------------------------------------------------------
After(i) == (i + 1) % KB_BUF_SIZE

push_bug(r, ch) ==
  [buf |-> [r.buf EXCEPT ![r.wp] = ch], wp |-> After(r.wp)]

\* A character that finds the ring full is dropped.
push(r, ch) ==
  IF After(r.wp) # rp
  THEN [buf |-> [r.buf EXCEPT ![r.wp] = ch], wp |-> After(r.wp)]
  ELSE r

Ring == [buf |-> buf, wp |-> wp]
Store(r) == buf' = r.buf /\ wp' = r.wp

\* An interrupt also ends the hlt of keyboard_getchar.
EndHalt_bug == UNCHANGED reader

EndHalt == reader' = IF reader = "hlt" THEN "poll" ELSE reader

Irq == EndHalt /\ UNCHANGED <<rp, c, returned>>

ExtendedPrefix ==
  /\ Irq
  /\ extended' = TRUE
  /\ UNCHANGED <<buf, wp, held, locks>>

ExtendedKey_bug ==
  /\ Irq
  /\ extended
  /\ extended' = FALSE
  /\ \/ Store(push(push(Ring, Extended), E0))
     \/ UNCHANGED <<buf, wp>>
  /\ UNCHANGED <<held, locks>>

\* The byte after 0xE0: a press is passed on, a release is ignored.
ExtendedKey ==
  /\ Irq
  /\ extended
  /\ extended' = FALSE
  /\ \/ Store(push(push(Ring, E0), Extended))
     \/ UNCHANGED <<buf, wp>>
  /\ UNCHANGED <<held, locks>>

KeyRelease(k) ==
  /\ Irq
  /\ ~extended
  /\ held' = held \ {k}
  /\ UNCHANGED <<buf, wp, locks, extended>>

ModifierPress(k) ==
  /\ Irq
  /\ ~extended
  /\ k \in Modifiers
  /\ held' = held \cup {k}
  /\ UNCHANGED <<buf, wp, locks, extended>>

LockPress(k) ==
  /\ Irq
  /\ ~extended
  /\ k \in Locks
  /\ locks' = IF k \in locks THEN locks \ {k} ELSE locks \cup {k}
  /\ UNCHANGED <<buf, wp, held, extended>>

\* Caps Lock inverts the case of letters only.
Cased(k) ==
  LET shifted == "shift" \in held
      inverts == "caps" \in locks /\ k \in Letters
  IN  IF shifted # inverts THEN Upper(k) ELSE Plain(k)

CharPress(k) ==
  /\ Irq
  /\ ~extended
  /\ k \notin Modifiers \cup Locks
  /\ IF "ctrl" \in held /\ k \in CtrlKeys THEN Store(push(Ring, Control(k)))
     ELSE IF k \in Silent THEN UNCHANGED <<buf, wp>>
     ELSE Store(push(Ring, Cased(k)))
  /\ UNCHANGED <<held, locks, extended>>

kb_irq ==
  \/ ExtendedPrefix
  \/ ExtendedKey
  \/ \E k \in Keys : KeyRelease(k) \/ ModifierPress(k) \/ LockPress(k) \/ CharPress(k)

\* Any other interrupt: the timer.
OtherIrq == Irq /\ UNCHANGED <<buf, wp, keyVars>>
-----------------------------------------------------------------------------
Goto(from, to) == reader = from /\ reader' = to

\* keyboard_poll, at each of its accesses to the ring.
PollEmpty ==
  /\ Goto("poll", "halting")
  /\ rp = wp
  /\ UNCHANGED <<buf, rp, wp, keyVars, c, returned>>

PollCheck ==
  /\ Goto("poll", "read")
  /\ rp # wp
  /\ UNCHANGED <<buf, rp, wp, keyVars, c, returned>>

PollRead ==
  /\ Goto("read", "advance")
  /\ c' = buf[rp]
  /\ UNCHANGED <<buf, rp, wp, keyVars, returned>>

PollAdvance ==
  /\ Goto("advance", "poll")
  /\ rp' = After(rp)
  /\ returned' = c
  /\ c' = Nul
  /\ UNCHANGED <<buf, wp, keyVars>>

\* keyboard_getchar found nothing: hlt, and poll again after an interrupt.
Hlt ==
  /\ Goto("halting", "hlt")
  /\ UNCHANGED <<buf, rp, wp, keyVars, c, returned>>

keyboard_getchar == PollEmpty \/ PollCheck \/ PollRead \/ PollAdvance \/ Hlt

Next == kb_irq \/ OtherIrq \/ keyboard_getchar

Spec == keyboard_init /\ [][Next]_vars

\* The reader's code runs, and the timer keeps interrupting.
FairSpec == Spec /\ WF_vars(keyboard_getchar) /\ WF_vars(OtherIrq)
-----------------------------------------------------------------------------
\* The characters in the ring, oldest first.
Waiting == [i \in 1 .. (wp - rp) % KB_BUF_SIZE |-> buf[(rp + i - 1) % KB_BUF_SIZE]]

Fifo == INSTANCE BoundedFifo
          WITH Capacity <- KB_BUF_SIZE - 1, Nothing <- Nul, MaxBurst <- 2,
               queue <- Waiting, taken <- returned

\* With the handler interrupting keyboard_poll anywhere, and without the lock,
\* the ring is a bounded queue: the reader gets the characters that were entered
\* in the order of their entry, each once, and none is overwritten in the ring.
\* Which characters are entered is not part of it: one that the handler drops is
\* a stutter.
ImplementsFifo == Fifo!Spec

\* The second byte of an extended key never reaches the reader without the
\* 0xE0 marker before it, so it is never taken for the letter it looks like.
CodeAfterMarker ==
  /\ \A i \in 2 .. Len(Waiting) : Waiting[i] = Extended => Waiting[i - 1] = E0
  /\ Len(Waiting) > 0 /\ Waiting[1] = Extended => returned = E0

\* keyboard_getchar polls before hlt with interrupts on: a character that
\* arrives in between is still returned, since the timer ends the hlt.
Returned == \A i \in Slots : (rp = i /\ wp # i) ~> (rp # i)
=============================================================================
