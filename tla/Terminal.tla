------------------------------ MODULE Terminal -----------------------------
(***************************************************************************)
(* The console with what is printed on it: the characters of printk, which *)
(* holds the console lock, and those of stdout_write (syscall.c), which    *)
(* does not.  Both call terminal_putchar of src/kernel/drivers/vga.c, here *)
(* in the loads and stores of row and col that the unoptimised build       *)
(* makes.  A system call runs with interrupts off, on the boot processor,  *)
(* in an address space with one page of video memory.  A size_t that wraps *)
(* below 0 is written as a negative number.                                *)
(* Operators named ..._bug are seeded faults for the mutation runs.        *)
(***************************************************************************)
EXTENDS Console, Screen

CONSTANTS
  User,           \* the system call that writes
  Kinds,          \* the characters it writes
  MaxChars,       \* bound on them
  PageCells       \* the cells of the page at VGA_MEM, 2048

ASSUME TerminalAssumption ==
  /\ User \notin Contexts /\ MaxChars \in Nat
  /\ PageCells \in Nat /\ VGA_HEIGHT * VGA_WIDTH <= PageCells

VARIABLES
  row, col,
  put,            \* where each is in terminal_putchar, with what, and a register
  written,        \* characters the system call has written
  raced,          \* history: the system call and a printk were in terminal_putchar
  expected        \* history: the cursor if every character were atomic

screenVars == <<row, col, put, written, raced, expected>>

Writers == Contexts \cup {User}
Idle    == [at |-> "none", chr |-> "a", reg |-> 0]

TerminalInit ==
  /\ Init
  /\ row = terminal_init.row /\ col = terminal_init.col
  /\ put = [x \in Writers |-> Idle]
  /\ written = 0
  /\ raced = FALSE
  /\ expected = <<row, col>>

Busy(x) == put[x].at # "none"
-----------------------------------------------------------------------------
Start(c) == CASE c \in {"NL", "CR"} -> "col_zero"
              [] c = "TAB"          -> "load_col"
              [] c = "BS"           -> "test_col"
              [] OTHER              -> "cell"

At(x, from) == put[x].at = from
To(x, to)   == put' = [put EXCEPT ![x].at = to]
Load(x, var, to) == put' = [put EXCEPT ![x].at = to, ![x].reg = var]

OutsidePage == row * VGA_WIDTH + col \notin 0 .. PageCells - 1

\* exec.c maps the page at VGA_MEM alone: a cell outside of it faults in a process.
\* The boot processor may also print on the boot page tables, and the APs always do.
MayFault(x)  == OutsidePage /\ x \in {Boot, Handler, User}
MustFault(x) == MayFault(x) /\ (x = User \/ At(User, "fault"))

\* VGA_MEM[row * VGA_WIDTH + col] = mkentry(c, color).  handle_page_fault prints: in
\* a printk, which holds the lock, it spins for ever, and that is the end of x.
StoreCell(x) ==
  /\ At(x, "cell")
  /\ \/ ~MustFault(x) /\ To(x, IF put[x].chr = "BS" THEN "done" ELSE "load_col")
     \/ MayFault(x) /\ To(x, "fault")
  /\ UNCHANGED <<row, col>>

\* col > 0 of a backspace; col is unsigned
TestColumn(x) ==
  /\ At(x, "test_col") /\ To(x, IF col # 0 THEN "load_col" ELSE "done")
  /\ UNCHANGED <<row, col>>

\* ++col, col-- or (col + 8) & ~7u
LoadColumn(x) == At(x, "load_col") /\ Load(x, col, "store_col") /\ UNCHANGED <<row, col>>

StoreColumn(x) ==
  /\ At(x, "store_col") /\ To(x, IF put[x].chr = "BS" THEN "cell" ELSE "wrap")
  /\ col' = CASE put[x].chr = "BS"  -> put[x].reg - 1
              [] put[x].chr = "TAB" -> NextTab(put[x].reg)
              [] OTHER              -> put[x].reg + 1
  /\ UNCHANGED row

\* col == VGA_WIDTH after a character, col >= VGA_WIDTH after a tab
WrapColumn(x) ==
  /\ At(x, "wrap")
  /\ To(x, IF (put[x].chr = "TAB" /\ col \notin Columns) \/ col = VGA_WIDTH
           THEN "col_zero" ELSE "done")
  /\ UNCHANGED <<row, col>>

ZeroColumn(x) ==
  /\ At(x, "col_zero") /\ To(x, IF put[x].chr = "CR" THEN "done" ELSE "load_row")
  /\ col' = 0
  /\ UNCHANGED row

LoadRow(x) == At(x, "load_row") /\ Load(x, row, "store_row") /\ UNCHANGED <<row, col>>

StoreRow(x) ==
  /\ At(x, "store_row") /\ To(x, "test_row")
  /\ row' = put[x].reg + 1
  /\ UNCHANGED col

TestRow_bug(x) ==
  /\ At(x, "test_row") /\ To(x, IF row > VGA_HEIGHT THEN "scroll" ELSE "done")
  /\ UNCHANGED <<row, col>>

\* ++row == VGA_HEIGHT: row is read again for the comparison.
TestRow(x) ==
  /\ At(x, "test_row") /\ To(x, IF row = VGA_HEIGHT THEN "scroll" ELSE "done")
  /\ UNCHANGED <<row, col>>

\* vga_scroll moves the lines and stores row last.
Scroll(x) == At(x, "scroll") /\ To(x, "done") /\ row' = VGA_HEIGHT - 1 /\ UNCHANGED col

PutStep(x) ==
  /\ \/ StoreCell(x) \/ TestColumn(x) \/ LoadColumn(x) \/ StoreColumn(x) \/ WrapColumn(x)
     \/ ZeroColumn(x) \/ LoadRow(x) \/ StoreRow(x) \/ TestRow(x) \/ Scroll(x)
  /\ UNCHANGED <<vars, written, raced, expected>>
-----------------------------------------------------------------------------
\* A character is begun ...
Begin(x, c) ==
  /\ ~Busy(x)
  /\ put' = [put EXCEPT ![x] = [at |-> Start(c), chr |-> c, reg |-> 0]]
  /\ raced' = (raced \/ IF x = User THEN \E y \in Contexts : Busy(y) ELSE Busy(User))
  /\ UNCHANGED <<row, col, expected>>

Moved(cursor, c) ==
  LET t == terminal_putchar([terminal_init EXCEPT !.row = cursor[1], !.col = cursor[2]], c)
  IN  <<t.row, t.col>>

\* ... and done.
End(x) ==
  /\ At(x, "done")
  /\ put' = [put EXCEPT ![x] = Idle]
  /\ expected' = IF raced THEN expected ELSE Moved(expected, put[x].chr)
  /\ UNCHANGED <<row, col, raced>>

\* printk prints a text of one letter here, then the end of the line.
PrintkBegin(x) ==
  /\ pc[x] \in {"print", "newline"}
  /\ Begin(x, IF pc[x] = "print" THEN "a" ELSE "NL")
  /\ UNCHANGED <<vars, written>>

PrintkEnd(x) == (PrintText(x) \/ PrintNewline(x)) /\ End(x) /\ UNCHANGED written

LockStep(x) == (Exchange(x) \/ Spin(x) \/ Unlock(x)) /\ UNCHANGED screenVars

TerminalPrintk(x) ==
  Running(x) /\ (LockStep(x) \/ PrintkBegin(x) \/ PutStep(x) \/ PrintkEnd(x))

\* The loop of stdout_write, on the boot processor outside of any printk.
stdout_write ==
  /\ ~in_irq /\ pc[Boot] = "idle"
  /\ \/ /\ written < MaxChars /\ written' = written + 1
        /\ \E c \in Kinds : Begin(User, c)
        /\ UNCHANGED vars
     \/ PutStep(User)
     \/ End(User) /\ UNCHANGED <<vars, written>>

\* A processor calls printk, and an interrupt comes, except during that loop; when
\* a store of the loop faults, handle_page_fault calls printk.  Interrupts are off
\* in handle_page_fault.
TerminalCall(x) ==
  /\ Running(x) /\ (x = Boot => ~Busy(User) \/ At(User, "fault"))
  /\ Call(x) /\ UNCHANGED screenVars

TerminalNicIrq ==
  /\ ~Busy(User) /\ ~At(Boot, "fault")
  /\ NicIrq /\ UNCHANGED screenVars

TerminalNext ==
  \/ \E x \in Contexts : TerminalPrintk(x)
  \/ \E x \in Cpus : TerminalCall(x)
  \/ stdout_write
  \/ TerminalNicIrq
  \/ IrqReturn /\ UNCHANGED screenVars

allVars == <<vars, screenVars>>

\* Every processor goes on executing the code it is in.
TerminalSpec ==
  /\ TerminalInit /\ [][TerminalNext]_allVars
  /\ \A x \in Contexts : WF_allVars(TerminalPrintk(x))
  /\ WF_allVars(IrqReturn /\ UNCHANGED screenVars)
-----------------------------------------------------------------------------
AtRest == \A x \in Writers : ~Busy(x)

\* The lock makes terminal_putchar atomic for printk: unless a system call wrote to
\* the screen at the same time as a printk, the cursor is where the characters
\* taken one after the other put it, no cell outside the screen is written, and no
\* store to video memory faults.
CursorExact ==
  \/ raced
  \/ /\ AtRest => <<row, col>> = expected
     /\ \A x \in Writers : At(x, "cell") => row \in Rows /\ col \in Columns
     /\ \A x \in Writers : ~At(x, "fault")

\* A printk returns, unless an interrupt that prints came in the middle of a printk
\* on the boot processor, or a store of some printk faulted after a race; either
\* way the lock is held for ever.  That everybody prints MaxLines lines at most is
\* part of this: spin_lock is not fair, and one who prints without end may starve
\* the others.
PrintkReturns ==
  \A x \in Contexts :
    pc[x] = "exchange" ~> \/ pc[x] = "idle" \/ Nested
                          \/ \E y \in Contexts : At(y, "fault")

\* After such a race the cursor may be left below the last line, and it then never
\* comes back: vga.c compares ++row with VGA_HEIGHT for equality only.
BelowForever ==
  [](AtRest /\ row >= VGA_HEIGHT => [](row >= VGA_HEIGHT))
=============================================================================
