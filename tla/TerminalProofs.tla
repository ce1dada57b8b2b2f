--------------------------- MODULE TerminalProofs --------------------------
(***************************************************************************)
(* The console.  First the lock of Console: it keeps lines whole for every *)
(* set of processors, and an interrupt that prints inside a printk blocks  *)
(* the console for ever.  Then printk on the terminal: the steps of        *)
(* Terminal are steps of Console, and the lock makes terminal_putchar      *)
(* atomic as long as stdout_write keeps out, for a screen of any size, any *)
(* characters and any number of processors.  Last, for one caller, what a  *)
(* character does to the cells: the screen is a window on the page.        *)
(***************************************************************************)
EXTENDS Terminal, TLAPS

\* The lock word is 1 exactly while someone holds the lock, holders exclude
\* each other, and only the holder has text in the unfinished line.
LockInv ==
  /\ \A x \in Contexts : Holding(x) => lock = 1
  /\ \A x, y \in Contexts : Holding(x) /\ Holding(y) => x = y
  /\ \A x \in line : pc[x] = "newline"

\* The inductive invariant.  The bound on printed needs the last conjunct.
IInv ==
  /\ TypeOK
  /\ LockInv
  /\ \A x \in Contexts : pc[x] # "idle" => printed[x] < MaxLines

LEMMA InitInv == Init => IInv
<1> SUFFICES ASSUME Init PROVE IInv
  OBVIOUS
<1>1. 0 \in 0 .. MaxLines
  BY ConsoleAssumption
<1>2. TypeOK
  BY <1>1, Zenon DEF Init, TypeOK
<1>3. \A x \in Contexts : pc[x] = "idle" /\ ~Holding(x)
  BY DEF Init, Holding
<1> QED
  BY <1>2, <1>3 DEF Init, IInv, LockInv

LEMMA NextInv == IInv /\ [Next]_vars => IInv'
<1> SUFFICES ASSUME IInv, [Next]_vars PROVE IInv'
  OBVIOUS
<1> USE ConsoleAssumption DEF IInv, TypeOK, LockInv, Holding, Goto
<1>1. ASSUME NEW x \in Contexts, Exchange(x) PROVE IInv'
  BY <1>1 DEF Exchange
<1>2. ASSUME NEW x \in Contexts, Spin(x) PROVE IInv'
  BY <1>2 DEF Spin
<1>3. ASSUME NEW x \in Contexts, PrintText(x) PROVE IInv'
  BY <1>3 DEF PrintText
<1>4. ASSUME NEW x \in Contexts, PrintNewline(x) PROVE IInv'
  BY <1>4 DEF PrintNewline
<1>5. ASSUME NEW x \in Contexts, Unlock(x) PROVE IInv'
  BY <1>5 DEF Unlock
<1>6. ASSUME NEW x \in Cpus, Call(x) PROVE IInv'
  BY <1>6 DEF Call, Contexts
<1>7. ASSUME NicIrq PROVE IInv'
  BY <1>7 DEF NicIrq, Contexts
<1>8. ASSUME IrqReturn PROVE IInv'
  BY <1>8, Zenon DEF IrqReturn
<1>9. ASSUME UNCHANGED vars PROVE IInv'
  BY <1>9 DEF vars
<1> QED
  BY <1>1, <1>2, <1>3, <1>4, <1>5, <1>6, <1>7, <1>8, <1>9 DEF Next, printk

\* While the handler waits inside a printk it interrupted, no step changes that.
LEMMA NestedStep == IInv /\ [Next]_vars => (Nested => Nested')
<1> SUFFICES ASSUME IInv, [Next]_vars, Nested PROVE Nested'
  OBVIOUS
<1> USE ConsoleAssumption DEF Nested, Contexts, Goto
<1>1. /\ lock = 1
      /\ \A y \in Contexts : Holding(y) => y = Boot
      /\ pc \in [Contexts -> {"idle", "exchange", "spin", "print", "newline", "unlock"}]
  BY DEF IInv, TypeOK, LockInv
<1>2. pc[Handler] \in {"exchange", "spin"}
  BY <1>1 DEF Holding
<1>3. ASSUME NEW x \in Contexts, printk(x) PROVE Nested'
  <2>1. x # Boot
    BY <1>3 DEF printk, Running
  <2>2. CASE x = Handler
    BY <1>1, <1>2, <1>3, <2>2, Zenon
       DEF printk, Exchange, Spin, PrintText, PrintNewline, Unlock, Holding
  <2>3. CASE x # Handler
    BY <1>1, <1>3, <2>1, <2>3, Zenon
       DEF printk, Exchange, Spin, PrintText, PrintNewline, Unlock, Holding
  <2> QED
    BY <2>2, <2>3
<1>4. ASSUME NEW x \in Cpus, Running(x) /\ Call(x) PROVE Nested'
  BY <1>1, <1>4 DEF Call, Running, Holding
<1>5. ASSUME NicIrq \/ IrqReturn PROVE Nested'
  BY <1>5 DEF NicIrq, IrqReturn
<1>6. ASSUME UNCHANGED vars PROVE Nested'
  BY <1>6 DEF vars, Holding
<1> QED
  BY <1>3, <1>4, <1>5, <1>6 DEF Next
-----------------------------------------------------------------------------
\* The inductive invariant holds in every reachable state.
THEOREM Invariance == Spec => []IInv
  BY InitInv, NextInv, PTL DEF Spec

\* The variables keep their types.
THEOREM TypeCorrect == Spec => []TypeOK
<1>1. IInv => TypeOK
  BY DEF IInv
<1> QED
  BY <1>1, Invariance, PTL

\* printk never mixes the text of two callers in a line, for any number of
\* processors and with the handler interrupting anywhere.
THEOREM LinesCorrect == Spec => []LinesWhole
<1>1. IInv => LinesWhole
  BY DEF IInv, TypeOK, LockInv, LinesWhole, Holding
<1> QED
  BY <1>1, Invariance, PTL

\* A printk nested in another one by an interrupt never ends.
THEOREM NestedStuck == Spec => NestedForever
  BY Invariance, NestedStep, PTL DEF Spec, NestedForever
-----------------------------------------------------------------------------
LEMMA InitStep == TerminalInit => Init
  BY DEF TerminalInit

LEMMA NextStep == [TerminalNext]_allVars => [Next]_vars
<1> SUFFICES ASSUME [TerminalNext]_allVars PROVE [Next]_vars
  OBVIOUS
<1>1. ASSUME NEW x \in Contexts, TerminalPrintk(x) PROVE [Next]_vars
  BY <1>1 DEF TerminalPrintk, LockStep, PrintkBegin, PutStep, PrintkEnd, Next, printk
<1>2. ASSUME NEW x \in Cpus, TerminalCall(x) PROVE [Next]_vars
  BY <1>2 DEF TerminalCall, Next
<1>3. ASSUME stdout_write PROVE [Next]_vars
  BY <1>3 DEF stdout_write, PutStep
<1>4. ASSUME TerminalNicIrq \/ (IrqReturn /\ UNCHANGED screenVars) PROVE [Next]_vars
  BY <1>4 DEF TerminalNicIrq, Next
<1>5. ASSUME UNCHANGED allVars PROVE [Next]_vars
  BY <1>5 DEF allVars
<1> QED
  BY <1>1, <1>2, <1>3, <1>4, <1>5 DEF TerminalNext
-----------------------------------------------------------------------------
\* The cursor that the rest of terminal_putchar leaves behind if nobody else moves
\* it: after the comparison of the row, after a line feed, after the comparison of
\* the column, and from any place.
RowTested(r)  == IF r = VGA_HEIGHT THEN VGA_HEIGHT - 1 ELSE r
Fed(r)        == <<RowTested(r + 1), 0>>
Wrapped(c, r, k) ==
  IF (c = "TAB" /\ k \notin Columns) \/ k = VGA_WIDTH THEN Fed(r) ELSE <<r, k>>
Advanced(c, r, k) ==
  IF c = "BS" THEN <<r, k - 1>> ELSE Wrapped(c, r, IF c = "TAB" THEN NextTab(k) ELSE k + 1)

Outcome(at, c, reg, r, k) ==
  CASE at = "cell"      -> IF c = "BS" THEN <<r, k>> ELSE Advanced(c, r, k)
    [] at = "test_col"  -> IF k # 0 THEN Advanced(c, r, k) ELSE <<r, k>>
    [] at = "load_col"  -> Advanced(c, r, k)
    [] at = "store_col" -> Advanced(c, r, reg)
    [] at = "wrap"      -> Wrapped(c, r, k)
    [] at = "col_zero"  -> IF c = "CR" THEN <<r, 0>> ELSE Fed(r)
    [] at = "load_row"  -> <<RowTested(r + 1), k>>
    [] at = "store_row" -> <<RowTested(reg + 1), k>>
    [] at = "test_row"  -> <<RowTested(r), k>>
    [] at = "scroll"    -> <<VGA_HEIGHT - 1, k>>
    [] OTHER            -> <<r, k>>

LEMMA TabIsInt == \A k \in Int : NextTab(k) \in Int /\ (k \in Nat => NextTab(k) \in Nat)
  BY ScreenAssumption DEF NextTab

\* Begun at a cursor, terminal_putchar leaves it where its atomic form does.
LEMMA BegunRight ==
  ASSUME NEW r \in Nat, NEW k \in Nat, NEW c
  PROVE  Moved(<<r, k>>, c) = Outcome(Start(c), c, 0, r, k)
<1> DEFINE blank == [at \in Rows \X Columns |-> " "]
           t == [[row |-> 0, col |-> 0, cells |-> blank] EXCEPT !.row = r, !.col = k]
<1>1. Moved(<<r, k>>, c) = <<terminal_putchar(t, c).row, terminal_putchar(t, c).col>>
  BY DEF Moved, terminal_init
<1> HIDE DEF blank
<1>2. /\ t.row = r /\ t.col = k
      /\ DOMAIN t = {"row", "col", "cells"}
  OBVIOUS
<1> HIDE DEF t
<1>4. NewLine(t).row = RowTested(r + 1) /\ NewLine(t).col = 0
  BY <1>2, ScreenAssumption DEF NewLine, MoveTo, vga_scroll, RowTested
<1>6. CASE c = "NL"
  BY <1>4, <1>1, <1>6 DEF terminal_putchar, MoveTo, Start, Outcome, Fed
<1>7. CASE c = "CR"
  BY <1>2, <1>1, <1>7 DEF terminal_putchar, MoveTo, Start, Outcome
<1>8. CASE c = "TAB"
  BY <1>2, <1>4, <1>1, <1>8, TabIsInt, ScreenAssumption
     DEF terminal_putchar, MoveTo, Start, Outcome, Fed, Advanced, Wrapped, Columns
<1>9. CASE c = "BS"
  BY <1>2, <1>1, <1>9 DEF terminal_putchar, MoveTo, PutCell, Start, Outcome, Advanced
<1>10. CASE c \notin {"NL", "CR", "TAB", "BS"}
    BY <1>1, <1>2, <1>10, ScreenAssumption DEF terminal_putchar, MoveTo, Printed, PutCell, NewLine,
       vga_scroll, Start, Outcome, Fed, RowTested, Advanced, Wrapped
<1> QED
  BY <1>6, <1>7, <1>8, <1>9, <1>10

OnScreen(cursor) == cursor \in Rows \X Columns

\* An atomic terminal_putchar keeps the cursor on the screen.
LEMMA StaysOnScreen ==
  ASSUME NEW cursor, OnScreen(cursor), NEW c PROVE OnScreen(Moved(cursor, c))
<1> DEFINE r == cursor[1]
           k == cursor[2]
<1>1. r \in Nat /\ k \in Nat /\ cursor = <<r, k>> /\ r < VGA_HEIGHT /\ k < VGA_WIDTH
  BY ScreenAssumption DEF OnScreen, Rows, Columns
<1> HIDE DEF r, k
<1>2. Moved(cursor, c) = Outcome(Start(c), c, 0, r, k)
  BY <1>1, BegunRight
<1>3. OnScreen(Fed(r))
  BY <1>1, ScreenAssumption DEF OnScreen, Fed, RowTested, Rows, Columns
<1>4. \A i, j \in Nat : i < VGA_HEIGHT /\ j < VGA_WIDTH => OnScreen(<<i, j>>)
  BY ScreenAssumption DEF OnScreen, Rows, Columns
<1>5. ASSUME NEW j \in Nat, c = "TAB" \/ j <= VGA_WIDTH PROVE OnScreen(Wrapped(c, r, j))
  BY <1>1, <1>3, <1>4, <1>5, ScreenAssumption DEF Wrapped, Columns
<1>6. ASSUME c = "BS" => k # 0
      PROVE  OnScreen(Advanced(c, r, k))
  BY <1>1, <1>4, <1>5, <1>6, TabIsInt, ScreenAssumption DEF Advanced
<1> QED
  BY <1>1, <1>2, <1>3, <1>4, <1>6, ScreenAssumption DEF Outcome, Start
-----------------------------------------------------------------------------
Before == {"cell", "test_col", "load_col", "store_col"}   \* the column is not moved yet

\* Until then the cursor is on the screen, and a backspace is not at its left edge;
\* nobody faults.
Edge(x) ==
  /\ put[x].at # "fault"
  /\ put[x].at \in Before =>
       /\ row \in Rows /\ col \in Columns
       /\ put[x].at = "store_col" => put[x].reg = col
       /\ put[x].chr = "BS" /\ put[x].at \in {"load_col", "store_col"} => col # 0

\* While nobody has raced, one of them at most is in terminal_putchar, what is left
\* of it leads to the expected cursor, and cells are addressed before it moves.
ScreenInv ==
  /\ \A x, y \in Writers : Busy(x) /\ Busy(y) => x = y
  /\ \A x \in Writers : Busy(x) =>
       Outcome(put[x].at, put[x].chr, put[x].reg, row, col) = Moved(expected, put[x].chr)
  /\ AtRest => <<row, col>> = expected
  /\ \A x \in Writers : Edge(x)

PutPlaces ==
  Before \cup {"none", "fault", "wrap", "col_zero", "load_row", "store_row", "test_row", "scroll", "done"}

Puts == [at : PutPlaces, chr : {"a", "NL"} \cup Kinds, reg : Int]

TerminalType ==
  /\ row \in Int /\ col \in Int
  /\ put \in [Writers -> Puts]
  /\ \A x \in Writers : put[x].chr = "CR" => put[x].at \in {"none", "col_zero", "done"}
  /\ OnScreen(expected)

\* The inductive invariant, together with IInv: a printk that is in
\* terminal_putchar holds the lock.
TInv ==
  /\ TerminalType
  /\ \A x \in Contexts : Busy(x) => pc[x] \in {"print", "newline"}
  /\ raced \/ ScreenInv

LEMMA TerminalInitInv == TerminalInit => TInv
<1> SUFFICES ASSUME TerminalInit PROVE TInv
  OBVIOUS
<1>1. row = 0 /\ col = 0 /\ expected = <<0, 0>>
  BY DEF TerminalInit, terminal_init
<1>2. \A x \in Writers : put[x] = Idle
  BY DEF TerminalInit
<1>3. TerminalType
  <2>1. Idle \in Puts
    BY DEF Idle, Puts, PutPlaces
  <2>2. put \in [Writers -> Puts]
    BY <2>1 DEF TerminalInit
  <2> QED
    BY <1>1, <1>2, <2>2, ScreenAssumption DEF TerminalType, OnScreen, Rows, Columns, Idle
<1>4. ScreenInv
  BY <1>1, <1>2 DEF ScreenInv, Busy, Edge, Before, Idle
<1>5. Contexts \subseteq Writers
  BY DEF Writers
<1> QED
  BY <1>2, <1>3, <1>4, <1>5 DEF TInv, Busy, Idle

\* put'[x] differs from put[x] in its place and its register only.
Becomes(x, at, reg) ==
  /\ put'[x].at = at /\ put'[x].reg = reg /\ put'[x].chr = put[x].chr
  /\ \A y \in Writers : y # x => put'[y] = put[y]
  /\ put' \in [Writers -> Puts]

LEMMA ToBecomes ==
  ASSUME TerminalType, NEW x \in Writers, NEW to \in PutPlaces, To(x, to)
  PROVE  Becomes(x, to, put[x].reg)
  BY DEF TerminalType, To, Becomes, Puts

LEMMA LoadBecomes ==
  ASSUME TerminalType, NEW x \in Writers, NEW to \in PutPlaces, NEW var \in Int, Load(x, var, to)
  PROVE  Becomes(x, to, var)
  BY Zenon DEF TerminalType, Load, Becomes, Puts

Rest(x) == Outcome(put[x].at, put[x].chr, put[x].reg, row, col)

\* One access of terminal_putchar by x changes only what x has still to do, and on the
\* screen not what that leads to.
Advances(x) ==
  /\ Busy(x) /\ Busy(x)' /\ put'[x].chr = put[x].chr
  /\ \A y \in Writers : y # x => put'[y] = put[y]
  /\ TerminalType'
  /\ Edge(x) => Edge(x)' /\ Rest(x)' = Rest(x)

\* The cells of the screen are in the page.
LEMMA ScreenInPage == row \in Rows /\ col \in Columns => ~OutsidePage
<1> SUFFICES ASSUME row \in Rows, col \in Columns PROVE row * VGA_WIDTH + col \in 0 .. PageCells - 1
  BY DEF OutsidePage
<1>1. /\ row \in Nat /\ col \in Nat /\ VGA_WIDTH \in Nat /\ VGA_HEIGHT \in Nat
      /\ row + 1 <= VGA_HEIGHT /\ col + 1 <= VGA_WIDTH
  BY ScreenAssumption DEF Rows, Columns
<1>2. row * VGA_WIDTH \in Nat /\ (row + 1) * VGA_WIDTH = row * VGA_WIDTH + VGA_WIDTH
  BY <1>1
<1>3. (row + 1) * VGA_WIDTH <= VGA_HEIGHT * VGA_WIDTH
  BY <1>1
<1> QED
  BY <1>1, <1>2, <1>3, TerminalAssumption

LEMMA PutStepAdvances ==
  ASSUME TerminalType, NEW x \in Writers, PutStep(x) PROVE Advances(x)
<1> USE ScreenAssumption, TabIsInt
    DEF Busy, At, Becomes, Advances, TerminalType, Edge, Before, PutPlaces, Rest, Outcome
<1>1. put[x] \in Puts /\ put[x].reg \in Int /\ row \in Int /\ col \in Int
  BY DEF Puts
<1>2. expected' = expected
  BY DEF PutStep
<1>3. CASE StoreCell(x)
  <2>1. \/ put[x].chr = "BS" /\ To(x, "done")
        \/ put[x].chr # "BS" /\ To(x, "load_col")
        \/ ~Edge(x) /\ To(x, "fault")
    BY <1>3, ScreenInPage DEF StoreCell, MayFault
  <2> QED
    BY <1>1, <1>2, <1>3, <2>1, ToBecomes DEF StoreCell
<1>4. CASE TestColumn(x)
  <2>1. \/ col # 0 /\ To(x, "load_col")
        \/ col = 0 /\ To(x, "done")
    BY <1>4 DEF TestColumn
  <2> QED
    BY <1>1, <1>2, <1>4, <2>1, ToBecomes DEF TestColumn
<1>5. CASE LoadColumn(x)
  BY <1>1, <1>2, <1>5, LoadBecomes DEF LoadColumn
<1>6. CASE StoreColumn(x)
  <2>1. \/ put[x].chr = "BS" /\ To(x, "cell")
        \/ put[x].chr # "BS" /\ To(x, "wrap")
    BY <1>6 DEF StoreColumn
  <2>2. CASE put[x].chr = "BS"
    <3>1. Becomes(x, "cell", put[x].reg) /\ col' = put[x].reg - 1 /\ row' = row
      BY <1>6, <2>1, <2>2, ToBecomes DEF StoreColumn
    <3>2. Edge(x) => col' \in Columns
      BY <1>1, <1>6, <2>2, <3>1 DEF StoreColumn, Columns
    <3> QED
      BY <1>1, <1>2, <1>6, <2>2, <3>1, <3>2 DEF StoreColumn, Advanced
  <2>3. CASE put[x].chr # "BS"
    BY <1>1, <1>2, <1>6, <2>1, <2>3, ToBecomes DEF StoreColumn, Advanced
  <2> QED
    BY <2>2, <2>3
<1>7. CASE WrapColumn(x)
  <2>1. \/ ((put[x].chr = "TAB" /\ col \notin Columns) \/ col = VGA_WIDTH) /\ To(x, "col_zero")
        \/ ~((put[x].chr = "TAB" /\ col \notin Columns) \/ col = VGA_WIDTH) /\ To(x, "done")
    BY <1>7 DEF WrapColumn
  <2> QED
    BY <1>1, <1>2, <1>7, <2>1, ToBecomes DEF WrapColumn, Wrapped
<1>8. CASE ZeroColumn(x)
  <2>1. \/ put[x].chr = "CR" /\ To(x, "done")
        \/ put[x].chr # "CR" /\ To(x, "load_row")
    BY <1>8 DEF ZeroColumn
  <2> QED
    BY <1>1, <1>2, <1>8, <2>1, ToBecomes DEF ZeroColumn, Fed
<1>9. CASE LoadRow(x)
  BY <1>1, <1>2, <1>9, LoadBecomes DEF LoadRow
<1>10. CASE StoreRow(x)
  BY <1>1, <1>2, <1>10, ToBecomes DEF StoreRow
<1>11. CASE TestRow(x)
  <2>1. \/ row = VGA_HEIGHT /\ To(x, "scroll")
        \/ row # VGA_HEIGHT /\ To(x, "done")
    BY <1>11 DEF TestRow
  <2> QED
    BY <1>1, <1>2, <1>11, <2>1, ToBecomes DEF TestRow, RowTested
<1>12. CASE Scroll(x)
  BY <1>1, <1>2, <1>12, ToBecomes DEF Scroll
<1> QED
  BY <1>3, <1>4, <1>5, <1>6, <1>7, <1>8, <1>9, <1>10, <1>11, <1>12, Zenon DEF PutStep

LEMMA PutStepInv ==
  ASSUME TInv, NEW x \in Writers, PutStep(x) PROVE TInv'
<1>1. Advances(x)
  BY PutStepAdvances DEF TInv
<1>2. pc' = pc /\ raced' = raced /\ expected' = expected
  BY DEF PutStep, vars
<1>3. \A y \in Writers : Busy(y)' <=> Busy(y)
  BY <1>1 DEF Advances, Busy
<1>4. \A y \in Contexts : Busy(y)' => pc'[y] \in {"print", "newline"}
  BY <1>2, <1>3 DEF TInv, Writers
<1>5. ASSUME ScreenInv PROVE ScreenInv'
  <2>1. \A y \in Writers : Busy(y)' => y = x
    BY <1>1, <1>3, <1>5 DEF ScreenInv, Advances
  <2>2. Rest(x)' = Moved(expected, put[x].chr)
    BY <1>1, <1>5 DEF ScreenInv, Advances, Rest
  <2>3. Edge(x)'
    BY <1>1, <1>5 DEF ScreenInv, Advances
  <2>4. Moved(expected, put[x].chr)' = Moved(expected, put[x].chr)
    BY <1>1, <1>2 DEF Advances, Moved
  <2>5. \A y \in Writers : put'[y].at \in Before \cup {"fault"} => y = x
    BY <2>1 DEF Busy, Before
  <2>6. ~AtRest'
    BY <1>1 DEF Advances, AtRest
  <2> QED
    BY <2>1, <2>2, <2>3, <2>4, <2>5, <2>6 DEF ScreenInv, Rest, Edge
<1> QED
  BY <1>1, <1>2, <1>4, <1>5 DEF TInv, Advances

\* A character is begun only by the one who may use the terminal, or it is a race.
LEMMA BeginInv ==
  ASSUME IInv, TInv, NEW x \in Writers, NEW c \in {"a", "NL"} \cup Kinds, Begin(x, c),
         x \in Contexts => pc[x] \in {"print", "newline"}, pc' = pc
  PROVE  TInv'
<1>1. put'[x] = [at |-> Start(c), chr |-> c, reg |-> 0]
  BY DEF Begin, TInv, TerminalType
<1>2. \A y \in Writers : y # x => put'[y] = put[y]
  BY DEF Begin, TInv, TerminalType
<1>3. /\ Start(c) \in PutPlaces \ {"none", "fault", "store_col"}
      /\ c = "CR" => Start(c) = "col_zero"
      /\ c = "BS" => Start(c) = "test_col"
  BY DEF Start, PutPlaces, Before
<1>4. TerminalType'
  <2>1. [at |-> Start(c), chr |-> c, reg |-> 0] \in Puts
    BY <1>3 DEF Puts
  <2>2. put' \in [Writers -> Puts]
    BY <2>1 DEF Begin, TInv, TerminalType
  <2> QED
    BY <1>1, <1>2, <1>3, <2>2 DEF Begin, TInv, TerminalType
<1>5. \A y \in Contexts : Busy(y)' => pc'[y] \in {"print", "newline"}
  BY <1>2 DEF TInv, Busy, Writers
<1>6. ASSUME ~raced' PROVE ScreenInv'
  <2>1. ~raced /\ ScreenInv
    BY <1>6, Zenon DEF Begin, TInv
  <2>2. \A y \in Writers : ~Busy(y)
    <3>1. CASE x = User
      BY <1>6, <3>1, Zenon DEF Begin, Writers
    <3>2. CASE x \in Contexts
      <4>1. ~Busy(User)
        BY <1>6, <3>2, TerminalAssumption, Zenon DEF Begin
      <4>2. \A y \in Contexts : Busy(y) => y = x
        BY <3>2 DEF TInv, IInv, LockInv, Holding
      <4> QED
        BY <4>1, <4>2 DEF Begin, Writers
    <3> QED
      BY <3>1, <3>2 DEF Writers
  <2>3. <<row, col>> = expected /\ row \in Rows /\ col \in Columns
    BY <2>1, <2>2 DEF ScreenInv, AtRest, TInv, TerminalType, OnScreen
  <2>4. row' = row /\ col' = col /\ expected' = expected
    BY DEF Begin
  <2>5. Moved(expected, c) = Outcome(Start(c), c, 0, row, col)
    BY <2>3, BegunRight, ScreenAssumption DEF Rows, Columns
  <2>6. \A y \in Writers : Busy(y)' <=> y = x
    BY <1>1, <1>2, <1>3, <2>2 DEF Busy
  <2>7. Rest(x)' = Moved(expected, c)
    BY <1>1, <2>4, <2>5 DEF Rest
  <2>8. \A y \in Writers : y # x => put'[y].at = "none"
    BY <2>6 DEF Busy
  <2>9. \A y \in Writers : Edge(y)'
    BY <1>1, <1>3, <2>3, <2>4, <2>8 DEF Edge, Before
  <2> QED
    BY <1>1, <2>4, <2>6, <2>7, <2>9 DEF ScreenInv, AtRest, Rest, Moved
<1> QED
  BY <1>4, <1>5, <1>6 DEF TInv

\* A finished character has moved the cursor as expected.
LEMMA EndInv ==
  ASSUME TInv, NEW x \in Writers, End(x), \A y \in Contexts : y # x => pc'[y] = pc[y]
  PROVE  TInv'
<1>1. put'[x] = Idle /\ \A y \in Writers : y # x => put'[y] = put[y]
  BY DEF End, TInv, TerminalType
<1>2. Idle \in Puts /\ ~Busy(x)'
  BY <1>1 DEF Idle, Puts, PutPlaces, Busy
<1>3. TerminalType'
  <2>1. OnScreen(expected')
    BY StaysOnScreen DEF End, TInv, TerminalType
  <2>2. put' \in [Writers -> Puts]
    BY <1>2 DEF End, TInv, TerminalType
  <2> QED
    BY <1>1, <2>1, <2>2 DEF End, TInv, TerminalType, Idle
<1>4. \A y \in Contexts : Busy(y)' => pc'[y] \in {"print", "newline"}
  BY <1>1, <1>2 DEF TInv, Busy, Writers
<1>5. ASSUME ~raced' PROVE ScreenInv'
  <2>1. ~raced /\ ScreenInv /\ Busy(x)
    BY <1>5 DEF End, TInv, At, Busy
  <2>2. \A y \in Writers : ~Busy(y)'
    BY <1>1, <1>2, <2>1 DEF ScreenInv, Busy
  <2>3. Rest(x) = <<row, col>>
    BY DEF End, At, Rest, Outcome
  <2>4. <<row, col>>' = expected'
    BY <2>1, <2>3 DEF End, ScreenInv, Rest
  <2>5. \A y \in Writers : Edge(y)'
    BY <2>2 DEF Busy, Edge, Before
  <2> QED
    BY <2>2, <2>4, <2>5 DEF ScreenInv
<1> QED
  BY <1>3, <1>4, <1>5 DEF TInv

\* A step of the lock, a call or an interrupt: nobody in terminal_putchar moves.
LEMMA OutsideInv ==
  ASSUME TInv, UNCHANGED screenVars,
         \A x \in Contexts : pc[x] \in {"print", "newline"} => pc'[x] = pc[x]
  PROVE  TInv'
<1>1. row' = row /\ col' = col /\ put' = put /\ raced' = raced /\ expected' = expected
  BY DEF screenVars
<1>2. TerminalType' /\ (ScreenInv => ScreenInv')
  BY <1>1 DEF TInv, TerminalType, ScreenInv, Edge, AtRest, Busy, Moved
<1> QED
  BY <1>1, <1>2 DEF TInv, Busy

LEMMA TerminalNextInv == IInv /\ TInv /\ [TerminalNext]_allVars => TInv'
<1> SUFFICES ASSUME IInv, TInv, [TerminalNext]_allVars PROVE TInv'
  OBVIOUS
<1>1. ASSUME NEW x \in Contexts, LockStep(x) PROVE TInv'
  BY <1>1, OutsideInv DEF LockStep, Exchange, Spin, Unlock, Goto, IInv, TypeOK
<1>2. ASSUME NEW x \in Contexts, PrintkBegin(x) PROVE TInv'
  BY <1>2, BeginInv DEF PrintkBegin, Writers, vars
<1>3. ASSUME NEW x \in Contexts, PrintkEnd(x) PROVE TInv'
  BY <1>3, EndInv DEF PrintkEnd, PrintText, PrintNewline, Goto, Writers, IInv, TypeOK
<1>4. ASSUME NEW x \in Writers, PutStep(x) PROVE TInv'
  BY <1>4, PutStepInv
<1>5. ASSUME NEW x \in Contexts, TerminalPrintk(x) PROVE TInv'
  BY <1>1, <1>2, <1>3, <1>4, <1>5 DEF TerminalPrintk, Writers
<1>6. ASSUME NEW x \in Cpus, TerminalCall(x) PROVE TInv'
  BY <1>6, OutsideInv DEF TerminalCall, Call, Goto, Contexts, IInv, TypeOK
<1>7. ASSUME stdout_write PROVE TInv'
  <2>1. User \in Writers /\ User \notin Contexts
    BY TerminalAssumption DEF Writers
  <2>2. ASSUME NEW c \in Kinds, Begin(User, c), UNCHANGED vars PROVE TInv'
    BY <2>1, <2>2, BeginInv, Zenon DEF vars
  <2>3. ASSUME End(User), UNCHANGED vars PROVE TInv'
    BY <2>1, <2>3, EndInv DEF vars
  <2> QED
    BY <1>4, <1>7, <2>1, <2>2, <2>3 DEF stdout_write
<1>8. ASSUME TerminalNicIrq PROVE TInv'
  BY <1>8, OutsideInv, ConsoleAssumption
  DEF TerminalNicIrq, NicIrq, Goto, Contexts, IInv, TypeOK
<1>9. ASSUME IrqReturn, UNCHANGED screenVars PROVE TInv'
  BY <1>9, OutsideInv DEF IrqReturn
<1>10. ASSUME UNCHANGED allVars PROVE TInv'
  BY <1>10, OutsideInv DEF allVars, vars
<1> QED
  BY <1>5, <1>6, <1>7, <1>8, <1>9, <1>10 DEF TerminalNext
-----------------------------------------------------------------------------
\* The cursor is below the last line, and whoever is about to store or to test the
\* row will not find it to be VGA_HEIGHT.
Below ==
  /\ row >= VGA_HEIGHT
  /\ \A x \in Writers :
       /\ put[x].at = "store_row" => put[x].reg >= VGA_HEIGHT
       /\ put[x].at = "test_row" => row > VGA_HEIGHT
       /\ put[x].at # "scroll"

LEMMA BelowPutStep ==
  ASSUME TerminalType, Below, NEW x \in Writers, PutStep(x) PROVE Below'
<1> USE ScreenAssumption DEF Below, TerminalType, At, Becomes, PutPlaces, Before
<1>1. put[x].reg \in Int /\ row \in Int
  BY DEF Puts
<1>2. CASE StoreCell(x) \/ TestColumn(x) \/ StoreColumn(x) \/ WrapColumn(x) \/ ZeroColumn(x)
  BY <1>2, ToBecomes DEF StoreCell, TestColumn, StoreColumn, WrapColumn, ZeroColumn
<1>3. CASE LoadColumn(x) \/ LoadRow(x)
  BY <1>3, LoadBecomes DEF LoadColumn, LoadRow
<1>4. CASE StoreRow(x)
  BY <1>1, <1>4, ToBecomes DEF StoreRow
<1>5. CASE TestRow(x)
  BY <1>1, <1>5, ToBecomes DEF TestRow
<1> QED
  BY <1>2, <1>3, <1>4, <1>5 DEF PutStep, Scroll

LEMMA BelowStep == TInv /\ Below /\ [TerminalNext]_allVars => Below'
<1> SUFFICES ASSUME TInv, Below, [TerminalNext]_allVars PROVE Below'
  OBVIOUS
<1>1. ASSUME UNCHANGED screenVars PROVE Below'
  BY <1>1 DEF screenVars, Below
<1>2. ASSUME NEW x \in Writers, NEW c, Begin(x, c) PROVE Below'
  BY <1>2 DEF Begin, Start, TInv, TerminalType, Below
<1>3. ASSUME NEW x \in Writers, End(x) PROVE Below'
  BY <1>3 DEF End, Idle, TInv, TerminalType, Below
<1>4. ASSUME NEW x \in Writers, PutStep(x) PROVE Below'
  BY <1>4, BelowPutStep DEF TInv
<1>5. ASSUME NEW x \in Contexts, TerminalPrintk(x) PROVE Below'
  BY <1>1, <1>2, <1>3, <1>4, <1>5
     DEF TerminalPrintk, LockStep, PrintkBegin, PrintkEnd, Writers
<1>6. ASSUME stdout_write PROVE Below'
  BY <1>2, <1>3, <1>4, <1>6 DEF stdout_write, Writers
<1> QED
  BY <1>1, <1>5, <1>6 DEF TerminalNext, TerminalCall, TerminalNicIrq, allVars
-----------------------------------------------------------------------------
\* With all that is printed between spin_lock and spin_unlock, and with stdout_write
\* beside it, printk still is the printk of Console.
THEOREM UsesLock == TerminalSpec => Spec
  BY InitStep, NextStep, PTL DEF TerminalSpec, Spec

\* No line on the screen mixes the text of two calls of printk.
THEOREM TerminalLinesCorrect == TerminalSpec => []LinesWhole
  BY UsesLock, LinesCorrect, PTL

\* The inductive invariant holds in every reachable state.
THEOREM TerminalInvariance == TerminalSpec => []TInv
<1>1. TerminalSpec => []IInv
  BY UsesLock, Invariance, PTL
<1> QED
  BY <1>1, TerminalInitInv, TerminalNextInv, PTL DEF TerminalSpec

\* The lock makes terminal_putchar atomic for printk, handlers included: until a
\* system call writes at the same time, the cursor is where the characters taken one
\* after the other put it, and no cell outside the screen is written.
THEOREM CursorCorrect == TerminalSpec => []CursorExact
<1>1. TInv => CursorExact
  BY DEF TInv, ScreenInv, Edge, CursorExact, At, Before
<1>2. TerminalSpec => []IInv
  BY UsesLock, Invariance, PTL
<1> QED
  BY <1>1, <1>2, TerminalInitInv, TerminalNextInv, PTL DEF TerminalSpec

\* Once the cursor rests below the last line it never comes back: vga.c scrolls only
\* when the row it has just counted up equals VGA_HEIGHT.
THEOREM BelowCorrect == TerminalSpec => BelowForever
<1>1. AtRest /\ row >= VGA_HEIGHT => Below
  BY DEF AtRest, Busy, Below
<1>2. Below => row >= VGA_HEIGHT
  BY DEF Below
<1> QED
  BY <1>1, <1>2, BelowStep, TerminalInvariance, PTL DEF TerminalSpec, BelowForever
-----------------------------------------------------------------------------
(***************************************************************************)
(* The cells: one caller's characters on the screen are those on a page.   *)
(***************************************************************************)
\* A page with the given cursor and ink.
Page(l, c, k) == [line |-> l, col |-> c, ink |-> k]

\* Nothing is written below the line of the cursor.
NoneBelow(l, k) == DOMAIN k \subseteq (0 .. l) \X Columns

\* What typing keeps true of a page.
PageInv(page) ==
  /\ page.line \in Nat /\ page.col \in Columns
  /\ NoneBelow(page.line, page.ink)

\* A cell of a page, blank if nothing was typed there.
Seen(k, l, c) == IF <<l, c>> \in DOMAIN k THEN k[<<l, c>>] ELSE " "

\* Every place on the screen is a row and a column.
LEMMA PairFacts ==
  \A at \in Rows \X Columns : at = <<at[1], at[2]>> /\ at[1] \in Rows /\ at[2] \in Columns
  OBVIOUS

\* The window, field by field.
LEMMA WindowFields ==
  ASSUME NEW l \in Nat, NEW c, NEW k, NEW top \in Nat,
         top = Top(Page(l, c, k))
  PROVE  Window(Page(l, c, k)) =
           [row |-> l - top, col |-> c,
            cells |-> [at \in Rows \X Columns |-> Seen(k, at[1] + top, at[2])]]
  BY DEF Window, Page, Seen

\* The cursor is on the screen, and the window starts no lower than it must.
LEMMA TopFacts ==
  ASSUME NEW l \in Nat, NEW c, NEW k
  PROVE  /\ Top(Page(l, c, k)) \in Nat
         /\ l - Top(Page(l, c, k)) \in Rows
         /\ l < VGA_HEIGHT => Top(Page(l, c, k)) = 0
         /\ l >= VGA_HEIGHT => Top(Page(l, c, k)) = l - (VGA_HEIGHT - 1)
  BY ScreenAssumption DEF Top, Page, Rows

\* A new line moves the window down by a line once the page is longer than the screen.
LEMMA NewLineShows ==
  ASSUME NEW l \in Nat, NEW c, NEW k, NoneBelow(l, k)
  PROVE  NewLine(Window(Page(l, c, k))) = Window(Page(l + 1, 0, k))
<1> DEFINE top == Top(Page(l, c, k))
           m == l + 1
           low == Top(Page(m, 0, k))
           cells == [at \in Rows \X Columns |-> Seen(k, at[1] + top, at[2])]
           shifted == [at \in Rows \X Columns |-> Seen(k, at[1] + low, at[2])]
           down == [row |-> (l - top) + 1, col |-> 0, cells |-> cells]
<1>1. /\ m \in Nat /\ top \in Nat /\ low \in Nat /\ l - top \in Rows
      /\ l < VGA_HEIGHT => top = 0
      /\ l >= VGA_HEIGHT => top = l - (VGA_HEIGHT - 1)
      /\ m < VGA_HEIGHT => low = 0
      /\ m >= VGA_HEIGHT => low = m - (VGA_HEIGHT - 1)
  <2>1. m \in Nat
    OBVIOUS
  <2> QED
    BY <2>1, TopFacts
<1>2. Window(Page(l, c, k)) = [row |-> l - top, col |-> c, cells |-> cells]
  <2>1. top \in Nat
    BY <1>1
  <2> QED
    BY <2>1, WindowFields, Zenon
<1>3. Window(Page(m, 0, k)) = [row |-> m - low, col |-> 0, cells |-> shifted]
  BY <1>1, WindowFields
<1> HIDE DEF top, low, cells, shifted
<1>4. NewLine(Window(Page(l, c, k))) =
        IF (l - top) + 1 = VGA_HEIGHT THEN vga_scroll(down) ELSE down
  BY <1>2 DEF NewLine, MoveTo
<1>5. CASE m < VGA_HEIGHT
  <2>1. top = 0 /\ low = 0 /\ (l - top) + 1 # VGA_HEIGHT /\ (l - top) + 1 = m - low
    BY <1>1, <1>5, ScreenAssumption
  <2>2. cells = shifted
    BY <2>1 DEF cells, shifted
  <2> QED
    BY <1>3, <1>4, <2>1, <2>2
<1>6. CASE m >= VGA_HEIGHT
  <2>1. /\ low = top + 1 /\ (l - top) + 1 = VGA_HEIGHT
        /\ m - low = VGA_HEIGHT - 1 /\ VGA_HEIGHT - 1 + low = l + 1
    BY <1>1, <1>6, ScreenAssumption
  <2>2. vga_scroll(down) =
          [row |-> VGA_HEIGHT - 1, col |-> 0,
           cells |-> [at \in Rows \X Columns |->
                        IF at[1] = VGA_HEIGHT - 1 THEN " "
                        ELSE cells[<<at[1] + 1, at[2]>>]]]
    BY DEF vga_scroll
  <2>3. ASSUME NEW r \in Rows, NEW d \in Columns
        PROVE  shifted[<<r, d>>] =
                 IF r = VGA_HEIGHT - 1 THEN " " ELSE cells[<<r + 1, d>>]
    <3>1. shifted[<<r, d>>] = Seen(k, r + low, d)
      BY DEF shifted
    <3>2. CASE r = VGA_HEIGHT - 1
      <4>1. <<r + low, d>> \notin DOMAIN k
        BY <2>1, <3>2, ScreenAssumption DEF NoneBelow
      <4> QED
        BY <3>1, <3>2, <4>1, Zenon DEF Seen
    <3>3. CASE r # VGA_HEIGHT - 1
      <4>1. r + 1 \in Rows /\ (r + 1) + top = r + low
        BY <1>1, <2>1, <3>3, ScreenAssumption DEF Rows
      <4>2. cells[<<r + 1, d>>] = Seen(k, (r + 1) + top, d)
        BY <4>1 DEF cells
      <4> QED
        BY <3>1, <3>3, <4>1, <4>2
    <3> QED
      BY <3>2, <3>3, Zenon
  <2>4. shifted = [at \in Rows \X Columns |->
                     IF at[1] = VGA_HEIGHT - 1 THEN " " ELSE cells[<<at[1] + 1, at[2]>>]]
    <3>1. \A at \in Rows \X Columns :
            shifted[at] = IF at[1] = VGA_HEIGHT - 1 THEN " " ELSE cells[<<at[1] + 1, at[2]>>]
      <4> TAKE at \in Rows \X Columns
      <4>1. at = <<at[1], at[2]>> /\ at[1] \in Rows /\ at[2] \in Columns
        BY PairFacts
      <4>2. shifted[<<at[1], at[2]>>] =
              IF at[1] = VGA_HEIGHT - 1 THEN " " ELSE cells[<<at[1] + 1, at[2]>>]
        BY <4>1, <2>3, Zenon
      <4> QED
        BY <4>1, <4>2, Zenon
    <3> QED
      BY <3>1, Zenon DEF shifted
  <2> QED
    BY <1>3, <1>4, <2>1, <2>2, <2>4, Zenon
<1> QED
  BY <1>1, <1>5, <1>6, ScreenAssumption

\* A cell written on the screen is the one written on the page.
LEMMA PutCellShows ==
  ASSUME NEW l \in Nat, NEW c, NEW k, NEW d \in Columns, NEW x, NoneBelow(l, k)
  PROVE  /\ PutCell(Window(Page(l, c, k)), d, x)
              = Window(Page(l, d, Ink(Page(l, c, k), d, x)))
         /\ NoneBelow(l, Ink(Page(l, c, k), d, x))
<1> DEFINE top == Top(Page(l, c, k))
           ink == Ink(Page(l, c, k), d, x)
           cells == [at \in Rows \X Columns |-> Seen(k, at[1] + top, at[2])]
           after == [at \in Rows \X Columns |-> Seen(ink, at[1] + top, at[2])]
<1>1. top \in Nat /\ l - top \in Rows /\ Top(Page(l, d, ink)) = top
  <2>1. Top(Page(l, d, ink)) = top
    BY DEF Top, Page
  <2> QED
    BY <2>1, TopFacts
<1>2. ink = [at \in DOMAIN k \cup {<<l, d>>} |-> IF at = <<l, d>> THEN x ELSE k[at]]
  BY DEF Ink, Page
<1>3. Window(Page(l, c, k)) = [row |-> l - top, col |-> c, cells |-> cells]
  BY <1>1, WindowFields, Zenon
<1>4. Window(Page(l, d, ink)) = [row |-> l - top, col |-> d, cells |-> after]
  BY <1>1, WindowFields, Zenon
<1> HIDE DEF top, ink
<1>5. after = [cells EXCEPT ![<<l - top, d>>] = x]
  <2>1. ASSUME NEW r \in Rows, NEW e \in Columns
        PROVE  after[<<r, e>>] = IF <<r, e>> = <<l - top, d>> THEN x ELSE cells[<<r, e>>]
    <3>1. after[<<r, e>>] = Seen(ink, r + top, e) /\ cells[<<r, e>>] = Seen(k, r + top, e)
      OBVIOUS
    <3>2. <<r, e>> = <<l - top, d>> <=> <<r + top, e>> = <<l, d>>
      BY <1>1 DEF Rows
    <3>3. Seen(ink, r + top, e) = IF <<r + top, e>> = <<l, d>> THEN x ELSE Seen(k, r + top, e)
      BY <1>2, Zenon DEF Seen
    <3> QED
      BY <3>1, <3>2, <3>3
  <2>2. \A at \in Rows \X Columns :
          after[at] = IF at = <<l - top, d>> THEN x ELSE cells[at]
    <3> TAKE at \in Rows \X Columns
    <3> HIDE DEF cells, after
    <3>1. at = <<at[1], at[2]>> /\ at[1] \in Rows /\ at[2] \in Columns
      BY PairFacts
    <3>2. after[<<at[1], at[2]>>] =
            IF <<at[1], at[2]>> = <<l - top, d>> THEN x ELSE cells[<<at[1], at[2]>>]
      BY <3>1, <2>1
    <3> QED
      BY <3>1, <3>2
  <2> HIDE DEF Seen
  <2> QED
    BY <2>2, Zenon
<1>6. PutCell(Window(Page(l, c, k)), d, x) = Window(Page(l, d, ink))
  <2> HIDE DEF cells, after
  <2> QED
    BY <1>3, <1>4, <1>5 DEF PutCell
<1>7. NoneBelow(l, ink)
  BY <1>2 DEF NoneBelow
<1> QED
  BY <1>6, <1>7 DEF ink

\* The next tab stop is a number of a column, on the screen or past it.
LEMMA TabFacts ==
  ASSUME NEW c \in Nat
  PROVE  NextTab(c) \in Nat
<1>1. (c + TabStop) % TabStop \in 0 .. TabStop - 1
  BY ScreenAssumption
<1> QED
  BY <1>1, ScreenAssumption DEF NextTab

\* After terminal_init of vga.c the screen shows the blank page.
THEOREM InitShowsPage == PageInv(Blank) /\ terminal_init = Window(Blank)
<1> DEFINE none == [at \in {} |-> " "]
<1>1. Blank = Page(0, 0, none)
  BY DEF Blank, Page
<1>2. \A l, c : Seen(none, l, c) = " "
  BY Zenon DEF Seen
<1>3. DOMAIN none = {}
  OBVIOUS
<1> HIDE DEF none
<1> DEFINE top == Top(Page(0, 0, none))
           cells == [at \in Rows \X Columns |-> Seen(none, at[1] + top, at[2])]
<1>4. top \in Nat /\ 0 - top = 0
  BY ScreenAssumption, TopFacts
<1>5. Window(Page(0, 0, none)) = [row |-> 0 - top, col |-> 0, cells |-> cells]
  BY DEF Window, Page, Seen
<1>6. terminal_init = Window(Blank)
  <2>1. cells = [at \in Rows \X Columns |-> " "]
    BY <1>2, Zenon
  <2> HIDE DEF cells, top
  <2> QED
    BY <1>1, <1>4, <1>5, <2>1, Zenon DEF terminal_init
<1>7. PageInv(Blank)
  BY <1>1, <1>3, ScreenAssumption DEF PageInv, NoneBelow, Page, Columns
<1> QED
  BY <1>6, <1>7

\* terminal_putchar of vga.c: a screen that shows the last lines of a page shows,
\* after any character, the last lines of the page with that character typed, the
\* cursor included, whether the line wraps, the screen scrolls or a tab or a
\* backspace moves the cursor, for a screen and a tab stop of any size.  With
\* InitShowsPage this is the induction on the text that ScreenShowsPage needs.
THEOREM PutcharShowsPage ==
  ASSUME NEW page, PageInv(page), NEW c
  PROVE  /\ terminal_putchar(Window(page), c) = Window(Typed(page, c))
         /\ PageInv(Typed(page, c))
<1> DEFINE l == page.line
           here == page.col
           k == page.ink
           now == Page(l, here, k)
           t == Window(now)
           next == Typed(page, c)
           Goal == terminal_putchar(t, c) = Window(next) /\ PageInv(next)
<1>1. l \in Nat /\ l + 1 \in Nat /\ here \in Columns /\ here \in Nat /\ NoneBelow(l, k)
      /\ NoneBelow(l + 1, k) /\ 0 \in Columns
  BY ScreenAssumption DEF PageInv, NoneBelow, Columns
<1>0. \A d, x : Ink(page, d, x) = Ink(now, d, x)
  BY DEF Ink, Page
<1>2. Window(page) = t
  BY DEF Window, Page, Top
<1>3. t.col = here
  BY DEF Window, Page
<1>4. \A x \in Nat, y \in Columns : \A z : NoneBelow(x, z) => PageInv(Page(x, y, z))
  BY DEF PageInv, Page
<1>5. \A d : MoveTo(t, t.row, d) = Window(Page(l, d, k))
  BY DEF MoveTo, Window, Page, Top
<1>6. NewLine(t) = Window(Page(l + 1, 0, k))
  BY <1>1, NewLineShows
<1>7. ASSUME c = "NL" PROVE Goal
  <2>1. next = Page(l + 1, 0, k)
    BY <1>7 DEF Typed, Page
  <2> QED
    BY <2>1, <1>1, <1>4, <1>6, <1>7 DEF terminal_putchar
<1>8. ASSUME c = "CR" PROVE Goal
  <2>1. next = Page(l, 0, k)
    BY <1>8, ScreenAssumption DEF Typed, Page
  <2> QED
    BY <2>1, <1>1, <1>4, <1>5, <1>8 DEF terminal_putchar
<1>9. ASSUME c = "TAB", NextTab(here) >= VGA_WIDTH PROVE Goal
  <2>1. next = Page(l + 1, 0, k)
    BY <1>9 DEF Typed, Page
  <2> QED
    BY <2>1, <1>1, <1>3, <1>4, <1>6, <1>9 DEF terminal_putchar
<1>10. ASSUME c = "TAB", ~(NextTab(here) >= VGA_WIDTH) PROVE Goal
  <2>1. next = Page(l, NextTab(here), k)
    BY <1>10 DEF Typed, Page
  <2>2. NextTab(here) \in Columns
    BY <1>1, <1>10, TabFacts, ScreenAssumption DEF Columns
  <2> QED
    BY <2>1, <2>2, <1>1, <1>3, <1>4, <1>5, <1>10 DEF terminal_putchar
<1>11. ASSUME c = "BS", here > 0 PROVE Goal
  <2>1. next = Page(l, here - 1, Ink(now, here - 1, " "))
    <3>1. ~(here - 1 >= VGA_WIDTH)
      BY <1>1, <1>11, ScreenAssumption DEF Columns
    <3> QED
      BY <1>11, <1>0, <3>1, Zenon DEF Typed, Page
  <2>2. here - 1 \in Columns
    BY <1>1, <1>11, ScreenAssumption DEF Columns
  <2>3. /\ PutCell(t, here - 1, " ") = Window(Page(l, here - 1, Ink(now, here - 1, " ")))
        /\ NoneBelow(l, Ink(now, here - 1, " "))
    BY <1>1, <2>2, PutCellShows, Zenon
  <2> QED
    BY <2>1, <2>2, <2>3, <1>1, <1>3, <1>4, <1>11, Zenon DEF terminal_putchar
<1>12. ASSUME c = "BS", ~(here > 0) PROVE Goal
  <2>1. next = now /\ here = 0
    <3>1. here = 0 /\ ~(0 >= VGA_WIDTH)
      BY <1>1, <1>12, ScreenAssumption DEF Columns
    <3> QED
      BY <1>12, <3>1 DEF Typed, Page
  <2> QED
    BY <2>1, <1>1, <1>3, <1>4, <1>12, Zenon DEF terminal_putchar
<1>13. ASSUME c \notin {"NL", "CR", "TAB", "BS"} PROVE Goal
  <2> DEFINE ink == Ink(now, here, c)
             wrote == Page(l, here, ink)
             past == Page(l, here + 1, ink)
  <2>1. PutCell(t, here, c) = Window(wrote) /\ NoneBelow(l, ink)
    BY <1>1, PutCellShows
  <2>2. t.row = Window(wrote).row
    BY DEF Window, Page, Top
  <2>3. MoveTo(PutCell(t, t.col, c), t.row, t.col + 1) = Window(past)
    <3>1. MoveTo(Window(wrote), Window(wrote).row, here + 1) = Window(past)
      BY Zenon DEF MoveTo, Window, Page, Top
    <3> QED
      BY <1>3, <2>1, <2>2, <3>1
  <2>4. Window(past).col = here + 1
    BY Zenon DEF Window, Page
  <2>5. NewLine(Window(past)) = Window(Page(l + 1, 0, ink))
    BY <1>1, <2>1, NewLineShows
  <2>6. terminal_putchar(t, c) =
          IF here + 1 = VGA_WIDTH THEN Window(Page(l + 1, 0, ink)) ELSE Window(past)
    BY <1>13, <2>3, <2>4, <2>5, Zenon DEF terminal_putchar, Printed
  <2>7. next = IF here + 1 = VGA_WIDTH THEN Page(l + 1, 0, ink) ELSE past
    <3>1. here + 1 >= VGA_WIDTH <=> here + 1 = VGA_WIDTH
      BY <1>1, ScreenAssumption DEF Columns
    <3>2. Ink(page, page.col, c) = ink
      BY <1>0
    <3> HIDE DEF ink
    <3> QED
      BY <1>13, <3>1, <3>2, Zenon DEF Typed, Page
  <2>8. NoneBelow(l + 1, ink)
    BY <1>1, <2>1 DEF NoneBelow
  <2>9. here + 1 # VGA_WIDTH => here + 1 \in Columns
    BY <1>1, ScreenAssumption DEF Columns
  <2> HIDE DEF ink
  <2> QED
    BY <2>1, <2>6, <2>7, <2>8, <2>9, <1>1, <1>4
<1>14. Goal
  BY <1>7, <1>8, <1>9, <1>10, <1>11, <1>12, <1>13
<1> QED
  BY <1>2, <1>14
=============================================================================
