----------------------------- MODULE Algorithms ----------------------------
(***************************************************************************)
(* The pure algorithms of the kernel against reference definitions: every  *)
(* state but the first holds one input, and each property says what the    *)
(* operators of Strings, Screen, Vfs, Elf, Pci or Traps return for it.     *)
(***************************************************************************)
EXTENDS Strings, Screen, Vfs, Elf, Pci, Traps

CONSTANTS
  MemoryLength, Bytes, MaxCount,        \* memories and counts for the string functions
  TextLength, Letters,                  \* the texts written to the terminal
  PathLength, PathLetters,              \* the paths opened
  ProgramFile, LastPage, SegmentSize,   \* a program file and where it may be mapped
  Positions, SecondaryBuses             \* where functions answer and bridges lead

ASSUME AlgorithmsAssumption ==
  /\ MemoryLength \in Nat \ {0} /\ Bytes \subseteq Nat /\ MaxCount \in Nat
  /\ TextLength \in Nat /\ PathLength \in Nat
  /\ ProgramFile \in Seq(Nat) /\ LastPage \in Nat /\ SegmentSize \in Nat
  /\ Positions \subseteq Nat \X (0 .. Slots) \X (0 .. Functions)
  /\ SecondaryBuses \subseteq Nat

VARIABLE input

NoInput == [kind |-> "none"]

\* Two pointers into a memory that ends with a terminator, and a count.
PickMemory ==
  \E m \in [1 .. MemoryLength - 1 -> Bytes], a, b \in 1 .. MemoryLength, n \in 0 .. MaxCount :
    input' = [kind |-> "memory", m |-> Append(m, 0), a |-> a, b |-> b, n |-> n]

PickText ==
  \E k \in 0 .. TextLength : \E s \in [1 .. k -> Letters \cup {"NL", "CR", "TAB", "BS"}] :
    input' = [kind |-> "text", s |-> s]

PickPath ==
  \E k \in 0 .. PathLength : \E s \in [1 .. k -> PathLetters] :
    input' = [kind |-> "path", s |-> s]

\* A program header.
Segments ==
  {h \in [vaddr : {PAGE_SIZE * page : page \in 0 .. LastPage},
          offset : 0 .. Len(ProgramFile), filesz : 0 .. Len(ProgramFile),
          memsz : 0 .. SegmentSize] :
     h.filesz <= h.memsz /\ h.offset + h.filesz <= Len(ProgramFile)}

PickProgram ==
  \E h1, h2 \in Segments :
    input' = [kind |-> "program", data |-> ProgramFile, phdrs |-> <<h1, h2>>]

PickBus ==
  \E P \in SUBSET Positions :
    \E cfg \in [P -> {Header(multi, sec) : multi \in BOOLEAN,
                                           sec \in SecondaryBuses \cup {NoBridge}}] :
      input' = [kind |-> "bus", cfg |-> cfg]

PickBars ==
  \E regs \in [1 .. 6 -> BarKinds], bridge \in BOOLEAN :
    input' = [kind |-> "bars", regs |-> regs, bridge |-> bridge]

PickVector ==
  \E v \in Exceptions \cup {IoapicVector(pin) : pin \in Irqs} \cup {128} :
    input' = [kind |-> "vector", v |-> v]

Init == input = NoInput

Pick ==
  /\ input = NoInput
  /\ \/ PickMemory \/ PickText \/ PickPath \/ PickProgram
     \/ PickBus \/ PickBars \/ PickVector

Done == input # NoInput /\ input' = NoInput

Next == Pick \/ Done

Spec == Init /\ [][Next]_input
-----------------------------------------------------------------------------
\* The string at a pointer, without its terminator.
Text(m, p) ==
  LET end == Min({i \in p .. Len(m) : m[i] = 0}) IN SubSeq(m, p, end - 1)

\* Memory with the bytes of s put at p, all at once.
Put(m, p, s) ==
  [i \in DOMAIN m |-> IF i \in p .. p + Len(s) - 1 THEN s[i - p + 1] ELSE m[i]]

Truncated(s, n) == SubSeq(s, 1, Min({n, Len(s)}))
Zeros(n) == [i \in 1 .. n |-> 0]

Apart(p, n, q, k) == p + n <= q \/ q + k <= p

\* The functions of src/lib/string.c that write: kmemmove moves bytes as if all
\* were read before any is written, also when the areas overlap, and the string
\* copies write exactly their result, its padding or its terminator, and no byte
\* around it, whenever the destination has room and is apart from the source.
CopiesRight ==
  input.kind = "memory" =>
    LET m == input.m  a == input.a  b == input.b  n == input.n
        sa == Text(m, a)
        sb == Text(m, b)
        Room(p, k) == p + k - 1 <= Len(m)
        Clear(p, k) == Room(p, k) /\ Apart(p, k, b, Len(sb) + 1)
        end == a + Len(sa)
        bytes == SubSeq(m, b, b + n - 1)
    IN  /\ Room(a, n) => kmemset(m, a, 1, n) = Put(m, a, [i \in 1 .. n |-> 1])
        /\ Room(a, n) /\ Room(b, n) =>
             /\ kmemmove(m, a, b, n) = Put(m, a, bytes)
             /\ a <= b \/ Apart(a, n, b, n) => kmemcpy(m, a, b, n) = Put(m, a, bytes)
        /\ Clear(a, Len(sb) + 1) => kstrcpy(m, a, b) = Put(m, a, Append(sb, 0))
        /\ Clear(a, n) =>
             /\ kstrncpy(m, a, b, n) = Put(m, a, Truncated(sb \o Zeros(n), n))
             /\ kstrscpy(m, a, b, n) =
                  IF n = 0 THEN m ELSE Put(m, a, Append(Truncated(sb, n - 1), 0))
        /\ Clear(a, Len(sa) + Len(sb) + 1) => kstrcat(m, a, b) = Put(m, end, Append(sb, 0))
        /\ Clear(a, Len(sa) + n + 1) =>
             kstrncat(m, a, b, n) = Put(m, end, Append(Truncated(sb, n), 0))

\* s comes before t in the dictionary.
Precedes(s, t) ==
  \E k \in 0 .. Len(s) :
    /\ k < Len(t) /\ SubSeq(s, 1, k) = SubSeq(t, 1, k)
    /\ k = Len(s) \/ s[k + 1] < t[k + 1]

Orders(result, s, t) == (result < 0 <=> Precedes(s, t)) /\ (result > 0 <=> Precedes(t, s))

\* The functions of src/lib/string.c that compare and search: the sign of a
\* comparison is the order of the dictionary, kstrstr finds the first place where
\* the needle stands, kstrchr and kstrrchr the first and the last place of a byte,
\* the terminator included, and kstrsep cuts the text at its first delimiter.
SearchesRight ==
  input.kind = "memory" =>
    LET m == input.m  a == input.a  b == input.b  n == input.n
        sa == Text(m, a)
        sb == Text(m, b)
        whole == Append(sa, 0)
        At(i) == a + i - 1
        stands == {i \in DOMAIN sa : /\ i + Len(sb) - 1 <= Len(sa)
                                     /\ SubSeq(sa, i, i + Len(sb) - 1) = sb}
        c == IF n = 3 THEN 0 ELSE n
        places == {i \in DOMAIN whole : whole[i] = c}
        cuts == {i \in DOMAIN sa : sa[i] \in Range(sb)}
        cut == kstrsep(m, a, b)
    IN  /\ kstrlen(m, a) = Len(sa) /\ kstrnlen(m, a, n) = Len(Truncated(sa, n))
        /\ Orders(kstrcmp(m, a, b), sa, sb)
        /\ Orders(kstrncmp(m, a, b, n), Truncated(sa, n), Truncated(sb, n))
        /\ a + n - 1 <= Len(m) /\ b + n - 1 <= Len(m) =>
             Orders(kmemcmp(m, a, b, n), SubSeq(m, a, a + n - 1), SubSeq(m, b, b + n - 1))
        /\ kstrchr(m, a, c) = IF places = {} THEN Null ELSE At(Min(places))
        /\ kstrrchr(m, a, c) = IF places = {} THEN Null ELSE At(Max(places))
        /\ kstrstr(m, a, b) =
             IF sb = << >> THEN a ELSE IF stands = {} THEN Null ELSE At(Min(stands))
        /\ Apart(a, Len(sa) + 1, b, Len(sb) + 1) =>
             cut = IF cuts = {} THEN [mem |-> m, next |-> Null]
                   ELSE [mem |-> Put(m, At(Min(cuts)), <<0>>), next |-> At(Min(cuts)) + 1]
-----------------------------------------------------------------------------
\* terminal_putchar of vga.c, scrolling and wrapping: whatever is written, the
\* screen shows the last lines of the page, blank where nothing was typed, and
\* the cursor stands where the page's does.
ScreenShowsPage ==
  input.kind = "text" =>
    terminal_write(terminal_init, input.s) = Window(FoldLeft(Typed, Blank, input.s))
-----------------------------------------------------------------------------
\* The absolute path of a file of the mounted tree.
FullName ==
  [root |-> <<"/">>, proc |-> <<"/">> \o d_name["proc"],
   cpuinfo |-> <<"/">> \o d_name["proc"] \o <<"/">> \o d_name["cpuinfo"]]

\* A slash counts unless it repeats the one before it or ends the path.
Kept(path, i) ==
  path[i] = "/" /\ i > 1 => path[i - 1] # "/" /\ \E j \in i .. Len(path) : path[j] # "/"

\* A path without repeated slashes, and without one at the end.
Canonical(path) ==
  FoldLeft(LAMBDA s, i : IF Kept(path, i) THEN Append(s, path[i]) ELSE s,
           << >>, [i \in DOMAIN path |-> i])

\* vfs_open of fs/vfs.c, which cuts the path while it walks: a path opens a file
\* exactly when it is the file's absolute path, up to repeated slashes and
\* slashes at the end.
LookupIsWalk ==
  input.kind = "path" =>
    \A d \in Dentries : vfs_open(input.s) = d <=> Canonical(input.s) = FullName[d]
-----------------------------------------------------------------------------
PagesOf(h) == {(h.vaddr + x) \div PAGE_SIZE : x \in 0 .. h.memsz - 1}

\* The page loop of sys_execve, exec_user_program and load_elf: when the segments
\* start on page boundaries and share no page, every byte of a segment is the
\* file's, and zero beyond the file's part; no other page is mapped.
SegmentsLoaded ==
  input.kind = "program" =>
    LET h1 == input.phdrs[1]
        h2 == input.phdrs[2]
        pages == load_elf(input.data, input.phdrs)
        Byte(a) == pages[a \div PAGE_SIZE][(a % PAGE_SIZE) + 1]
    IN  PagesOf(h1) \cap PagesOf(h2) = {} =>
          /\ DOMAIN pages = PagesOf(h1) \cup PagesOf(h2)
          /\ \A h \in {h1, h2} : \A x \in 0 .. h.memsz - 1 :
               Byte(h.vaddr + x) = IF x < h.filesz THEN input.data[h.offset + x + 1] ELSE 0
-----------------------------------------------------------------------------
\* The functions a bus shows: all of a slot only if function 0 says so.
Shown(cfg, bus) ==
  {at \in DOMAIN cfg :
     /\ at[1] = bus
     /\ <<bus, at[2], 0>> \in DOMAIN cfg
     /\ at[3] = 0 \/ cfg[<<bus, at[2], 0>>].multifunc}

Behind(cfg, bus) == {cfg[at].sec_bus : at \in Shown(cfg, bus)} \ {NoBridge, 0}

\* The buses reached from bus 0: those of every set that holds bus 0 and, with a
\* bus, the ones behind its bridges.
Reached(cfg) ==
  LET buses == {0} \cup SecondaryBuses
      Closed(B) == 0 \in B /\ \A bus \in B : Behind(cfg, bus) \subseteq B
  IN  {bus \in buses : \A B \in SUBSET buses : Closed(B) => bus \in B}

\* No bus lies behind two bridges, or behind itself.
IsTree(cfg) ==
  LET shown == UNION {Shown(cfg, bus) : bus \in Reached(cfg)}
  IN  \A at1, at2 \in shown :
        /\ cfg[at1].sec_bus = cfg[at2].sec_bus /\ cfg[at1].sec_bus \notin {NoBridge, 0}
             => at1 = at2
        /\ cfg[at1].sec_bus = at1[1] => at1[1] = 0

\* pci_init of pci.c, a recursion over bridges into a table of fixed size: the
\* table holds only functions of reachable buses, a bridge before what lies behind
\* it, all of them unless it is full, each once if the buses form a tree, and
\* never more than MAX_PCI_DEVICES entries even if bridges lead back.
ScanComplete ==
  input.kind = "bus" =>
    LET cfg   == input.cfg
        shown == UNION {Shown(cfg, bus) : bus \in Reached(cfg)}
        table == pci_init(cfg)
    IN  /\ Len(table) <= MAX_PCI_DEVICES
        /\ Range(table) \subseteq shown
        /\ Len(table) < MAX_PCI_DEVICES => Range(table) = shown
        /\ IsTree(cfg) => IsInjective(table)
        /\ \A i \in DOMAIN table : table[i][1] # 0 =>
             \E j \in 1 .. i - 1 : cfg[table[j]].sec_bus = table[i][1]

\* pci_decode_bars of pci.c skips the upper half of a 64-bit register: a word is
\* decoded by its own low bits exactly when an even number of 64-bit words stands
\* right before it, and a bridge has two registers only.
BarsDecoded ==
  input.kind = "bars" =>
    LET types == pci_decode_bars(input.regs, input.bridge)
        Run(i) == i - 1 - Max({0} \cup {j \in 1 .. i - 1 : input.regs[j] # "mmio64"})
    IN  /\ Len(types) = IF input.bridge THEN 2 ELSE 6
        /\ \A i \in DOMAIN types :
             types[i] = IF Run(i) % 2 = 1 \/ input.regs[i] = "reserved" THEN "zero"
                        ELSE input.regs[i]
-----------------------------------------------------------------------------
\* The stack that iretq finds, and what the pops before it restore.
Resumes(stack, rax) ==
  /\ \A i \in DOMAIN isr_common_return :
       Popped(stack, i) = IF isr_common_return[i] = "rax" THEN rax ELSE isr_common_return[i]
  /\ LeftForIret(stack) = CpuFrame

HandlerSees(stack, v) ==
  /\ Len(stack) = Len(registers)
  /\ Field(stack, "int_no") = v
  /\ Field(stack, "err_code") = IF v \in CpuPushesError THEN "error" ELSE Zero
  /\ \A f \in Range(registers) \ {"int_no", "err_code"} : Field(stack, f) = f

\* The comment of irq.h on struct registers, "This struct MUST exactly match the
\* push order in isr_stubs.asm": for every exception, every pin of the I/O APIC
\* and int 0x80 there is a gate, the handler reads each saved register, the vector
\* and the error code in its own field, and the pops give every register back and
\* leave the processor's frame for iretq.  The stacks made by hand fit too:
\* switch_to takes back what it saved, starts a new thread in thread_trampoline
\* with nothing left below it, and resumes a forked child after its int 0x80 with
\* the parent's registers, bar rax, which is 0; drop_to_user suits iretq.
FramesMatch ==
  input.kind = "vector" =>
    LET stack == Entered(input.v)
        child == sys_fork(stack)
    IN  /\ Present(input.v)
        /\ HandlerSees(stack, input.v)
        /\ Resumes(stack, "rax")
        /\ switch_to_pop = Reverse(switch_to_push)
        /\ ReturnsTo(ThreadStack) = "thread_trampoline" /\ Switched(ThreadStack) = << >>
        /\ input.v = 128 => ReturnsTo(child) = "isr_common_return"
                            /\ Resumes(Switched(child), Zero)
        /\ drop_to_user = CpuFrame
=============================================================================
