-------------------------------- MODULE Elf --------------------------------
(***************************************************************************)
(* Loading the segments of a program: the loop that sys_execve and         *)
(* exec_user_program of src/fs/exec.c and load_elf of src/fs/binfmt_elf.c  *)
(* share.  data is the file in memory, a sequence of bytes; the pages of   *)
(* the new address space are a function from page numbers to contents.     *)
(* Operators named ..._bug are seeded faults for the mutation runs.        *)
(***************************************************************************)
EXTENDS Loops

CONSTANT PAGE_SIZE

ASSUME ElfAssumption == PAGE_SIZE \in Nat \ {0}

NoPages == [page \in {} |-> << >>]

CopyLength_bug(filesz, offset) == IF offset < filesz THEN PAGE_SIZE ELSE 0

CopyLength(filesz, offset) ==
  IF offset >= filesz THEN 0
  ELSE IF offset + PAGE_SIZE > filesz THEN filesz - offset ELSE PAGE_SIZE

\* A page from alloc_page, cleared, with what the file has for it at its start.
PageContents(data, phdr, offset) ==
  LET copy_len == CopyLength(phdr.filesz, offset)
  IN  [k \in 1 .. PAGE_SIZE |-> IF k <= copy_len THEN data[phdr.offset + offset + k] ELSE 0]

\* arch_map_page takes the page that vaddr is in, and replaces what it had.
LoadPage(data, phdr, pages, j) ==
  LET page == (phdr.vaddr + j * PAGE_SIZE) \div PAGE_SIZE
  IN  [v \in DOMAIN pages \cup {page} |->
         IF v = page THEN PageContents(data, phdr, j * PAGE_SIZE) ELSE pages[v]]

LoadSegment(data, pages, phdr) ==
  FoldLeft(LAMBDA loaded, j : LoadPage(data, phdr, loaded, j), pages,
           [j \in 1 .. (phdr.memsz + PAGE_SIZE - 1) \div PAGE_SIZE |-> j - 1])

load_elf(data, phdrs) ==
  FoldLeft(LAMBDA pages, phdr : LoadSegment(data, pages, phdr), NoPages, phdrs)
=============================================================================
