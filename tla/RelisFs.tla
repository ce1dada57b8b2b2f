------------------------------ MODULE RelisFs ------------------------------
(***************************************************************************)
(* The file system relisfs on an ATA disk: src/fs/relisfs/relisfs.c and    *)
(* src/drivers/block/ata.c.  The file system is one file, the root "/":    *)
(* a superblock, a table with its inode and a data block.  A system call   *)
(* polls the drive with interrupts off, so only a power failure comes      *)
(* between two of its transfers; every transfer that writes is a step and  *)
(* may fail.  A sector is written whole or not at all.  The flush after it *)
(* makes the drive's cache durable, but the status after the transfer and  *)
(* the flush is never read.  The disk is a blank image at first.  Offsets  *)
(* stay inside the block, and all bytes of one write have one value.       *)
(* Operators named ..._bug are seeded faults for the mutation runs.        *)
(***************************************************************************)
EXTENDS Integers, FiniteSets

CONSTANTS
  Opened,         \* struct files of "/"
  BlockSize,      \* bytes of a block, 512
  Bytes           \* values of a byte, 0 among them

ASSUME RelisFsAssumption ==
  /\ BlockSize \in Nat \ {0}
  /\ 0 \in Bytes

VARIABLES
  disk,           \* what the drive returns: superblock, inode table, data
  durable,        \* what of it survives a power failure
  block_buf,      \* the table block in the buffer, as mount handles it
  pc,             \* where mount or write is
  inode,          \* the root inode in memory
  f_pos,
  request,        \* the write in progress: file, byte and count
  acked,          \* history: bytes of the file some write has returned for
  possible,       \* history: the values each byte may have
  ignored,        \* history: an error of the drive that the code does not see
  torn            \* history: the power failed during a format

callVars == <<pc, block_buf, request>>
history  == <<acked, possible, ignored, torn>>
vars     == <<disk, durable, inode, f_pos, callVars, history>>

Offsets == 0 .. BlockSize - 1
Unused  == [used |-> FALSE, size |-> 0]
Root(n) == [used |-> TRUE, size |-> n]
NoRequest == [file |-> "none", byte |-> 0, count |-> 0]
Blank   == [magic |-> FALSE, table |-> Unused, data |-> [i \in Offsets |-> 0]]

Init ==
  /\ disk = Blank /\ durable = Blank
  /\ block_buf = Unused
  /\ pc = "read_superblock"
  /\ inode = Unused
  /\ f_pos = [f \in Opened |-> 0]
  /\ request = NoRequest
  /\ acked = 0
  /\ possible = [i \in Offsets |-> {0}]
  /\ ignored = FALSE
  /\ torn = FALSE

Goto(from, to) == pc = from /\ pc' = to
-----------------------------------------------------------------------------
\* ata_write_block(b, v), b a field of disk: the drive refuses the command, or
\* takes the block and flushes its cache, or takes it and then fails to write
\* or to flush it, and the result is 0 all the same.
WriteFails == UNCHANGED <<disk, durable>>

WriteFlushed(b, v) ==
  /\ disk' = [disk EXCEPT ![b] = v]
  /\ durable' = disk'

WriteUnflushed(b, v) ==
  /\ disk' = [disk EXCEPT ![b] = v]
  /\ UNCHANGED durable

\* The calls whose result is 0, or is dropped by the caller.
ata_write_block(b, v) ==
  \/ WriteFlushed(b, v) /\ UNCHANGED ignored
  \/ (WriteFails \/ WriteUnflushed(b, v)) /\ ignored' = TRUE
-----------------------------------------------------------------------------
\* relisfs_mount.  A read that fails leaves the buffer as it is.  Without the
\* magic number in the superblock the disk is formatted.
ReadSuperblock ==
  /\ pc = "read_superblock"
  /\ \/ pc' = IF disk.magic THEN "load" ELSE "write_superblock"
     \/ pc' = "not_mounted"
  /\ block_buf' = Unused
  /\ UNCHANGED <<disk, durable, inode, f_pos, request, history>>

WriteSuperblock ==
  /\ Goto("write_superblock", "clear_table")
  /\ ata_write_block("magic", TRUE)
  /\ UNCHANGED <<inode, f_pos, block_buf, request, acked, possible, torn>>

\* The buffer is cleared, and stays so if it cannot be read back.
ClearTable ==
  /\ Goto("clear_table", "write_root")
  /\ block_buf' = Unused
  /\ ata_write_block("table", Unused)
  /\ UNCHANGED <<inode, f_pos, request, acked, possible, torn>>

WriteRoot_bug ==
  /\ Goto("write_root", "load")
  /\ ata_write_block("table", block_buf)
  /\ UNCHANGED <<block_buf, inode, f_pos, request, acked, possible, torn>>

WriteRoot ==
  /\ Goto("write_root", "load")
  /\ block_buf' = Root(0)
  /\ ata_write_block("table", Root(0))
  /\ UNCHANGED <<inode, f_pos, request, acked, possible, torn>>

\* The result of the last read is dropped as well.
LoadInode ==
  /\ Goto("load", "idle")
  /\ \/ block_buf' = disk.table /\ UNCHANGED ignored
     \/ UNCHANGED block_buf /\ ignored' = TRUE
  /\ inode' = block_buf'
  /\ UNCHANGED <<disk, durable, f_pos, request, acked, possible, torn>>

relisfs_mount ==
  ReadSuperblock \/ WriteSuperblock \/ ClearTable \/ WriteRoot \/ LoadInode
-----------------------------------------------------------------------------
Min2(m, n) == IF m < n THEN m ELSE n
Max2(m, n) == IF m > n THEN m ELSE n

\* A read at the end of the file, or that the drive fails, changes nothing.
relisfs_read(f, count) ==
  /\ pc = "idle" /\ inode.used
  /\ f_pos[f] < inode.size
  /\ f_pos' = [f_pos EXCEPT ![f] = Min2(@ + count, inode.size)]
  /\ UNCHANGED <<disk, durable, inode, callVars, history>>

\* "/" is opened anew: a struct file at offset 0.
vfs_open(f) ==
  /\ pc = "idle"
  /\ f_pos' = [f_pos EXCEPT ![f] = 0]
  /\ UNCHANGED <<disk, durable, inode, callVars, history>>

\* relisfs_write: read the block, ...
StartWrite(f, x, count) ==
  /\ pc = "idle" /\ inode.used
  /\ f_pos[f] + count <= BlockSize
  /\ pc' = "write_data"
  /\ request' = [file |-> f, byte |-> x, count |-> count]
  /\ UNCHANGED <<disk, durable, block_buf, inode, f_pos, history>>

Pos == f_pos[request.file]
End == Pos + request.count

\* ... fail if the drive does not return it or does not take it back, ...
FailWrite ==
  /\ Goto("write_data", "idle")
  /\ WriteFails
  /\ request' = NoRequest
  /\ UNCHANGED <<block_buf, inode, f_pos, history>>

\* The bytes of the call, which end before end, are acknowledged.
Return(end) ==
  /\ pc' = "idle"
  /\ request' = NoRequest
  /\ acked' = Max2(acked, end)
  /\ possible' = [i \in Offsets |->
       IF i \in end - request.count .. end - 1 THEN {request.byte} ELSE possible[i]]

GrownSize_bug == inode.size

GrownSize == Max2(inode.size, End)

\* ... write it with the bytes changed, return if the file has not grown ...
WriteData ==
  /\ pc = "write_data"
  /\ ata_write_block("data",
       [i \in Offsets |-> IF i \in Pos .. End - 1 THEN request.byte ELSE disk.data[i]])
  /\ f_pos' = [f_pos EXCEPT ![request.file] = End]
  /\ inode' = [inode EXCEPT !.size = GrownSize]
  /\ IF End > inode.size
     THEN /\ pc' = "write_inode"
          /\ possible' = [i \in Offsets |->
               IF i \in Pos .. End - 1 THEN possible[i] \cup {request.byte} ELSE possible[i]]
          /\ UNCHANGED <<request, acked>>
     ELSE Return(End)
  /\ UNCHANGED <<block_buf, torn>>

WriteInode_bug ==
  /\ pc = "write_inode"
  /\ UNCHANGED <<disk, durable, ignored>>
  /\ Return(Pos)
  /\ UNCHANGED <<block_buf, inode, f_pos, torn>>

\* ... and otherwise write the inode; the call returns the count even if the
\* table cannot be read or written.
WriteInode ==
  /\ pc = "write_inode"
  /\ ata_write_block("table", inode)
  /\ Return(Pos)
  /\ UNCHANGED <<block_buf, inode, f_pos, torn>>

relisfs_write ==
  \/ \E f \in Opened, x \in Bytes \ {0}, count \in 1 .. BlockSize : StartWrite(f, x, count)
  \/ FailWrite \/ WriteData \/ WriteInode
-----------------------------------------------------------------------------
Formatting == {"clear_table", "write_root"}

\* The power fails: any block not flushed may be lost; then the kernel boots.
PowerFailure ==
  /\ \E lost \in SUBSET DOMAIN disk :
       disk' = [b \in DOMAIN disk |-> IF b \in lost THEN durable[b] ELSE disk[b]]
  /\ durable' = disk'
  /\ pc' = "read_superblock"
  /\ block_buf' = Unused
  /\ inode' = Unused
  /\ f_pos' = [f \in Opened |-> 0]
  /\ request' = NoRequest
  /\ torn' = (torn \/ pc \in Formatting)
  /\ UNCHANGED <<acked, possible, ignored>>

Next ==
  \/ relisfs_mount
  \/ \E f \in Opened, count \in 1 .. BlockSize : relisfs_read(f, count)
  \/ \E f \in Opened : vfs_open(f)
  \/ relisfs_write
  \/ PowerFailure

Spec == Init /\ [][Next]_vars
-----------------------------------------------------------------------------
\* Once mounted, the file has every byte a write returned for, with the value
\* written last or that of a write the power failure cut short, however often
\* the power fails - as long as the drive never had an error that relisfs or
\* ata.c drops.
NothingAckedLost ==
  pc = "idle" /\ ~ignored =>
    /\ acked > 0 => inode.used /\ inode.size >= acked
    /\ \A i \in 0 .. acked - 1 : disk.data[i] \in possible[i]

\* A mounted file system whose root cannot be used, and never will be since
\* the magic number is there, comes only from a power failure during the
\* format or from a dropped error.
UsableUnlessTorn == pc = "idle" /\ ~inode.used => torn \/ ignored
=============================================================================
