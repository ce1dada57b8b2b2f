--------------------------- MODULE RelisFsProofs ---------------------------
(***************************************************************************)
(* relisfs loses nothing it has acknowledged, and formats a disk whole,    *)
(* unless the drive had an error that the code drops: for every number of  *)
(* open files, every block size and any number of power failures.          *)
(***************************************************************************)
EXTENDS RelisFs, TLAPS

Inodes == {i \in [used : BOOLEAN, size : 0 .. BlockSize] : i.used \/ i.size = 0}

Disks == [magic : BOOLEAN, table : Inodes, data : [Offsets -> Bytes]]

\* The types.  No offset of a file passes its size.
TypeInv ==
  /\ disk \in Disks /\ durable \in Disks
  /\ block_buf \in Inodes /\ inode \in Inodes
  /\ f_pos \in [Opened -> Nat]
  /\ \A f \in Opened : f_pos[f] <= inode.size
  /\ acked \in 0 .. BlockSize
  /\ possible \in [Offsets -> SUBSET Bytes]
  /\ ignored \in BOOLEAN /\ torn \in BOOLEAN

Writing == {"write_data", "write_inode"}

Requests == [file : Opened, byte : Bytes, count : 1 .. BlockSize]

\* A write in progress fits into the block, and its file can be used.  There
\* is no inode in memory before the end of mount.
CallInv ==
  /\ pc \notin Writing \cup {"idle"} => inode = Unused
  /\ pc \in Writing => request \in Requests /\ inode.used
  /\ pc = "write_data" => End <= BlockSize

\* What is on the disk, if no error was dropped.  All of it is durable.  What
\* has been acknowledged is in the table, which nothing formats any more; the
\* table is the inode in memory but for a write that has grown the file; and
\* a disk with the magic number has a root unless a format was cut short.
DiskInv ==
  /\ durable = disk
  /\ pc \notin {"read_superblock", "write_superblock", "not_mounted"} => disk.magic
  /\ acked > 0 => disk.magic /\ disk.table.used /\ disk.table.size >= acked
  /\ pc \in Formatting \cup {"write_superblock"} => acked = 0
  /\ \A i \in Offsets : disk.data[i] \in possible[i]
  /\ pc \in {"idle", "write_data"} => inode = disk.table
  /\ pc = "write_inode" =>
       /\ inode.size >= disk.table.size
       /\ \A i \in Offsets : i \in Pos - request.count .. Pos - 1 => disk.data[i] = request.byte
  /\ ~torn => /\ disk.magic => disk.table.used \/ pc \in Formatting
              /\ pc = "load" => disk.table.used

RelisFsInv == TypeInv /\ CallInv /\ (~ignored => DiskInv)
-----------------------------------------------------------------------------

\* The inodes there are.
LEMMA InodeFacts ==
  /\ Unused \in Inodes /\ Unused.size = 0
  /\ \A n \in 0 .. BlockSize : Root(n) \in Inodes
  /\ \A i \in Inodes :
       /\ i.size \in 0 .. BlockSize
       /\ i.used \in BOOLEAN
       /\ [i EXCEPT !.size = i.size] = i
       /\ i.used => \A n \in 0 .. BlockSize : LET e == [i EXCEPT !.size = n] IN
            e \in Inodes /\ e.used /\ e.size = n
BY RelisFsAssumption DEF Inodes, Unused, Root

\* A disk of which the superblock is written.
LEMMA MagicWritten ==
  ASSUME disk \in Disks, durable \in Disks, ignored \in BOOLEAN, ata_write_block("magic", TRUE)
  PROVE  /\ disk' \in Disks /\ durable' \in Disks /\ ignored' \in BOOLEAN
         /\ ~ignored' => /\ ~ignored /\ durable' = disk'
                         /\ disk'.magic /\ disk'.table = disk.table /\ disk'.data = disk.data
BY Zenon DEF Disks, ata_write_block, WriteFlushed, WriteFails, WriteUnflushed

\* A disk of which the table is written.
LEMMA TableWritten ==
  ASSUME disk \in Disks, durable \in Disks, ignored \in BOOLEAN,
         NEW v \in Inodes, ata_write_block("table", v)
  PROVE  /\ disk' \in Disks /\ durable' \in Disks /\ ignored' \in BOOLEAN
         /\ ~ignored' => /\ ~ignored /\ durable' = disk'
                         /\ disk'.table = v /\ disk'.magic = disk.magic /\ disk'.data = disk.data
BY Zenon DEF Disks, ata_write_block, WriteFlushed, WriteFails, WriteUnflushed

\* A disk of which the data are written.
LEMMA DataWritten ==
  ASSUME disk \in Disks, durable \in Disks, ignored \in BOOLEAN,
         NEW v \in [Offsets -> Bytes], ata_write_block("data", v)
  PROVE  /\ disk' \in Disks /\ durable' \in Disks /\ ignored' \in BOOLEAN
         /\ ~ignored' => /\ ~ignored /\ durable' = disk'
                         /\ disk'.data = v /\ disk'.magic = disk.magic /\ disk'.table = disk.table
BY Zenon DEF Disks, ata_write_block, WriteFlushed, WriteFails, WriteUnflushed

\* After a power failure every block is one of two.
LEMMA BlocksLost ==
  ASSUME NEW d \in Disks, NEW e \in Disks, NEW lost \in SUBSET DOMAIN d
  PROVE  /\ [b \in DOMAIN d |-> IF b \in lost THEN e[b] ELSE d[b]] \in Disks
         /\ e = d => [b \in DOMAIN d |-> IF b \in lost THEN e[b] ELSE d[b]] = d
<1>1. DOMAIN d = {"magic", "table", "data"} /\ DOMAIN e = {"magic", "table", "data"}
  BY DEF Disks
<1>2. [b \in DOMAIN d |-> IF b \in lost THEN e[b] ELSE d[b]] \in Disks
  BY <1>1 DEF Disks
<1>3. e = d => [b \in DOMAIN d |-> IF b \in lost THEN e[b] ELSE d[b]] = d
  BY DEF Disks
<1> QED
  BY <1>2, <1>3

\* Without the magic number nothing has been acknowledged.
LEMMA ReadSuperblockStep ==
  ASSUME RelisFsInv, ReadSuperblock
  PROVE  RelisFsInv'
<1>1. TypeInv'
  BY InodeFacts DEF RelisFsInv, TypeInv, ReadSuperblock, history
<1>2. CallInv'
  BY DEF RelisFsInv, CallInv, Writing, ReadSuperblock, history
<1>3. (~ignored => DiskInv)'
  BY DEF RelisFsInv, TypeInv, DiskInv, Formatting, ReadSuperblock, history
<1> QED
  BY <1>1, <1>2, <1>3 DEF RelisFsInv

\* The superblock of a format.
LEMMA WriteSuperblockStep ==
  ASSUME RelisFsInv, WriteSuperblock
  PROVE  RelisFsInv'
<1>1. /\ disk' \in Disks /\ durable' \in Disks /\ ignored' \in BOOLEAN
      /\ ~ignored' => /\ ~ignored /\ durable' = disk' /\ disk'.magic
                      /\ disk'.table = disk.table /\ disk'.data = disk.data
  BY MagicWritten DEF RelisFsInv, TypeInv, WriteSuperblock
<1>2. TypeInv'
  BY <1>1 DEF RelisFsInv, TypeInv, WriteSuperblock
<1>3. CallInv'
  BY DEF RelisFsInv, CallInv, Writing, WriteSuperblock, Goto
<1>4. (~ignored => DiskInv)'
  BY <1>1 DEF RelisFsInv, DiskInv, Formatting, WriteSuperblock, Goto
<1> QED
  BY <1>2, <1>3, <1>4 DEF RelisFsInv

\* The empty table of a format.
LEMMA ClearTableStep ==
  ASSUME RelisFsInv, ClearTable
  PROVE  RelisFsInv'
<1>1. /\ disk' \in Disks /\ durable' \in Disks /\ ignored' \in BOOLEAN
      /\ ~ignored' => /\ ~ignored /\ durable' = disk' /\ disk'.table = Unused
                      /\ disk'.magic = disk.magic /\ disk'.data = disk.data
  BY TableWritten, InodeFacts DEF RelisFsInv, TypeInv, ClearTable
<1>2. TypeInv'
  BY <1>1, InodeFacts DEF RelisFsInv, TypeInv, ClearTable
<1>3. CallInv'
  BY DEF RelisFsInv, CallInv, Writing, ClearTable, Goto
<1>4. (~ignored => DiskInv)'
  BY <1>1 DEF RelisFsInv, DiskInv, Formatting, ClearTable, Goto
<1> QED
  BY <1>2, <1>3, <1>4 DEF RelisFsInv

\* The root directory of a format.
LEMMA WriteRootStep ==
  ASSUME RelisFsInv, WriteRoot
  PROVE  RelisFsInv'
<1> USE RelisFsAssumption
<1>1. Root(0) \in Inodes /\ Unused.size = 0 /\ inode = Unused
  BY InodeFacts DEF RelisFsInv, CallInv, WriteRoot, Goto, Writing, Unused
<1>2. /\ disk' \in Disks /\ durable' \in Disks /\ ignored' \in BOOLEAN
      /\ ~ignored' => /\ ~ignored /\ durable' = disk' /\ disk'.table = Root(0)
                      /\ disk'.magic = disk.magic /\ disk'.data = disk.data
  BY <1>1, TableWritten DEF RelisFsInv, TypeInv, WriteRoot
<1>3. TypeInv'
  BY <1>1, <1>2 DEF RelisFsInv, TypeInv, WriteRoot
<1>4. CallInv'
  BY DEF RelisFsInv, CallInv, Writing, WriteRoot, Goto
<1>5. (~ignored => DiskInv)'
  BY <1>2 DEF RelisFsInv, DiskInv, Root, Formatting, WriteRoot, Goto
<1> QED
  BY <1>3, <1>4, <1>5 DEF RelisFsInv

\* Without a dropped error the inode is the one of the table.
LEMMA LoadInodeStep ==
  ASSUME RelisFsInv, LoadInode
  PROVE  RelisFsInv'
<1> USE RelisFsAssumption
<1>1. inode' \in Inodes /\ block_buf' = inode'
  BY DEF RelisFsInv, TypeInv, Disks, LoadInode
<1>2. \A f \in Opened : f_pos'[f] <= inode'.size
  <2>1. \A f \in Opened : f_pos[f] = 0
    BY DEF RelisFsInv, TypeInv, CallInv, Writing, Unused, LoadInode, Goto
  <2> QED
    BY <1>1, <2>1, InodeFacts DEF LoadInode
<1>3. TypeInv'
  BY <1>1, <1>2, Zenon DEF RelisFsInv, TypeInv, LoadInode
<1>4. CallInv'
  BY DEF CallInv, Writing, LoadInode, Goto
<1>5. (~ignored => DiskInv)'
  BY DEF RelisFsInv, TypeInv, DiskInv, Formatting, LoadInode, Goto
<1> QED
  BY <1>3, <1>4, <1>5 DEF RelisFsInv

\* A read stops at the size.
LEMMA ReadStep ==
  ASSUME RelisFsInv,
         NEW f \in Opened, NEW count \in 1 .. BlockSize, relisfs_read(f, count)
  PROVE  RelisFsInv'
<1>1. TypeInv'
  BY InodeFacts DEF RelisFsInv, TypeInv, relisfs_read, Min2, callVars, history
<1>2. CallInv'
  BY InodeFacts DEF RelisFsInv, CallInv, Writing, relisfs_read, callVars, history
<1>3. (~ignored => DiskInv)'
  BY DEF RelisFsInv, DiskInv, Formatting, relisfs_read, callVars, history
<1> QED
  BY <1>1, <1>2, <1>3 DEF RelisFsInv

\* A file is opened at offset 0.
LEMMA OpenStep ==
  ASSUME RelisFsInv, NEW f \in Opened, vfs_open(f)
  PROVE  RelisFsInv'
<1>1. TypeInv'
  BY InodeFacts DEF RelisFsInv, TypeInv, vfs_open, callVars, history
<1>2. CallInv'
  BY DEF RelisFsInv, CallInv, Writing, vfs_open, callVars, history
<1>3. (~ignored => DiskInv)'
  BY DEF RelisFsInv, DiskInv, Formatting, vfs_open, callVars, history
<1> QED
  BY <1>1, <1>2, <1>3 DEF RelisFsInv

\* A write starts inside the block.
LEMMA StartWriteStep ==
  ASSUME RelisFsInv, NEW f \in Opened, NEW x \in Bytes \ {0}, NEW count \in 1 .. BlockSize,
         StartWrite(f, x, count)
  PROVE  RelisFsInv'
<1>1. TypeInv'
  BY RelisFsAssumption DEF RelisFsInv, TypeInv, StartWrite, history
<1>2. CallInv'
  BY RelisFsAssumption
  DEF RelisFsInv, TypeInv, CallInv, Writing, Requests, Pos, End, StartWrite, history
<1>3. (~ignored => DiskInv)'
  BY DEF RelisFsInv, DiskInv, Formatting, StartWrite, history
<1> QED
  BY <1>1, <1>2, <1>3 DEF RelisFsInv

\* A write that fails changes nothing.
LEMMA FailWriteStep ==
  ASSUME RelisFsInv, FailWrite
  PROVE  RelisFsInv'
<1>1. TypeInv'
  BY DEF RelisFsInv, TypeInv, FailWrite, WriteFails, history
<1>2. CallInv'
  BY DEF RelisFsInv, CallInv, Writing, FailWrite, WriteFails, Goto, history
<1>3. (~ignored => DiskInv)'
  BY DEF RelisFsInv, DiskInv, Formatting, FailWrite, WriteFails, Goto, history
<1> QED
  BY <1>1, <1>2, <1>3 DEF RelisFsInv

\* The data block.
LEMMA WriteDataStep ==
  ASSUME RelisFsInv, WriteData
  PROVE  RelisFsInv'
<1> DEFINE new == [i \in Offsets |->
                    IF i \in Pos .. End - 1 THEN request.byte ELSE disk.data[i]]
           size == GrownSize
<1> USE RelisFsAssumption
<1>1. /\ request \in Requests /\ inode.used /\ inode.size \in 0 .. BlockSize
      /\ Pos \in Nat /\ Pos <= inode.size
      /\ End \in Nat /\ Pos < End /\ End <= BlockSize
  BY InodeFacts DEF RelisFsInv, TypeInv, CallInv, WriteData, Writing, Requests, Pos, End
<1>2. new \in [Offsets -> Bytes]
  BY <1>1 DEF RelisFsInv, TypeInv, Requests, Disks
<1>3. /\ size \in 0 .. BlockSize /\ size >= End /\ size >= inode.size
      /\ End <= inode.size => size = inode.size
      /\ inode' = [inode EXCEPT !.size = size]
      /\ inode' \in Inodes /\ inode'.size = size /\ inode'.used
  <2>1. size \in 0 .. BlockSize /\ size >= End /\ size >= inode.size
    BY <1>1 DEF GrownSize, Max2
  <2>2. End <= inode.size => size = inode.size
    BY <1>1 DEF GrownSize, Max2
  <2>3. inode \in Inodes /\ inode' = [inode EXCEPT !.size = size]
    BY DEF RelisFsInv, TypeInv, WriteData
  <2> HIDE DEF size
  <2> QED
    BY <1>1, <2>1, <2>2, <2>3, InodeFacts
<1>4. f_pos' = [f_pos EXCEPT ![request.file] = End] /\ Pos' = f_pos'[request'.file]
  BY DEF WriteData, Pos
<1>5. f_pos' \in [Opened -> Nat] /\ \A f \in Opened : f_pos'[f] <= inode'.size
  <2>1. f_pos \in [Opened -> Nat] /\ \A f \in Opened : f_pos[f] <= inode.size
    BY DEF RelisFsInv, TypeInv
  <2>2. ASSUME NEW f \in Opened
        PROVE  f_pos'[f] \in Nat /\ f_pos'[f] <= inode'.size
    <3>1. CASE f = request.file
      BY <1>1, <1>3, <1>4, <2>1, <3>1
    <3>2. CASE f # request.file
      <4>1. f_pos'[f] = f_pos[f]
        BY <1>4, <2>1, <3>2
      <4> QED
        BY <1>1, <1>3, <2>1, <4>1
    <3> QED
      BY <3>1, <3>2
  <2> QED
    BY <1>4, <2>1, <2>2, Zenon
<1>6. ata_write_block("data", new)
  BY DEF WriteData
<1>7. /\ disk' \in Disks /\ durable' \in Disks /\ ignored' \in BOOLEAN
      /\ ~ignored' => /\ ~ignored /\ durable' = disk'
                      /\ disk'.data = new /\ disk'.magic = disk.magic /\ disk'.table = disk.table
  BY <1>2, <1>6, DataWritten DEF RelisFsInv, TypeInv
<1>8. CASE End > inode.size
  <2>1. /\ pc' = "write_inode" /\ request' = request /\ acked' = acked
        /\ possible' = [i \in Offsets |->
             IF i \in Pos .. End - 1 THEN possible[i] \cup {request.byte} ELSE possible[i]]
    BY <1>8 DEF WriteData
  <2>2. Pos' = End
    BY <1>1, <1>4, <2>1 DEF Requests, RelisFsInv, TypeInv
  <2>3. TypeInv'
    <3>1. possible' \in [Offsets -> SUBSET Bytes]
      BY <1>1, <2>1 DEF RelisFsInv, TypeInv, Requests
    <3> QED
      BY <1>3, <1>7, <1>5, <2>1, <3>1, InodeFacts DEF RelisFsInv, TypeInv, WriteData
  <2>4. CallInv'
    BY <1>1, <1>3, <2>1 DEF CallInv, Writing
  <2>5. (~ignored => DiskInv)'
    <3> SUFFICES ASSUME ~ignored' PROVE DiskInv'
      OBVIOUS
    <3>1. \A i \in Offsets : disk'.data[i] \in possible'[i]
      BY <1>7, <2>1 DEF RelisFsInv, DiskInv
    <3>2. \A i \in Offsets : i \in (Pos - request.count .. Pos - 1)' => disk'.data[i] = request'.byte
      BY <1>1, <1>7, <2>1, <2>2 DEF End, Pos, Requests, RelisFsInv, TypeInv
    <3> QED
      BY <1>1, <1>3, <1>7, <2>1, <3>1, <3>2 DEF RelisFsInv, DiskInv, Formatting, WriteData
  <2> QED
    BY <2>3, <2>4, <2>5 DEF RelisFsInv
<1>9. CASE ~(End > inode.size)
  <2>1. pc' = "idle" /\ acked' = Max2(acked, End) /\ End - request.count = Pos
    BY <1>1, <1>9 DEF WriteData, Return, End, Requests
  <2>2. possible' = [i \in Offsets |->
          IF i \in Pos .. End - 1 THEN {request.byte} ELSE possible[i]]
    BY <1>9, <2>1 DEF WriteData, Return
  <2>3. TypeInv'
    <3>1. possible' \in [Offsets -> SUBSET Bytes]
      BY <1>1, <2>2 DEF RelisFsInv, TypeInv, Requests
    <3>3. acked' \in 0 .. BlockSize
      BY <1>1, <2>1 DEF RelisFsInv, TypeInv, Max2
    <3> QED
      BY <1>3, <1>7, <1>5, <3>1, <3>3, InodeFacts DEF RelisFsInv, TypeInv, WriteData
  <2>4. CallInv'
    BY <2>1 DEF CallInv, Writing
  <2>5. inode' = inode
    <3>1. inode \in Inodes /\ size = inode.size
      BY <1>1, <1>3, <1>9 DEF RelisFsInv, TypeInv
    <3> HIDE DEF size
    <3> QED
      BY <1>3, <3>1, InodeFacts
  <2>6. (~ignored => DiskInv)'
    <3> SUFFICES ASSUME ~ignored' PROVE DiskInv'
      OBVIOUS
    <3>1. \A i \in Offsets : disk'.data[i] \in possible'[i]
      BY <1>7, <2>2 DEF RelisFsInv, DiskInv
    <3>2. inode = disk.table /\ disk.magic
      BY <1>7 DEF RelisFsInv, DiskInv, WriteData
    <3>3. acked' > 0 => disk'.magic /\ disk'.table.used /\ disk'.table.size >= acked'
      <4>1. acked \in Nat /\ (acked > 0 => inode.size >= acked)
        BY <1>7, <3>2 DEF RelisFsInv, TypeInv, DiskInv
      <4>2. acked' <= inode.size
        BY <1>1, <1>9, <2>1, <4>1 DEF Max2
      <4> QED
        BY <1>1, <1>7, <3>2, <4>1, <4>2, Zenon
    <3> QED
      BY <1>7, <2>1, <2>5, <3>1, <3>2, <3>3, Zenon
      DEF RelisFsInv, DiskInv, Formatting, WriteData
  <2> QED
    BY <2>3, <2>4, <2>6 DEF RelisFsInv
<1> QED
  BY <1>8, <1>9

\* The inode, after which the bytes are acknowledged.
LEMMA WriteInodeStep ==
  ASSUME RelisFsInv, WriteInode
  PROVE  RelisFsInv'
<1> USE RelisFsAssumption
<1>1. /\ request \in Requests /\ inode.used /\ inode \in Inodes /\ inode.size \in 0 .. BlockSize
      /\ Pos \in Nat /\ Pos <= inode.size
      /\ pc' = "idle" /\ acked' = Max2(acked, Pos)
  BY InodeFacts DEF RelisFsInv, TypeInv, CallInv, WriteInode, Return, Writing, Requests, Pos
<1>2. possible' = [i \in Offsets |->
        IF i \in Pos - request.count .. Pos - 1 THEN {request.byte} ELSE possible[i]]
  BY DEF WriteInode, Return
<1>3. /\ disk' \in Disks /\ durable' \in Disks /\ ignored' \in BOOLEAN
      /\ ~ignored' => /\ ~ignored /\ durable' = disk'
                      /\ disk'.data = disk.data /\ disk'.magic = disk.magic /\ disk'.table = inode
  BY <1>1, TableWritten DEF RelisFsInv, TypeInv, WriteInode
<1>4. TypeInv'
  <2>1. possible' \in [Offsets -> SUBSET Bytes]
    BY <1>1, <1>2 DEF RelisFsInv, TypeInv, Requests
  <2>2. acked' \in 0 .. BlockSize
    BY <1>1 DEF RelisFsInv, TypeInv, Max2
  <2> QED
    BY <1>3, <2>1, <2>2 DEF RelisFsInv, TypeInv, WriteInode
<1>5. CallInv'
  BY <1>1 DEF CallInv, Writing
<1>6. (~ignored => DiskInv)'
  <2> SUFFICES ASSUME ~ignored' PROVE DiskInv'
    OBVIOUS
  <2>1. \A i \in Offsets : disk'.data[i] \in possible'[i]
    BY <1>2, <1>3 DEF RelisFsInv, DiskInv, WriteInode
  <2>2. acked' > 0 => disk'.magic /\ disk'.table.used /\ disk'.table.size >= acked'
    <3>1. /\ acked \in Nat /\ disk.magic
          /\ disk.table.size \in Nat /\ inode.size >= disk.table.size
          /\ acked > 0 => disk.table.size >= acked
      <4>1. acked \in Nat /\ disk.table \in Inodes
        BY RelisFsInv DEF RelisFsInv, TypeInv, Disks
      <4> QED
        BY <1>3, <4>1, InodeFacts DEF RelisFsInv, DiskInv, WriteInode
    <3>2. acked' <= inode.size
      BY <1>1, <3>1 DEF Max2
    <3> QED
      BY <1>1, <1>3, <3>1, <3>2, Zenon
  <2> QED
    BY <1>1, <1>3, <2>1, <2>2 DEF RelisFsInv, DiskInv, Formatting, WriteInode
<1> QED
  BY <1>4, <1>5, <1>6 DEF RelisFsInv

\* If all of the disk is durable, nothing on it is lost.
LEMMA PowerFailureStep ==
  ASSUME RelisFsInv, PowerFailure
  PROVE  RelisFsInv'
<1> USE RelisFsAssumption
<1>1. disk' \in Disks /\ durable' = disk' /\ (durable = disk => disk' = disk)
  <2>1. PICK lost \in SUBSET DOMAIN disk :
          disk' = [b \in DOMAIN disk |-> IF b \in lost THEN durable[b] ELSE disk[b]]
    BY DEF PowerFailure
  <2>2. disk \in Disks /\ durable \in Disks /\ durable' = disk'
    BY DEF RelisFsInv, TypeInv, PowerFailure
  <2> QED
    BY <2>1, <2>2, BlocksLost
<1>2. TypeInv'
  BY <1>1, InodeFacts DEF RelisFsInv, TypeInv, Unused, PowerFailure
<1>3. CallInv'
  BY DEF CallInv, Writing, PowerFailure
<1>4. (~ignored => DiskInv)'
  BY <1>1, Zenon DEF RelisFsInv, DiskInv, Formatting, PowerFailure
<1> QED
  BY <1>2, <1>3, <1>4 DEF RelisFsInv
-----------------------------------------------------------------------------
\* A blank disk satisfies the invariant.
LEMMA InitInv == Init => RelisFsInv
<1> SUFFICES ASSUME Init PROVE RelisFsInv
  OBVIOUS
<1> USE RelisFsAssumption
<1>1. Blank \in Disks /\ Blank.magic = FALSE /\ Blank.table = Unused
      /\ \A i \in Offsets : Blank.data[i] = 0
  BY InodeFacts DEF Blank, Disks
<1>2. TypeInv
  <2>1. Unused \in Inodes /\ Unused.size = 0
    BY InodeFacts DEF Unused
  <2>2. possible \in [Offsets -> SUBSET Bytes]
    BY DEF Init
  <2>3. f_pos \in [Opened -> Nat] /\ \A f \in Opened : f_pos[f] <= inode.size
    BY <2>1 DEF Init
  <2>4. acked \in 0 .. BlockSize
    BY DEF Init
  <2> QED
    BY <1>1, <2>1, <2>2, <2>3, <2>4, Zenon DEF Init, TypeInv
<1>3. CallInv
  BY DEF Init, CallInv, Writing
<1>4. DiskInv
  BY <1>1 DEF Init, DiskInv, Formatting
<1> QED
  BY <1>2, <1>3, <1>4 DEF RelisFsInv

\* Every step of the file system and every power failure keeps it.
LEMMA NextInv == RelisFsInv /\ [Next]_vars => RelisFsInv'
<1> SUFFICES ASSUME RelisFsInv, [Next]_vars PROVE RelisFsInv'
  OBVIOUS
<1>1. CASE relisfs_mount
  BY <1>1, ReadSuperblockStep, WriteSuperblockStep, ClearTableStep, WriteRootStep, LoadInodeStep
  DEF relisfs_mount
<1>2. CASE \E f \in Opened, count \in 1 .. BlockSize : relisfs_read(f, count)
  BY <1>2, ReadStep
<1>3. CASE \E f \in Opened : vfs_open(f)
  BY <1>3, OpenStep
<1>4. CASE relisfs_write
  BY <1>4, StartWriteStep, FailWriteStep, WriteDataStep, WriteInodeStep DEF relisfs_write
<1>5. CASE PowerFailure
  BY <1>5, PowerFailureStep
<1>6. CASE UNCHANGED vars
  BY <1>6 DEF vars, callVars, history, RelisFsInv, TypeInv, CallInv, DiskInv, Pos, End
<1> QED
  BY <1>1, <1>2, <1>3, <1>4, <1>5, <1>6 DEF Next

\* The invariant holds for ever.
THEOREM RelisFsInvariance == Spec => []RelisFsInv
BY InitInv, NextInv, PTL DEF Spec

\* What relisfs_write has returned for is in the mounted file, with the value
\* written last or that of a write the power failure cut short, unless an
\* error of the drive was dropped.
THEOREM AckedCorrect == Spec => []NothingAckedLost
<1>1. RelisFsInv => NothingAckedLost
  <2> SUFFICES ASSUME RelisFsInv, pc = "idle", ~ignored
               PROVE  /\ acked > 0 => inode.used /\ inode.size >= acked
                      /\ \A i \in 0 .. acked - 1 : disk.data[i] \in possible[i]
    BY DEF NothingAckedLost
  <2>1. acked \in 0 .. BlockSize /\ DiskInv
    BY DEF RelisFsInv, TypeInv
  <2> QED
    BY <2>1, RelisFsAssumption DEF DiskInv, Offsets
<1> QED
  BY <1>1, RelisFsInvariance, PTL

\* A root that cannot be used comes only from a power failure during the
\* format or from a dropped error.
THEOREM UsableCorrect == Spec => []UsableUnlessTorn
<1>1. RelisFsInv => UsableUnlessTorn
  BY DEF RelisFsInv, DiskInv, UsableUnlessTorn, Formatting
<1> QED
  BY <1>1, RelisFsInvariance, PTL
=============================================================================
