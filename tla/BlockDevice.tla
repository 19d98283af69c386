----------------------------- MODULE BlockDevice -----------------------------
(***************************************************************************)
(* The files /dev/sda, /dev/sda1, ... (fs/dev/dev_disk.c) over the ATA PIO *)
(* driver (dev/disk_manager.c).  A call of the driver holds ide_lock from  *)
(* its first to its last sector and is one step; dev_disk_read and         *)
(* dev_disk_write hold no lock between their calls of the driver, so the   *)
(* steps of two threads mix.  A byte of a thread's buffer is <<t, i>>.     *)
(***************************************************************************)
EXTENDS Integers, Sequences, SequencesExt

CONSTANTS
    Threads, SECTOR,   \* bytes of a sector (512)
    CHUNK,             \* sectors of one bulk call (128)
    SECTORS,           \* sectors of the drive
    Disk,              \* the Disk each thread has opened: [start, total]
    Offsets, Sizes,    \* arguments of seek, read and write
    Misalignments,     \* the buffer's address modulo SECTOR
    MAXREQUESTS        \* bound: requests made

VARIABLES medium,      \* the drive: byte address -> value
          position,    \* file->position of each thread
          io,          \* what each thread's request is doing
          requests,    \* how many requests were made
          told         \* whether every request answered so far was right

vars == <<medium, position, io, requests, told>>

Rest == [op |-> "none"]
Bytes == 0..(SECTORS * SECTOR - 1)
Lesser(a, b) == IF a < b THEN a ELSE b
Size(t) == Disk[t].total * SECTOR

\* Mutant: the offset of the partition is not added.
Unresolved(t, lba) == lba

\* ata_resolve_partition: sectors of a partition are counted from its start.
ata_resolve_partition(t, lba) == lba + Disk[t].start

Address(t, sector) == ata_resolve_partition(t, sector) * SECTOR

\* A request for size bytes at the file's position.
Begins(t, op, size, skew) ==
    /\ io[t] = Rest /\ requests < MAXREQUESTS
    /\ requests' = requests + 1
    /\ io' = [io EXCEPT ![t] = [op |-> op, size |-> size, skew |-> skew, from |-> position[t],
                                total |-> 0, got |-> <<>>, buf |-> <<>>, failed |-> FALSE,
                                sector |-> position[t] \div SECTOR,
                                offset |-> position[t] % SECTOR]]
    /\ UNCHANGED <<medium, position, told>>

Running(t) ==
    /\ io[t].op # "none" /\ ~io[t].failed
    /\ io[t].total < io[t].size /\ io[t].sector < Disk[t].total

\* Mutant: the chunk is not cut at the end of the disk.
BulkUnbounded(t) ==
    LET r == io[t]
    IN  IF r.offset = 0 /\ r.size - r.total >= SECTOR /\ (r.skew + r.total) % SECTOR = 0
        THEN Lesser(CHUNK, (r.size - r.total) \div SECTOR)
        ELSE 0

\* How many sectors go in one call of the driver; none when the position or
\* the buffer is not at a sector boundary.
Bulk(t) ==
    LET r == io[t]
    IN  IF r.offset = 0 /\ r.size - r.total >= SECTOR /\ (r.skew + r.total) % SECTOR = 0
        THEN Lesser(CHUNK, Lesser((r.size - r.total) \div SECTOR, Disk[t].total - r.sector))
        ELSE 0

ToCopy(t) == Lesser(SECTOR - io[t].offset, io[t].size - io[t].total)

Advance(t, bytes, sectors, got) ==
    /\ position' = [position EXCEPT ![t] = @ + bytes]
    /\ io' = [io EXCEPT ![t].total = @ + bytes, ![t].sector = @ + sectors, ![t].offset = 0,
                        ![t].got = @ \o got, ![t].buf = <<>>]

\* Sectors are moved batch by batch until the drive fails one; which of them
\* were moved is all that the batches leave visible.
ata_read_sectors(t, count) == [i \in 1..(count * SECTOR) |-> Address(t, io[t].sector) + i - 1]

ata_write_sectors(t, done) ==
    [b \in Bytes |->
        LET i == b - Address(t, io[t].sector)
        IN  IF i \in 0..(done * SECTOR - 1) THEN <<t, io[t].total + i>> ELSE medium[b]]

\* The buffer a partial sector is merged in; -1 for bytes never read.
SectorBuffer(t) ==
    [i \in 0..(SECTOR - 1) |->
        IF i \in io[t].offset..(io[t].offset + ToCopy(t) - 1)
        THEN <<t, io[t].total + i - io[t].offset>>
        ELSE io[t].buf[i]]

ata_write_sector(t) ==
    [b \in Bytes |->
        LET i == b - Address(t, io[t].sector)
        IN  IF i \in 0..(SECTOR - 1) THEN SectorBuffer(t)[i] ELSE medium[b]]

dev_disk_read(t) ==
    /\ Running(t) /\ io[t].op = "read"
    /\ IF Bulk(t) > 0
       THEN Advance(t, Bulk(t) * SECTOR, Bulk(t), ata_read_sectors(t, Bulk(t)))
       ELSE Advance(t, ToCopy(t), 1,
                    [i \in 1..ToCopy(t) |-> Address(t, io[t].sector) + io[t].offset + i - 1])
    /\ UNCHANGED <<medium, requests, told>>

WritesBulk(t) ==
    /\ Running(t) /\ io[t].op = "write" /\ Bulk(t) > 0
    /\ medium' = ata_write_sectors(t, Bulk(t))
    /\ Advance(t, Bulk(t) * SECTOR, Bulk(t), <<>>)
    /\ UNCHANGED <<requests, told>>

Partial(t) == io[t].offset # 0 \/ ToCopy(t) < SECTOR

ReadsBefore(t) ==
    /\ Running(t) /\ io[t].op = "write" /\ Bulk(t) = 0 /\ Partial(t) /\ io[t].buf = <<>>
    /\ io' = [io EXCEPT ![t].buf =
           [i \in 0..(SECTOR - 1) |-> medium[Address(t, io[t].sector) + i]]]
    /\ UNCHANGED <<medium, position, requests, told>>

WritesSector(t) ==
    /\ Running(t) /\ io[t].op = "write" /\ Bulk(t) = 0
    /\ Partial(t) => io[t].buf # <<>>
    /\ medium' = ata_write_sector(t)
    /\ Advance(t, ToCopy(t), 1, <<>>)
    /\ UNCHANGED <<requests, told>>

\* The drive stays busy or reports an error: the loop ends.  A bulk write may
\* have put some of its sectors on the medium.
Fails(t) ==
    /\ Running(t)
    /\ io' = [io EXCEPT ![t].failed = TRUE]
    /\ \E done \in 0..(IF io[t].op = "write" /\ Bulk(t) > 0 THEN Bulk(t) - 1 ELSE 0) :
          medium' = ata_write_sectors(t, done)
    /\ UNCHANGED <<position, requests, told>>

\* What a request should have done, with no word of sectors.
Wanted(t) == Lesser(io[t].size, Size(t) - io[t].from)
RightAnswer(t) ==
    LET r == io[t]
        first == Disk[t].start * SECTOR + r.from
    IN  /\ r.total <= Wanted(t) /\ (~r.failed => r.total = Wanted(t))
        /\ position[t] = r.from + r.total
        /\ r.op = "read" => r.got = [i \in 1..r.total |-> first + i - 1]
        /\ r.op = "write" => \A i \in 0..(r.total - 1) : medium[first + i] = <<t, i>>

Returns(t) ==
    /\ io[t].op # "none" /\ ~Running(t)
    /\ told' = RightAnswer(t)
    /\ io' = [io EXCEPT ![t] = Rest]
    /\ UNCHANGED <<medium, position, requests>>

dev_disk_seek(t, to) ==
    /\ io[t] = Rest
    /\ position' = [position EXCEPT ![t] = Lesser(to, Size(t))]
    /\ UNCHANGED <<medium, io, requests, told>>

----------------------------------------------------------------------------
Init ==
    /\ medium = [b \in Bytes |-> <<>>]
    /\ position = [t \in Threads |-> 0]
    /\ io = [t \in Threads |-> Rest]
    /\ requests = 0
    /\ told = TRUE

Next ==
    \E t \in Threads :
        \/ \E op \in {"read", "write"}, n \in Sizes, s \in Misalignments : Begins(t, op, n, s)
        \/ dev_disk_read(t)
        \/ WritesBulk(t)
        \/ ReadsBefore(t)
        \/ WritesSector(t)
        \/ Fails(t)
        \/ Returns(t)
        \/ \E to \in Offsets : dev_disk_seek(t, to)

Spec == Init /\ [][Next]_vars

----------------------------------------------------------------------------
\* Whatever the position, the size and the alignment, and wherever the drive
\* fails, dev_disk_read and dev_disk_write move exactly the bytes asked for
\* that the device has, tell how many, and leave the position after them.
AnswersRight == told

\* A step of the drive changes no byte outside a request that is running.
WriteContained ==
    \A b \in Bytes : medium'[b] # medium[b] =>
        \E t \in Threads : LET i == b - (Disk[t].start * SECTOR + io[t].from)
                           IN  /\ io[t].op = "write" /\ i \in 0..(io[t].size - 1)
                               /\ io[t].from + i < Size(t)
                               /\ medium'[b] = <<t, i>>

\* No write ever touches a byte outside the request that is running, although
\* whole sectors are written: the bytes around are put back as they are.
WritesContained == [][WriteContained]_vars
============================================================================
