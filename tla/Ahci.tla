-------------------------------- MODULE Ahci --------------------------------
(***************************************************************************)
(* One port of the AHCI driver (dev/ahci.c), the threads that read, write  *)
(* and flush through it, and the drive behind it.  The threads hold the    *)
(* port's lock from the search for a slot to the end of the command; all   *)
(* slots share one command table; a command may fail, and may still be at  *)
(* work when its thread gives up on it and recovers the port.  The unit of *)
(* memory and disk is a sector; a page of a buffer has PAGE of them.       *)
(***************************************************************************)
EXTENDS Integers, Sequences

CONSTANTS
    Threads,
    Slots,           \* slots of the command list
    PAGE,            \* sectors per page of memory
    MAX_CHUNK,       \* sectors of one command: 256 in ahci_read_sectors
    MAX_PRDT,        \* entries of the table of buffers
    MAX_LEN,         \* sectors of one entry of it
    Buffers,         \* Buffers[t]: page sequences that t's buffer may be mapped to
    Offset,          \* Offset[t]: where the partition that t uses begins
    Sectors,         \* sectors of a partition
    Requests,        \* Requests[t]: operation, sector, count and place in the first page
    MAXREQUESTS,     \* bound: how many requests there are
    NONE

Frames == UNION {{b[i] : i \in DOMAIN b} : b \in UNION {Buffers[t] : t \in Threads}}
Memory == {f * PAGE + i : f \in Frames, i \in 0..(PAGE - 1)}
Disk == UNION {{Offset[t] + s : s \in Sectors} : t \in Threads}

VARIABLES
    lock,      \* the thread that holds the port's lock
    req,       \* req[t]: the request of a thread
    slot,      \* slot[t]: the slot of its command
    table,     \* cmd_tbl: the command that the slots point to
    ci,        \* the slots whose commands were issued and have not completed
    tfes,      \* port interrupt status: task file error
    drive,     \* "ready", "busy" with a command or stopped by an "error"
    memory,
    medium,    \* the sectors of the drive
    made       \* how many requests were made

vars == <<lock, req, slot, table, ci, tfes, drive, memory, medium, made>>

Init ==
    /\ lock = NONE
    /\ req = [t \in Threads |-> NONE]
    /\ slot = [t \in Threads |-> NONE]
    /\ table = NONE
    /\ ci = {}
    /\ tfes = FALSE
    /\ drive = "ready"
    /\ memory = [m \in Memory |-> "none"]
    /\ medium = [s \in Disk |-> "old"]
    /\ made = 0

Smaller(a, b) == IF a < b THEN a ELSE b

-----------------------------------------------------------------------------

\* The frame of memory behind sector i of a buffer.
Behind(r, i) == r.buffer[(r.first + i) \div PAGE + 1] * PAGE + ((r.first + i) % PAGE)

\* Mutant: entries are joined although the memory between them is not theirs.
RECURSIVE FillJoined(_, _, _, _)
FillJoined(r, i, n, prdt) ==
    LET can_do == Smaller(PAGE - ((r.first + i) % PAGE), n)
        k == Len(prdt)
    IN IF n = 0 THEN prdt
       ELSE IF k > 0 /\ prdt[k].len + can_do <= MAX_LEN
            THEN FillJoined(r, i + can_do, n - can_do, [prdt EXCEPT ![k].len = @ + can_do])
       ELSE FillJoined(r, i + can_do, n - can_do, Append(prdt, [at |-> Behind(r, i), len |-> can_do]))
FillsJoined(r, n) == FillJoined(r, r.done, n, <<>>)

\* ahci_fill_prdt: one entry per page, joined to the entry before it when the
\* memory is contiguous; NONE when the table has no room.
RECURSIVE Fill(_, _, _, _)
Fill(r, i, n, prdt) ==
    LET phys == Behind(r, i)
        can_do == Smaller(PAGE - ((r.first + i) % PAGE), n)
        k == Len(prdt)
    IN IF n = 0 THEN prdt
       ELSE IF k = MAX_PRDT THEN NONE
       ELSE IF k > 0 /\ prdt[k].at + prdt[k].len = phys /\ prdt[k].len + can_do <= MAX_LEN
            THEN Fill(r, i + can_do, n - can_do, [prdt EXCEPT ![k].len = @ + can_do])
       ELSE Fill(r, i + can_do, n - can_do, Append(prdt, [at |-> phys, len |-> can_do]))
ahci_fill_prdt(r, n) == Fill(r, r.done, n, <<>>)

\* The memory that a table of buffers stands for, sector by sector.
RECURSIVE Scattered(_)
Scattered(prdt) ==
    IF prdt = <<>> THEN <<>>
    ELSE [i \in 1..Head(prdt).len |-> Head(prdt).at + i - 1] \o Scattered(Tail(prdt))

-----------------------------------------------------------------------------

\* ahci_disk_read_sectors, ahci_disk_write_sectors and ahci_disk_sync: a request
\* for sectors of a partition becomes one for sectors of the drive.
Request(t, op, sector, count, buffer, first) ==
    /\ req[t] = NONE
    /\ made < MAXREQUESTS
    /\ made' = made + 1
    /\ req' = [req EXCEPT ![t] = [op |-> op, lba |-> Offset[t] + sector, count |-> count, done |-> 0,
                                  buffer |-> buffer, first |-> first, state |-> "next"]]
    /\ UNCHANGED <<lock, slot, table, ci, tfes, drive, memory, medium>>

Ends(t, state) == req' = [req EXCEPT ![t].state = state]

\* Up to the issue of the command: a chunk of the request, in the first slot that
\* is free.
Chunk(r) == IF r.op = "flush" THEN 0 ELSE Smaller(r.count - r.done, MAX_CHUNK)

FreeSlots == Slots \ ci

Issues(t) ==
    LET r == req[t]
        n == Chunk(r)
        prdt == ahci_fill_prdt(r, n)
        s == CHOOSE i \in FreeSlots : \A j \in FreeSlots : i <= j
    IN /\ lock = NONE
       /\ r # NONE /\ r.state = "next"
       /\ FreeSlots # {} /\ drive # "busy" /\ prdt # NONE
       /\ lock' = t
       /\ slot' = [slot EXCEPT ![t] = s]
       /\ table' = [op |-> r.op, lba |-> r.lba + r.done, count |-> n, prdt |-> prdt]
       /\ tfes' = FALSE
       /\ ci' = ci \cup {s}
       /\ Ends(t, "issued")
       /\ UNCHANGED <<drive, memory, medium, made>>

Asks(t, op) == req[t] # NONE /\ req[t].op = op

ahci_read_sectors_single(t) == Asks(t, "read") /\ Issues(t)
ahci_write_sectors_single(t) == Asks(t, "write") /\ Issues(t)
ahci_flush_cache(t) == Asks(t, "flush") /\ Issues(t)

\* No slot, a drive that stays busy, or a buffer in too many pieces.
IssueFails(t) ==
    /\ lock = NONE
    /\ req[t] # NONE /\ req[t].state = "next"
    /\ FreeSlots = {} \/ drive = "busy" \/ ahci_fill_prdt(req[t], Chunk(req[t])) = NONE
    /\ Ends(t, "failed")
    /\ UNCHANGED <<lock, slot, table, ci, tfes, drive, memory, medium, made>>

\* The command has left the list: the next chunk, or the end.
Completed(t) ==
    LET r == req[t]
        done == r.done + Chunk(r)
    IN /\ lock = t
       /\ slot[t] \notin ci /\ ~tfes
       /\ lock' = NONE
       /\ req' = [req EXCEPT ![t].done = done, ![t].state = IF done < r.count THEN "next" ELSE "ok"]
       /\ slot' = [slot EXCEPT ![t] = NONE]
       /\ UNCHANGED <<table, ci, tfes, drive, memory, medium, made>>

\* Mutant: the port is only restarted when the drive reported an error.
RecoversErrorsOnly ==
    /\ ci' = IF tfes THEN {} ELSE ci
    /\ tfes' = FALSE
    /\ drive' = IF drive = "error" THEN "ready" ELSE drive

\* ahci_recover_port: the list is stopped, which takes every command off it, and
\* a drive that is still busy is reset; it may stay busy all the same.
ahci_recover_port ==
    /\ ci' = {}
    /\ tfes' = FALSE
    /\ drive' \in IF drive = "busy" THEN {"ready", "busy"} ELSE {"ready"}

\* The drive reported an error, or the thread has waited long enough.
GivesUp(t) ==
    /\ lock = t
    /\ tfes \/ slot[t] \in ci
    /\ ahci_recover_port
    /\ lock' = NONE
    /\ Ends(t, "failed")
    /\ slot' = [slot EXCEPT ![t] = NONE]
    /\ UNCHANGED <<table, memory, medium, made>>

\* The caller has its result and may use the buffer again.
Return(t) ==
    /\ req[t] # NONE /\ req[t].state \in {"ok", "failed"}
    /\ req' = [req EXCEPT ![t] = NONE]
    /\ UNCHANGED <<lock, slot, table, ci, tfes, drive, memory, medium, made>>

-----------------------------------------------------------------------------
(* The drive.                                                               *)

Starts ==
    /\ ci # {} /\ drive = "ready"
    /\ drive' = "busy"
    /\ UNCHANGED <<lock, req, slot, table, ci, tfes, memory, medium, made>>

\* The first n sectors of the command in the table are moved.
Moves(n) ==
    LET at == Scattered(table.prdt)
    IN CASE table.op = "read" ->
              /\ memory' = [m \in Memory |-> IF \E i \in 1..n : at[i] = m
                                THEN medium[table.lba + (CHOOSE i \in 1..n : at[i] = m) - 1] ELSE memory[m]]
              /\ UNCHANGED medium
         [] table.op = "write" ->
              /\ medium' = [s \in Disk |-> IF s \in table.lba..(table.lba + n - 1)
                                THEN memory[at[s - table.lba + 1]] ELSE medium[s]]
              /\ UNCHANGED memory
         [] OTHER -> UNCHANGED <<memory, medium>>

Finishes ==
    /\ drive = "busy" /\ ci # {}
    /\ Moves(table.count)
    /\ \E s \in ci : ci' = ci \ {s}
    /\ drive' = "ready"
    /\ UNCHANGED <<lock, req, slot, table, tfes, made>>

\* A part of the sectors is moved, and the list stops.
Fails ==
    /\ drive = "busy" /\ ci # {}
    /\ \E n \in 0..table.count : Moves(n)
    /\ tfes' = TRUE
    /\ drive' = "error"
    /\ UNCHANGED <<lock, req, slot, table, ci, made>>

\* A thread stores into its buffer while it has no request.
Store(t, buffer) ==
    /\ req[t] = NONE
    /\ memory' = [m \in Memory |-> IF \E i \in DOMAIN buffer : m \div PAGE = buffer[i] THEN "new" ELSE memory[m]]
    /\ UNCHANGED <<lock, req, slot, table, ci, tfes, drive, medium, made>>

Next ==
    \/ \E t \in Threads :
        \/ \E r \in Requests[t], b \in Buffers[t] : Request(t, r[1], r[2], r[3], b, r[4])
        \/ ahci_read_sectors_single(t) \/ ahci_write_sectors_single(t) \/ ahci_flush_cache(t)
        \/ IssueFails(t) \/ Completed(t) \/ GivesUp(t) \/ Return(t)
        \/ \E b \in Buffers[t] : Store(t, b)
    \/ Starts \/ Finishes \/ Fails

Spec == Init /\ [][Next]_vars

-----------------------------------------------------------------------------

\* A request that succeeded moved every sector between the partition and the
\* buffer: through the chunks, and through the pages of a scattered buffer.
RequestsExact ==
    \A t \in Threads : req[t] # NONE /\ req[t].state = "ok" /\ req[t].op # "flush" =>
        \A i \in 0..(req[t].count - 1) : memory[Behind(req[t], i)] = medium[req[t].lba + i]

\* The drive touches memory and sectors of a request only while its thread waits
\* for it: never after the request failed or timed out and its buffer was given
\* back, and never those of another request.
WaitedFor ==
    \A t \in Threads :
         LET r == req[t] IN
         /\ (\E m \in Memory : memory'[m] # memory[m] /\ \E b \in Buffers[t] : \E i \in DOMAIN b : m \div PAGE = b[i])
               => r = NONE \/ (r.state = "issued" /\ r.op = "read")
         /\ (\E s \in Sectors : medium'[Offset[t] + s] # medium[Offset[t] + s])
               => r # NONE /\ r.state = "issued" /\ r.op = "write"

OnlyForWaiting == [][WaitedFor]_<<memory, medium>>
=============================================================================
