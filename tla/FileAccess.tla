----------------------------- MODULE FileAccess -----------------------------
(***************************************************************************)
(* The file classes of KM_fileio.  FileWriter: packets are queued buffer   *)
(* by buffer and written by one call (Writev), other data at once (Write); *)
(* the queue holds pointers, and keeps them when the write fails.          *)
(* FileReader, and the functions that read a whole file into a string, a   *)
(* buffer or an object while other programs may change it.                 *)
(*                                                                         *)
(* A buffer is two cells long on disk; a cell is named by the packet and   *)
(* the buffer it belongs to. Of a buffer that was queued by an earlier     *)
(* call the memory has been used for something else: its cells are of no   *)
(* packet (0).                                                             *)
(***************************************************************************)
EXTENDS Naturals, Sequences, FiniteSets, SequencesExt

CONSTANTS
  IOVecMaxEntries,  \* buffers the queue has room for
  MaxPackets,       \* bound: packets and other data written
  MaxOpens,         \* bound: files a writer opens
  MaxSize           \* bound: size of the file that is read; the largest size accepted is one less

FileAssumption ==
  /\ IOVecMaxEntries \in Nat /\ IOVecMaxEntries >= 3
  /\ MaxPackets \in Nat /\ MaxOpens \in Nat /\ MaxSize \in Nat \ {0}

VARIABLES
  disk,     \* the cells of the file that is written
  queue,    \* m_iovec: <<packet, buffer>>
  written,  \* history: what was written since the file was opened, and with what result
  opens,    \* files opened
  source,   \* a file that is read: its size, and how often others changed it
  reading   \* a call that reads it into memory

vars == <<disk, queue, written, opens, source, reading>>

Write_EKLV == {2, 3}     \* buffers of a packet: key and length, value; of an encrypted one the integrity pack too

Cell(packet, buffer, half) == <<packet, buffer, half>>
Number == Len(written) + 1

\* What writev finds in the queue when packet n is written
Gathered(n, q) ==
  [k \in 1 .. 2 * Len(q) |->
     LET i == (k + 1) \div 2
         half == IF k % 2 = 1 THEN 1 ELSE 2
     IN  IF q[i][1] = n THEN Cell(n, q[i][2], half) ELSE Cell(0, i, half)]

Buffers(n, bufs) == [b \in 1 .. bufs |-> <<n, b>>]
Packet(n, bufs) == Gathered(n, Buffers(n, bufs))

OpenWrite ==
  /\ opens < MaxOpens
  /\ disk' = <<>> /\ queue' = <<>> /\ written' = <<>> /\ opens' = opens + 1
  /\ UNCHANGED <<source, reading>>

\* Buffers of the packets that failed since the last good one
Left ==
  IF written = <<>> THEN 0
  ELSE LET w == Last(written)
       IN  IF w.kind \notin Write_EKLV THEN w.left ELSE IF w.result = "OK" THEN 0 ELSE w.left + w.kind

Wrote(kind, result) ==
  written' = Append(written, [kind |-> kind, result |-> result, from |-> Len(disk), to |-> Len(disk'), left |-> Left])

\* Mutant: the queue is not emptied by a write.
AfterFlushKeeps(q) == q

AfterFlush(q) == <<>>

\* Mutant: the test for a full queue comes an entry too late.
RoomOneMore(q) == IOVecMaxEntries + 1 - Len(q)

\* What Writev still takes
Room(q) == IOVecMaxEntries - Len(q)

\* Write_EKLV_Packet: a call of Writev for each buffer, and the one that writes
\* them. When the queue is full the packet is given up with what was queued of it.
WritePacket(bufs) ==
  /\ opens > 0 /\ Number <= MaxPackets
  /\ LET own == Buffers(Number, bufs)
         room == Room(queue)
         q == queue \o own
         cells == Gathered(Number, q)
     IN  \/ /\ bufs > room
            /\ queue' = queue \o SubSeq(own, 1, room)
            /\ disk' = disk
            /\ Wrote(bufs, "FULL")
         \/ /\ bufs <= room
            /\ queue' = AfterFlush(q)
            /\ disk' = disk \o cells
            /\ Wrote(bufs, "OK")
         \/ /\ bufs <= room
            /\ queue' = q
            /\ \E n \in 0 .. Len(cells) - 1 : disk' = disk \o SubSeq(cells, 1, n)
            /\ Wrote(bufs, "FAIL")
  /\ UNCHANGED <<opens, source, reading>>

\* Write: partition packs and the like. The queue has no part in it.
Write ==
  /\ opens > 0 /\ Number <= MaxPackets
  /\ \/ /\ disk' = disk \o Packet(Number, 1)
        /\ Wrote(1, "OK")
     \/ /\ \E n \in {0, 1} : disk' = disk \o SubSeq(Packet(Number, 1), 1, n)
        /\ Wrote(1, "FAIL")
  /\ UNCHANGED <<queue, opens, source, reading>>

-----------------------------------------------------------------------------
(* Reading a file into memory *)

Idle == [pc |-> "idle", into |-> "none", size |-> 0, seen |-> 0, got |-> 0, whole |-> TRUE, result |-> "none"]
Ends(result) == reading' = [reading EXCEPT !.pc = "done", !.result = result]

\* Another program writes to the file.
Change ==
  /\ source.changes = 0
  /\ \E n \in 0 .. MaxSize : source' = [size |-> n, changes |-> 1]
  /\ UNCHANGED <<disk, queue, written, opens, reading>>

\* The size: of the open file for a string, before it is opened otherwise. A
\* missing file has the size 0 there.
TakeSize ==
  /\ reading.pc = "idle"
  /\ \E into \in {"string", "buffer", "object"} :
       reading' = [reading EXCEPT !.pc = "open", !.into = into, !.size = source.size, !.seen = source.changes]
  /\ UNCHANGED <<disk, queue, written, opens, source>>

Open ==
  /\ reading.pc = "open"
  /\ \/ reading.into = "string" /\ reading.size = MaxSize /\ Ends("ALLOC")
     \/ reading.into = "string" /\ reading.size = 0 /\ Ends("OK")
     \/ ~(reading.into = "string" /\ reading.size \in {0, MaxSize}) /\ reading' = [reading EXCEPT !.pc = "read"]
     \/ Ends("FILEOPEN")
  /\ UNCHANGED <<disk, queue, written, opens, source>>

\* What ReadFileIntoBuffer makes of a count that Read returned
BufferResult(count, size) == IF count = size THEN "OK" ELSE "READFAIL"

\* Read may return less than it is asked for. A buffer without room is refused, as
\* is the end of the file at once; a string takes what was read, an object insists
\* (an assertion) on all of it.
Read ==
  /\ reading.pc = "read"
  /\ \/ reading.size = 0 /\ Ends("PTR")
     \/ reading.size > 0 /\ source.size = 0 /\ Ends("ENDOFFILE")
     \/ reading.size > 0 /\ Ends("READFAIL")
     \/ /\ reading.size > 0
        /\ \E n \in 1 .. Min({reading.size, source.size}) :
             reading' =
               [reading EXCEPT !.pc = "done", !.got = n, !.whole = n = Min({reading.size, source.size}),
                               !.result = CASE reading.into = "string" -> "OK"
                                            [] reading.into = "buffer" -> BufferResult(n, reading.size)
                                            [] OTHER -> IF n = reading.size THEN "OK" ELSE "ABORT"]
  /\ UNCHANGED <<disk, queue, written, opens, source>>

Init ==
  /\ disk = <<>> /\ queue = <<>> /\ written = <<>> /\ opens = 0
  /\ source \in [size : 0 .. MaxSize, changes : {0}]
  /\ reading = Idle

\* The two halves share nothing; a behaviour is about one of them.
Writing == reading.pc = "idle" /\ (OpenWrite \/ (\E bufs \in Write_EKLV : WritePacket(bufs)) \/ Write)
Reading == opens = 0 /\ (Change \/ TakeSize \/ Open \/ Read)
Done == UNCHANGED vars /\ (reading.pc = "done" \/ Number > MaxPackets)

Next == Writing \/ Reading \/ Done

Spec == Init /\ [][Next]_vars

-----------------------------------------------------------------------------
FileTypeOK ==
  /\ Len(queue) <= IOVecMaxEntries
  /\ \A i \in DOMAIN written : written[i].result \in {"OK", "FAIL", "FULL"}
  /\ reading.size \in 0 .. MaxSize /\ reading.got \in 0 .. reading.size

\* A packet that is accepted lies whole at the end of what its call wrote, and
\* begins where the call began unless the write before it failed; then the memory
\* of the earlier packets comes first. And a packet is refused for want of room
\* only when the writes that failed since the last good one left too many buffers
\* behind (one failed write never does), after which no packet reaches the file
\* until another is opened.
FlushesHold ==
  \A i \in DOMAIN written :
    LET w == written[i]
        own == Packet(i, w.kind)
    IN  /\ w.result = "OK" =>
             /\ SubSeq(disk, w.to - Len(own) + 1, w.to) = own
             /\ w.kind = 1 \/ w.left = 0 => w.to - w.from = Len(own)
        /\ w.result = "FULL" =>
             /\ w.left + w.kind > IOVecMaxEntries
             /\ \A j \in i .. Len(written) : written[j].kind \in Write_EKLV => written[j].result = "FULL"

\* What is read into a buffer or an object and reported as RESULT_OK is as much
\* as the size that was taken; into a string, all that Read found. When no other
\* program changed the file and Read was not short, it is the whole file, and an
\* object never stops the program.
ReadWhole ==
  reading.pc = "done" =>
    /\ reading.result = "OK" /\ reading.into # "string" => reading.got = reading.size
    /\ reading.whole /\ source.changes = reading.seen =>
         /\ reading.result = "OK" => reading.got = source.size
         /\ reading.result # "ABORT"

=============================================================================
