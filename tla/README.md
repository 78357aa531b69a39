# asdcplib in TLA+

asdcplib reads and writes the MXF track files of digital cinema: *AS-DCP* files
(SMPTE ST 429, one body partition, a footer index) and *AS-02* files (IMF, many
partitions, an index that is flushed piece by piece).  This project models the
parts of the library in which state is kept over a sequence of calls, the header
metadata they write, the objects threads share, and the programs built on them; it checks
them with TLC on small instances and proves what matters most with TLAPS for
every value of the parameters.

All source paths below are relative to `src/src/`.

## 1. Inventory

### 1.1 Components

| Component | State it keeps | Operations | Made correct by |
|---|---|---|---|
| AS-02 frame-wrapped writer: `h__AS02Writer` (`AS_02_internal.h`), `h__AS02WriterFrame` (`h__02_Writer.cpp`), `TrackFileWriter` (`AS_DCP_internal.h`, `h__Writer.cpp`), and the classes of `AS_02_JP2K/JXS/ISXD/PHDR/ACES.cpp` | `m_State`, `m_FramesWritten`, `m_StreamOffset`, `m_RIP`, `m_IndexWriter` (segments, current segment), `m_PartitionSpace`, the file position | `OpenWrite`, `WriteFrame`, `AddDmsGenericPartUtf8Text`, `WriteAncillaryResource` (ACES), `Finalize` | the three ways in which positions are kept agree; the index locates every frame; every partition is in the RIP and linked to its predecessor; errors are not lost |
| AS-02 reader: `h__AS02Reader`, `AS02IndexReader` (`h__02_Reader.cpp`) | RIP, body partitions, index segments with the offsets they were read with, `m_Duration` | `OpenMXFRead`, `Lookup`, `GetDuration` | frame *n* is found where it was written; the duration is the number of frames |
| Track-file readers: `TrackFileReader` (`AS_DCP_internal.h`, `h__Reader.cpp`) and the reader classes | `m_LastPosition`, the file position, the stereoscopic phase | `ReadFrame`, `ReadGenericStreamPartitionPayload`, `ReadAncillaryResource`, `CalcFrameBufferSize`, `Close` | the frame asked for is the frame delivered, in whatever order frames are asked for |
| KLV packets and partition packs: `KLV.cpp`, `MXF.cpp` (`Partition`, `RIP`) | – | `WriteKLToFile`, `Partition::WriteToFile`, `InitFromFile` | a pack that is on disk can be told from one that is not |
| AS-DCP writer: `h__Writer.cpp`, `MXF.cpp` (`OPAtomIndexFooter`, `OP1aHeader`) | as AS-02, with at most one body partition and the whole index in `m_FooterPart` | `OpenWrite` with `WriteASDCPHeader` and `CreateBodyPart`, `WriteEKLVPacket`, `Finalize` with `WriteASDCPFooter` | the counted position is the actual one; the footer index locates every frame; a `Finalize` that fails or is cut off leaves all frames readable or none |
| AS-DCP reader: `h__Reader.cpp`, `MXF.cpp` | RIP, header, footer index | `OpenMXFRead`, `LocateFrame`, `OPAtomIndexFooter::Lookup` | frame *n* is found where it was written and checked with the sequence number it was hashed with |
| AS-DCP essence classes: `AS_DCP_JP2K/JXS/MPEG2/PCM/DCData/ATMOS/TimedText.cpp` | `m_NextPhase` of stereoscopic JPEG 2000, `m_GOPOffset` of MPEG2 | `WriteFrame`, `ReadFrame`, `FindFrameGOPStart`, … | left and right alternate; a key frame offset leads to a key frame |
| AS-02 clip-wrapped PCM and IAB: `AS_02_PCM.cpp`, `AS_02_IAB.cpp`, `h__AS02WriterClip` | clip start, CBR index or one VBR index, `Reset` on errors | `OpenWrite`, `WriteFrame` with `StartClip`, `Finalize` with `FinalizeClip` | the clip's length is patched to what was written; the bytes come back |
| Readers of packet pairs: stereoscopic JPEG 2000, PHDR | `m_StereoFrameReady`, `m_LastPosition` | `ReadFrame` of an eye or of both, of a picture with its metadata | the eye of the frame that is asked for is delivered |
| Timed text | whether the document was written, SID counter | `WriteTimedTextResource`, `WriteAncillaryResource` | each resource is found under its identifier |
| File access: `KM_fileio.cpp` | file handle, the iovec list of 32 entries; the tree of directories | `Seek`, `Read`, `Write`, `Writev`; `ReadFileInto…`; `DeletePath`, `DeleteDirectoryIfEmpty`, `CreateDirectoriesInPath`, `PathResolveLinks` | a failed write does not disturb the next for ever; a function on a tree touches what it is given |
| Header metadata, primer, packet list: `Metadata.cpp`, `MXF.cpp`, `h__Writer.cpp` | local tag map, list and map of packets, the list of durations to update | `InitHeader`, `AddSourceClip`, `AddDmsCrypt`, `AddDmsTrack…`, `InsertTag`, `AddPacket`, `WriteToFile`, `InitFromFile` | every set and member comes back; tags and track numbers are unique; references resolve; durations agree |
| Dictionaries: `MDD.cpp`, `Dict.cpp` | lazily built tables | `Init`, `FindUL` | built once |
| Library-wide state: object factory, default log, random numbers (`KM_prng.cpp`) | lazily created globals behind double-checked locks; generator key and counter | `default_md_object_init`, `CreateObject`, `FillRandom` | built once, whichever thread is first; a block is not given twice |
| Encryption and integrity: `AS_DCP_AES.cpp`, `KM_aes.cpp`, `KM_sha1.cpp` | cipher and hash state per packet | `EncryptFrameBuffer`, `IntegrityPack::CalcValues`, `TestValues` | the sequence number a writer uses is the one a reader expects |
| Essence parsers (MPEG2, JPEG 2000, JPEG XS, ACES, PHDR, DCData) | position in the stream, parser state | `OpenRead`, `ReadFrame`, `Reset` | a picture is delimited whatever the buffer boundary |
| PCM sources (WAV, AIFF, channel files, sync channel) | read position per channel | `ReadFrame`, `PutSample` | channels stay aligned |
| Utilities (`KM_util`, `KM_memio`, `KM_tai`, `KM_xml`, `S12MTimecode.h`) | – | encodings and arithmetic | pure functions |
| Command-line tools: `asdcp-wrap/unwrap/test/info/util`, `as-02-wrap/unwrap/info`, `as-02-wrap-jxs/-iab`, `phdr-wrap/unwrap`, `klvwalk`, `klvsplit`, `wavesplit`, … | options, loop counters, results | the constructor of `CommandOptions`; one function per kind of essence | a command line that `usage()` shows is accepted; exit code 0 means a complete result |

### 1.2 How they interact

A caller owns a writer or a reader object and calls it from one thread; nothing
in the library runs by itself.  `MXFWriter` (the façade) calls the
`h__Writer` of its class, which calls `TrackFileWriter`; that calls
`Write_EKLV_Packet`, a free function that is handed references to the file, to
`m_StreamOffset` and to `m_FramesWritten` and changes them, and the index writer, which is
told where the packet started.  At partition boundaries and at `Finalize` the writer
calls `AS02IndexWriterVBR::WriteToFile` and `Partition::WriteToFile`, and records in
`m_RIP` where they went.  The writer and the reader interact only through
the file: RIP, partition packs, index segments, header metadata.  The programs copy frames from a
parser to a writer or from a reader to files, one call at a time.  Objects in different threads
share the dictionaries, the header parts that readers copy, the object factory, the random number
generator and the log.

### 1.3 What is hard

* **Positions kept three times.**  `m_StreamOffset` adds packet lengths,
  `BodyOffset` of each body partition is a copy of it, and the operating system
  keeps the file position, which also counts packs and indexes.  The
  reader recombines all three.
* **The middle of a failure.**  Error results are overwritten, shadowed by
  an inner variable, or not tested; `WriteKLToFile` tests `write_count` only with an
  `assert`.  After a failure the caller may go on, and the file may go wrong much later.
* **Finalize** rewrites the header, then every pack in the file.
* **`m_LastPosition`** decides whether `ReadEKLVFrame` seeks; each other call
  that moves the file position treats it in its own way.
* **State machines with holes**: `WriteFrame` after `Finalize`; a generic stream
  between two frames.
* **Threads** matter only for the lazily created globals and the random number generator.
* **Lists kept in step by hand.**  A metadata class repeats its members in six methods, each program
  its options in `usage()` and in a `switch`, each of some forty essence functions its loop, its end
  condition and its error handling.
* **Directories** are read, resolved and deleted a system call at a time, while other programs may change them.
* There is no network, no timeout, and no recovery after a crash: a file
  that was not finalized is not repaired.

The hazards, each at its line, are listed in `PROJECT.json`.

## 2. Plan

Modules, most important first; those marked ✓ exist.

1. ✓ `AS02Writer`: the frame-wrapped AS-02 writer with faults.
2. ✓ `AS02Reader`: what the AS-02 reader makes of a file.
3. ✓ `TrackFile`, `AS02TrackFile`: the abstract track file, the composition of 1 and
   2, and the refinement.
4. ✓ `FrameReader`: `m_LastPosition`.
5. ✓ `AS02TrackFile_proofs`, which holds the proofs about 1 and 3, and `FrameReader_proofs`.
6. ✓ `ASDCPWriter`, `ASDCPReader`: AS-DCP files with their footer index; `ASDCPTrackFile`
   composes them and refines `TrackFile` again.  `MXFFile` holds what the two formats share.
7. ✓ `MXFFile_proofs`, `ASDCPTrackFile_proofs`.
8. ✓ `MetadataMembers`, `MetadataSets`, `LocalTags`, `HeaderMetadata`: the header, its primer and its sets.
9. ✓ `PairReader`: the stereoscopic reader and the two packets of a PHDR frame.
10. ✓ `ClipFile`, `ClipFile_proofs`: clip-wrapped PCM and IAB.
11. ✓ `GlobalObjects`, `GlobalObjects_proofs`: double-checked initialisation and the generator, with interleaved threads.
12. ✓ `FileAccess`, `DirectoryTree`, `DirectoryTree_proofs`: the buffer list of `FileWriter` at its limit, whole-file reads, and the
    functions on directory trees.
13. ✓ `WrapTools`, `UnwrapTools`, `CommandTables`, `CommandLines`: the programs.  `Components` and `Components_proofs`
    compose 9 to 13.
14. ✓ ACES `WriteAncillaryResource` in `AS02Writer`, with the damage done to frames
    behind a generic stream in `EarlierFramesSurvive`.  Not yet: the generic streams of AS-02 timed text.
15. `MPEG2Parser` and `BER`: algorithms against a reference.
16. Proofs: those of the two track files, of `FrameReader` and of all the parts of `Components` are there.  Left: the properties of
    `HeaderMetadata` (see the end of section 5).

## 3. What is modelled

### 3.1 `AS02Writer`

One file from `OpenWrite` to `Finalize`.  The bytes of the file are abstracted to the
records a reader can find at an offset; lengths are kept, contents are not.

| In the model | In the code |
|---|---|
| `state` | `m_State`; `BEGIN` also when no writer object exists; `ABORTED` when an `assert` stopped the program (INIT is passed through within `OpenWrite`) |
| `mxf.pos`, `mxf.queued` | the file position; the bytes on the iovec list left by a failed `writev` |
| `mxf.parts` | the partition packs on disk: their offset, `BodySID`, `BodyOffset`, `PreviousPartition`, `FooterPartition`, the index segments that follow, and the sequence number a generic-stream payload was hashed with |
| `mxf.essence` | where each indexed frame was written (known to the model only) |
| `mxf.rip`, `mxf.disk` | `m_RIP.PairArray` in memory and on disk |
| `mxf.segs` | the segments of `m_IndexWriter`, the current one last |
| `mxf.duration` | `ContainerDuration` as rewritten by `Finalize` |
| `framesWritten`, `streamOffset` | `m_FramesWritten`, `m_StreamOffset` |
| `kind` | which class: whether the frame counter grows when a packet failed, whether a frame is two packets, who writes generic streams |

Each action is one whole call and takes a fault `f`: which write of the call failed, if any.

| Action | Call |
|---|---|
| `Open` | `OpenWrite` with `SetSourceStream` and `WriteAS02Header` |
| `WriteFrame` | `WriteFrame`: `WriteEKLVPacket`, the index entry, and at a partition boundary the index flush and the next body partition |
| `WriteFrameAfterFinal`, `AssertIndexEntries` | the same call on a finalized file, and where it meets its assertion |
| `WriteEmptyFrame`, `RefusedCall` | refused calls |
| `AddDms`, `AddDmsAfterFinal` | `AddDmsGenericPartUtf8Text` |
| `WriteAncillaryResource` | the ACES writer's |
| `Finalize` | `Finalize` and `WriteAS02Footer` with the relinking of all packs; for PHDR also the master metadata |
| `AbortedWrite` | the assertions on `write_count` after a failed write |

A pack write can fail in two ways, because `WriteKLToFile` ignores the result of `Write`
and then asserts on a `write_count` that nobody set: the value left there decides
whether the program stops (`AbortedWrite`) or the pack is lost without an error
(*torn*).  The JPEG XS writer behaves as the JPEG 2000 writer does, and both as an ACES
writer that is given no ancillary resource.

### 3.2 `AS02Reader`

Operators over a file: which files `OpenMXFRead` opens, the table that
`AS02IndexReader` assembles by pairing body and index partitions, `Lookup`
and `GetDuration`, and the place where a generic stream is looked for.

### 3.3 `MXFFile`

What both formats use: partition packs and the two ways in which writing one fails, the RIP, index
segments with `PushIndexEntry` (the AS-02 and the AS-DCP index writers have the same one), and
the search for a generic stream in the RIP.

### 3.4 `TrackFile` and `AS02TrackFile`

`TrackFile` states the promise: frames are accepted in order, closing makes exactly these
readable, and a closed file never changes.  `AS02TrackFile` extends the writer, looks at the
file through the reader and states the properties.  The refinement mapping takes `accepted` from
the frames the writer indexed and `readable` from `Lookup` for every number below the duration.

### 3.5 `FrameReader`

One open file that does not change, given by constants; the file position,
`m_LastPosition`, and every call that moves either.  A read of a packet
may be refused after its key and length, end early, or be rejected after it
was read; a seek may fail.

| Action | Call |
|---|---|
| `OpenRead`, `Close`, `RefusedCall` | the façade |
| `ReadPacket`, `ReadStray`, `ReadHeaderFails`, `ReadSeekFails` | the outcomes of `ReadEKLVFrame` with `Read_EKLV_Packet` |
| `ReadGenericStream` | `ReadGenericStreamPartitionPayload` (ISXD) |
| `ReadAncillaryResource` | the ACES reader's |
| `MeasureFirst`, `MeasureNext` | `CalcFrameBufferSize` of the AS-02 and of the AS-DCP JPEG XS reader |

### 3.6 `ASDCPWriter`

One AS-DCP file, of one of the classes in `Kinds`, under one of the two label sets (`smpte`: with
`LS_MXF_INTEROP` there is no body partition).  The classes differ in the record `kind`:

| Field | Meaning | Classes |
|---|---|---|
| `eyes` | packets in a frame | 2 for stereoscopic JPEG 2000 |
| `vbr` | frames are indexed one by one; otherwise the index is `BytesPerEditUnit` | all but PCM |
| `counts` | `m_FramesWritten` grows even if the packet was refused | JPEG 2000, JPEG XS |
| `gop` | entries carry `KeyFrameOffset` | MPEG2 |
| `text` | one document, then resources in generic-stream partitions | timed text |

The state is that of `AS02Writer`, with `m_GOPOffset` and `m_NextPhase`; `mxf.packets` are the packets written
in full, with the sequence number each was hashed with.  ATMOS writes as DC data does.

| Action | Call |
|---|---|
| `Open`, `OpenRefused` | `OpenWrite`; the stereoscopic one keeps a writer object for an edit rate it refuses (`UNOPENED`) |
| `WriteFrame`, `WriteFrameClosed` | `WriteFrame` of one packet, on an open file, and after `Finalize` or without a file, where nothing tests `m_State` |
| `WriteText`, `WriteAncillary` | `WriteTimedTextResource`, `WriteAncillaryResource` |
| `Finalize` | `Finalize` with `WriteASDCPFooter`: footer pack and index, RIP, header again, each of which may fail |
| `FinalizeStops` | the program ends inside `Finalize`, by an assertion of a failed write or from outside |
| `FinalizeRefused`, `FinalizeAsserts` | `Finalize` in a wrong state; the stereoscopic one halves its counter, or stops at its assertion, first |
| `AbortedWrite`, `RefusedCall` | as in `AS02Writer` |

Every failure of `SetSourceStream` before the body partition is one fault, `"header"`.  `WriteASDCPFooter` has a fault for each thing
its writes can leave: the footer pack lost or torn, the RIP lost or torn, and of the second header write, which goes over the first
header in pieces (`OP1aHeader::WriteToFile`),

| Fault | What is on disk |
|---|---|
| `rewriteKept` | the first header: the seek failed, or the sets did not fit, before anything was written; the RIP is there |
| `rewriteLost`, `rewriteTorn` | a header that does not resolve; with `rewriteTorn` nobody notices and the call succeeds |
| `rewriteHalf` | the new header pack, which names the footer, with the metadata of the first write |
| `rewriteOut` | the whole new header but its fill, with an error |

The program may end at each of these points too, and after the footer or before the RIP (`FinalizeStops`).

### 3.7 `ASDCPReader` and `ASDCPTrackFile`

`ASDCPReader` has the operators over a file: which files open, where essence is taken to begin, `Lookup` in a
VBR or CBR footer index, where each eye of a frame is read and with which sequence number its HMAC is
checked, `FindFrameGOPStart`.  A RIP that cannot be read is treated as an empty one, since
`OpenMXFRead` goes on without it.  `ASDCPTrackFile` states the properties and the refinement
of `TrackFile`, in which a place is a pair of position and sequence number for each eye.

### 3.8 `MetadataMembers`, `MetadataSets`, `LocalTags`

Three tables and the operators over them.  `MetadataMembers` is what the headers declare: for each class of set
the members it always has and those that are `optional_property<>`.  `MetadataSets` is what the implementation
does: the parent class, the members in the order in which they are written and read, which are skipped when
empty, and whose presence the reader forgets to record.  `LocalTags` has the tag of each
member from the dictionary's table, and the primer: `InsertTag` with its counter of one byte,
`ClearTagList`, `InitFromBuffer`, `FindTL`, `WriteToTLVSet` and `InitFromTLVSet` of any class.  The tables
come from different files of the source, so that a member which is declared in one and missing in another shows.

### 3.9 `HeaderMetadata`

| In the model | In the code |
|---|---|
| `conf` | the file that is written: the class of writer, encryption, integrity packs, the classes and optional members of the descriptor and a sub-descriptor |
| `hdr` | `m_HeaderPart`: the packet list, its map by InstanceUID, `m_DurationUpdateList` |
| `primer` | the tags given out, the batch to be written, `m_LocalTag` |
| `disk` | the header partition in the file: the batch and the sets as pairs of tag and value |
| `back` | a reader object: packet list, map, primer batch, `m_Info` |

`OpenWrite` builds all objects and writes them; `WriteFrame` counts; `AddDmsText` adds a segment and,
the first time, a track; `Finalize` sets the durations and writes the header again over the first;
`OpenRead` and `CloseRead` may come at any time, also of a file that is not finished.

### 3.10 `ClipFile`

One clip-wrapped file, byte by byte: each cell of the file holds the key, the length, or a byte of a given
buffer.  The PCM writer starts the clip at the first frame and has a CBR index; the IAB writer starts it when it is opened,
has a VBR index, and deletes its writer object when a write fails.  A fault can cut the write of a buffer, or of the key, short at any
byte.  `FinalizePCM` and `FinalizeIAB` include `FinalizeClip` with the length patched into place and `WriteAS02Footer`; each seek and
write of them has a fault of its own (`length`, `seek`, `seekBack`, `footer`).  `AddDms` flushes the index and adds a text, and drops the results of
both: a flush that fails (`LoseIndex`) has deleted the index segments, and leaves an entry in the RIP without a pack, at which
the relinking of `WriteAS02Footer` stops with an error unless a later pack happens to stand there.  A payload that could not be
written stays on the iovec list and goes out with the next text (`payloadFlush`).  The
readers are operators: the PCM reader computes positions, the IAB reader asks the index.

### 3.11 `PairReader`

As `FrameReader`, for files whose edit units hold two packets: the seek, the skip over a left picture by its
length, `m_StereoFrameReady`, and the faults of each read.  `Reopen` opens the next file.

### 3.12 `GlobalObjects`

A stack of calls for each thread, a step of `default_md_object_init`, `CreateObject` or `DefaultSMPTEDict` at a time: test, lock, test again,
build, publish, unlock.  The flag is an ordinary `bool`, so the stores of the object and of the flag may be seen in
either order.  The generator is modelled with the unlocked test of its first use, the lock of `fill_rand`, and reseeding in two locked steps; a
block is named by generator, key and counter.

### 3.13 `FileAccess`

The iovec list as the buffers queued, and what `writev` makes of it: of a buffer left by an earlier call the memory
has been used for something else.  A second half has `ReadFileIntoString`, `ReadFileIntoBuffer` and `ReadFileIntoObject`
with another program changing the file between taking the size and reading.

### 3.14 `DirectoryTree`

A tree of files, directories and links, and the kernel's walk along a path.  `DeletePath` with its
recursion, `DeleteDirectoryIfEmpty`, `CreateDirectoriesInPath` and `PathResolveLinks` take a system call at a
time; meanwhile calls are refused and another program adds entries.  The walk (`Walks`) is a function over the links that
may still be followed, the place reached and the names that are left; a path that needs more than `MaxLinks` links, or
goes through what is no directory, leads `Nowhere`.

### 3.15 `WrapTools` and `UnwrapTools`

The functions `write_…_file` and `read_…_file` of all programs share one course, which the actions
follow; a row of a table says in what a function departs from it (eyes, what becomes of a short last frame,
which options there are, where the length is taken from, what comes after the frames).  Parsers, writers and readers are seen
from their calls, each of which may fail.

### 3.16 `CommandTables` and `CommandLines`

For each of 21 programs two tables: what `usage()` shows and what the constructor of `CommandOptions`
accepts, with the members that several options write and the tests at its end and at the start of `main`.
`CommandLines` reads a command line an argument at a time.

### 3.17 `Components`

The modules 3.10 to 3.16 share no state with each other, and each is small.  They are checked in one run and proved about in one module: a behaviour
is one of one of them (`part` says which), and the variables `s1` to `s6` are those of its module in the
order of declaration (`CommandLines` has its own).  `Next` and `Spec` are those of the components,
with their fairness; nothing is composed or left out by this.

### 3.18 Not modelled

* The contents of packets; of metadata sets, values are opaque numbers.  Encryption, except
  that a packet can be refused for want of a context, and the sequence number of an HMAC.
* The flags and the temporal offset of an index entry; of an MPEG2 entry only `KeyFrameOffset` is modelled.
* In the track-file writers, the memory of the buffers a failed `writev` leaves behind (they are modelled by their lengths)
  and the limit of the iovec list, which two faults do not reach; both are in `FileAccess`.
* The generic streams of AS-02 timed text: planned (14).  The CBR branch of `Lookup`, and files of other
  applications with essence in the header partition.
* A writer object used for a second file, and a reader object but for `PairReader` (and `HeaderMetadata` with `Reuse`).
* Essence parsers and PCM sources: they read one stream from front to back, and what matters of them to the rest, the frames, their end and
  their errors, is in `WrapTools`; their own work is the syntax of bit streams, byte by byte.
* What the information programs, `klvwalk`, `klvsplit` and the digests of `asdcp-util` print, and what the file generators put in
  their files: they keep no state but the library's.
* `FindInPath`, path patterns, `DirScannerEx`, `FreeSpaceForPath` and the functions on path strings; the log's sinks; the labels of
  the dictionary; utilities.  All are pure functions, or only report.

## 4. What the runs show

| Run | Question | Answer |
|---|---|---|
| `as02_clean` | Do the positions agree, are all partitions linked, are streams and frames found, in any fault-free history? | Yes: `WritePosition`, `IndexLocatesFrames`, `PartitionChain`, `StreamsFound`, `ReadsBack` |
| `as02_faults` | What does a successful `Finalize` still promise when earlier writes failed? | The RIP resolves and the duration is the frame count (`FinalizedResolves`); the frames accepted before the first fault are read back, but for those a generic-stream partition displaces (`EarlierFramesSurvive`, `Displaced`); harmless faults change nothing (`ReadsBack`) |
| `as02_lost_error` | Does `WriteFrame` report every error, as `AS_02.h` says? | No: at a partition boundary the error is overwritten |
| `as02_frame_after_final` | Is a frame after `Finalize` refused, as `AS_02.h` says? | No: at a partition boundary an assertion stops the program |
| `as02_stream_sequence` | Is the reader's HMAC sequence number of a generic stream the writer's? | No: they count different things |
| `reader_steady` | Is the frame asked for the frame delivered? | Yes until a read ended early, a seek failed or a call moved the file (`FrameFound`); a wrong frame is never delivered as long as no seek has failed and nothing was read that is no packet (`NeverWrongFrame`) |
| `reader_measured` | Does a frame in range always read, as `AS_DCP_JXS.h` says? | No: not after `CalcFrameBufferSize` |
| `asdcp_file` | For AS-DCP files of every class, with any one fault: do the positions agree, does the index lead to the frames, do the eyes stay in step, and what does a reader find after a `Finalize` that succeeded or failed? | The positions and the index agree (`WritePosition`, `IndexLocatesFrames`), the eyes stay paired (`EyesPaired`), a `Finalize` that fails, or is cut off by the end of the program, leaves all or nothing (`AllOrNothing`), the frames before the first fault survive (`EarlierFramesSurvive`), resources are found and their sequence numbers agree (`ResourcesFound`), `KeyFrameOffset` leads to the start of the group of pictures (`KeyOffsetsLead`), and a file without harm is read back (`ReadsBack`) |
| `header` | For every kind of writer, every class of set as descriptor or sub-descriptor, with none, one or all of its optional members, with encryption, integrity packs and text tracks added meanwhile: is the header that is read the one that was written, and is it consistent? | Yes: every member comes back (`RoundTrip`), no two items share a tag (`TagsUnique`), every duration is the frame count and none is missing (`DurationsAgree`), track numbers differ (`TrackIDsDistinct`), each object is referred to once and by the right kind (`ReferencesResolve`), the material package plays the essence track (`EssenceLinked`), and a reader's `WriterInfo` is that of the file it opened (`InfoOfOpenFile`) |
| `components` | Each of the components of 3.10 to 3.16 by itself | Clips give back what was accepted before the first fault (`ClipReadsBack`); the right eye and its frame are delivered (`PairsMatch`); globals are made once and whole blocks of random numbers differ under every interleaving (`MadeOnce`, `WholeBlocksDiffer`); accepted packets are in the file (`FilesHold`); deletions stay where they belong (`TreesHold`); exit code 0 means a complete file or extract, but for `-f` and `-x` (`WrapComplete`, `UnwrapComplete`); documented command lines are accepted, but for options the `switch` lacks (`CommandsHold`); and every program run and every call for a global object ends (`RunsEnd`) |
| `unwrap_start` | Does an extracting program give what `-f` and `-d` ask for, as `usage()` says? | No: with `-f` and no `-d` the last frame wraps around 2^32 and nothing is extracted, with exit code 0 |
| `asdcp_gop_start` | Does `FindFrameGOPStart` find the start of the group of pictures, as `AS_DCP.h` says? | No: it subtracts an offset that is stored negative, and leads behind the frame |

### What the properties except

Where the code does not keep a promise in a narrow case, the property states the promise without it, and says so
at its definition:

* `EarlierFramesSurvive` (AS-02): after an ancillary resource, the frames up to the next body partition; after a text, all
  later frames, because its flush leaves more index than body partitions and the reader pairs them in order.  Both
  exceptions are needed: without them, or with the first for both kinds, TLC finds a history.
* `RoundTrip`: four members of which the reader does not record that they were present (`Unrecovered`).
* `TrackIDsDistinct`: an encrypted PHDR file has two tracks 3.
* `InfoOfOpenFile`: a reader object's first file (`Reuse = FALSE`); with `Reuse = TRUE` it fails, because
  packet list, primer and `m_Info` are not emptied.
* `ClipReadsBack`: the IAB frames of a clip whose first index partition was lost in the flush of a text, since
  `AddDmsGenericPartUtf8Text` drops that error and the entries are gone; a PCM clip whose key was cut short; a clip whose footer met a fault
  while `Finalize` returned success.  Of an IAB clip with a text only the frames before the text are promised.
* `AllOrNothing`: a RIP torn by a write nobody notices (`ripTorn`); and a PCM file with the new header pack and the old metadata
  (`rewriteHalf`), where the reader takes the number of frames the descriptor had at first, each at its place.
* `PairsMatch`: after a failed seek, after reading where no packet is, and in a second file opened with
  `m_StereoFrameReady` still set.
* `MadeOnce`: a thread that sees the flag without the lock may find the object incomplete.
* `TreesHold`: links to directories below a path are followed by `DeletePath`, and the root cannot be removed; `PathResolveLinks` may not end when a link
  leads to itself (its termination is not claimed).
* `WrapComplete`: of several ISXD texts only the last error counts.  `-f <start-frame>`, which `usage()` of `asdcp-wrap` and `asdcp-test`
  shows, is stored and read by no writing function: the file of such a run begins with the first frame, and the property says of it only that it is
  finalized, with its resources.  An incomplete last frame may be there or not: the comment at `asdcp-wrap.cpp:247` says that `-x` writes it, the code drops it with
  `-x` and writes it without; the property takes neither side.
* `UnwrapComplete`: command lines with `-f` and no `-d` (the finding `unwrap_start`).
* `CommandsHold`: the options that `usage()` shows, in its synopsis or its list, and the `switch` has not (`Left`): `-R` of `asdcp-unwrap`; `-R` and `-k`
  of `as-02-unwrap`; `-R`, `-e` and `-k` of `phdr-unwrap`; `-C` of `phdr-wrap`; `-v` of `wavesplit`.  Members that are not initialised, `picture_rate` of
  `asdcp-wrap` and `verbose_flag` of `wavesplit`, are not covered either.

### Bounds

* `MaxCalls` (5 or 6 frames), `MaxStreams` (1, in the fault-free run 2, so that a second generic-stream partition has a SID of its own), `MaxFaults` (0, 1 or 2) bound the history.
  With `PartitionSpace = 2` six frames make two partitions of full length, after the longer
  first one, and a part of another; every kind of partition follows every other.
* `EntriesPerSegment = 2` stands for 5000.  The first partition holds three frames, so that
  segments fill up within a partition and exactly at its end.
* `FrameLens` has two values in the fault-free run, so that an offset computed from
  a wrong frame shows.  The lengths of packs, indexes and streams differ from each
  other or are chosen so that confusing two of them shows in a sum.
* `PackLost = 1` is less than a pack.  `EarlierFramesSurvive` says explicitly that it needs
  a failed write to leave some byte (`PackLost > 0`): otherwise the next pack
  stands where the lost one should, and nothing notices.
* `Kinds` is ACES, ISXD and PHDR; JP2K and JXS have the same fields as ACES but for the name and the
  ancillary resources, so their behaviours are among those of ACES.
* `asdcp_file` has five packets: two stereoscopic pairs and an eye, or, with `EntriesPerSegment = 2`, a
  third segment.  Two resources show that the second starts where the first ends.
  `KeyModulus = 4` stands for 256, so that groups of pictures outgrow the reach of `KeyFrameOffset` (-2).
  One fault at every place of every history; the run has also been made with two.  JXS is left out of
  `MC_AllKinds`: it has the fields of JP2K but for the name.
* In `FrameReader` three frames of equal length are adjacent, followed by a
  generic stream whose payload is as long as a frame, and a frame behind
  it: equal lengths let wrong positions fall on packets, which is the worst case.

* `header`: two frames tell a count from its neighbours; two texts are one on a new track and one on the track found by name; 370 files, since each
  optional member is tried alone, and each descriptor class with all its members together.  The counter of invented tags starts at 255 and goes round only
  with more than 255 of them, which no header of the library comes near.
* `components`, `WrapTools`: three frames, so that `-d` can be less, equal and more, with eyes of unequal length; two resources.  `UnwrapTools`: two frames,
  two resources, numbers modulo 8 for 2^32.
* `CommandLines`: two options and up to three names; what one option does to another shows with two.
* `ClipFile`: samples of 2, reader frames of 4, buffers of 2, 3 and 6 bytes (a sample, a sample and a half, a frame and a half), three
  buffers, two texts, two faults, and a second file after the first.
* `GlobalObjects`: two threads with two calls each, and two objects that need a third.
* `FileAccess`: 4 entries for 32, against packets of two or three buffers, so that one failed write leaves room and two do not; three packets; a second file.
* `DirectoryTree`: all trees of two names and two levels with links to each name of the root, one interference.
* `PairReader`: three edit units, packets of equal and unequal lengths, one unit behind a gap, four calls.

`CHECK_DEADLOCK FALSE` in the track-file and reader runs: the histories end at their bounds, and the program may stop at an assertion.  The runs
`header`, `components` and `unwrap_start` check deadlock: where a history is over, its module says so with an action of its own.

### Fairness

The library is passive: nothing obliges a caller to make the next call, and each call ends in one step.  So the track-file
modules assume no fairness, and their properties, the refinements included, are safety properties.

Two things do run by themselves.  A program that has been started goes on until it exits: `WrapTools` and `UnwrapTools` have
weak fairness of `Proceed`, the disjunction of their steps, and not of any one outcome, so that which calls fail is left open.  And the operating system
schedules every thread that is not blocked: `GlobalObjects` has weak fairness of each thread's `Proceed`.  No fairness of the mutexes is assumed: a lock
that is taken by others again and again could keep a thread waiting, but no thread takes a lock again once its flag is set.  Nothing makes a
thread begin a call.  Under these, `RunsEnd` says that each program run ends and each call comes back.

## 5. What is proved

The proofs need only the named assumptions of the modules: lengths are positive, the partition
space and the segment size are positive, and (for the reader) frames and partitions do not overlap.

* `AS02TrackFile_proofs!TypeCorrect`, of `AS02Writer`.  The inductive invariant adds `HasRip`: once a file
  is open its RIP is not empty, since `PutStream` and `Footer` read its last entry.
  One lemma per helper and per action.
* `AS02TrackFile_proofs!WritePositionHolds`, `IndexLocatesFramesHolds`.  Neither is
  inductive.  `WritePosition` speaks of the last body partition through its offset, so one has to know that
  a new pack cannot share its offset with an old one: `Behind` says that all packs lie before the
  file position.  `IndexLocatesFrames` needs `Numbered`: the segments end at the last frame
  written, so that the entry pushed next gets the next number.  Both need that the iovec
  list is empty.  The conjunction, `Sound`, is preserved by each action as long as no fault has
  been met; it says nothing about frames behind a generic-stream partition.
* `MXFFile_proofs!PushIndexEntryNumbers` is the lemma both index proofs rest on: whether a segment is begun, continued
  or followed by another, the new entry gets the next number and every other entry stays what it was.
* `ASDCPTrackFile_proofs!TypeCorrect`.  The inductive invariant adds `HeaderWritten` (`Finalize` reads the last RIP entry
  and rewrites the header pack) and `NoStreamBefore`.  That an `i8_t` holds every `KeyFrameOffset` is `Int8Type`.
* `ASDCPTrackFile_proofs!EyesPairedHolds`.  `EyesPaired` alone is not inductive: a refused `Finalize` halves `m_FramesWritten`.
  `EyesInv` adds that on an open file this can only happen before the first packet, when the counter is 0.
* `ASDCPTrackFile_proofs!WritePositionHolds`.  `PositionInv` adds that without harm the iovec list is empty between calls;
  harmless are a refused packet and an `OpenWrite` that failed and is repeated.
* `ASDCPTrackFile_proofs!IndexLocatesFramesHolds`.  `IndexInv` says that the entries number exactly the frames begun,
  (packets + phase - 1) / eyes of them, so that the next entry gets the number of the next frame, and none is pushed for a right
  eye; `NoStreamAhead` that no resource precedes an indexed packet.  It is proved for any number of frames and segments, and for one and two eyes.
* `AS02TrackFile_proofs`: what a reader finds in a finalized file, from the writer's side.  The properties speak of the file that
  `Finalize` leaves, so the inductive invariant is about the file that is still being written.  It is `TypeInv`, `Core` and `Indexing`.
  `Core` says where packs are: `Layout`, that the header and the first body partition come first, that every
  pack is listed in the RIP, has its place to itself and lies before the file position, and that SIDs are not
  used twice; `Steady`, that without a fault each entry leads to a pack and the last body partition's offset agrees
  with the position; `Roomy`, that no partition starts inside a generic stream; `History`, what the fault list says.
  `Indexing` pairs index partitions with body partitions: as long as no listed pack is missing there is one
  body partition more than index partitions, and the n-th index partition, or the pending segments,
  lead from the n-th body partition to the frames they number, no frame twice and none left out.  A lost pack shows
  as a RIP entry without a pack, which is why the whole argument needs only `Listed` and not the absence of faults.
  * `FinalizedResolvesHolds`, `StreamsFoundHolds` and `PartitionChainHolds` follow from `Core` and the lemma `Closing`, which says what
    `Finalize` does to the packs: each keeps its place, type and segments and gets the footer.
  * `EarlierFramesSurviveHolds` follows from `Indexing`: the reader's rule for pairing the two kinds of partition, and
    its search of a frame's segment, come to the same entry.
  * `ReadsBackHolds` is the refinement of `TrackFile`: one lemma for each abstract step, `Creates`, `Accepts`, `Ends` (closing
    or spoiling the file) and `Rests` for the calls that are stuttering steps of the abstract file.
* `ASDCPTrackFile_proofs`: the same for an AS-DCP file, where no absence of faults can be assumed: its properties say what is left of
  a file after faults of any kind.  The inductive invariant `Inv` follows two marks through the file: `Harms`, the faults that
  change something for later frames, and `Sound`, the number of packets that were written before the first of them.
  * `Layout`: packs and packets lie in order before the file position, each in its own place, the header has no footer and no index yet, and the RIP
    has an entry for the header, the body and each resource, written or not.  `History`: nothing is left of an `OpenWrite`
    that failed.
  * `Sequenced`: the first `Sound` packets have the numbers 1, 2, ..., a right eye follows its left one, and the packets of a PCM file whose
    frames have the length of its edit unit are at multiples of it; as long as no harm was done `m_FramesWritten` is the number of packets and resources.
  * `Indexing`: the entries have the numbers 1 to c, no number twice and none left out (`Enumerated`), there is one for each sound
    frame, and those of sound frames lead to their first packets.  Unlike `IndexInv` it must hold with entries that lead nowhere: a
    flush that fails moves `m_StreamOffset` but not the file, and what follows is no longer sound.
  * `Grouped`: the writer of MPEG-2 counts a frame when it indexes it, so its entries stay in step with the packets whatever fails, and
    `m_GOPOffset` is the distance of the next frame to the start of its group.  `Shelved`: each generic-stream pack is the one its RIP
    entry names, and holds the sequence number that the reader will count.
  * `FooterDoes` says what each outcome of `Finalize`, or of the program's end in it, leaves: a file that `Seals` the one in memory, one with all of it but the
    frame count, or one in which the header is lost or names no footer.
    Over such a file the `Sealed` lemmas evaluate the operators of `ASDCPReader`.  `AllOrNothingHolds`,
    `EarlierFramesSurviveHolds`, `ResourcesFoundHolds` and `KeyOffsetsLeadHolds` follow, each inductive beside `Inv`.
  * `ReadsBackHolds` is the refinement of `TrackFile`.  `FileSteps` sorts the steps by what they do to the file: a step after which
    it is open accepts a frame, or the first eye of one, which is a stutter; `Finalize` closes, fails or spoils it; the others rest.
* `FrameReader_proofs!TypeCorrect`.
* `FrameReader_proofs!FrameFoundHolds`.  The strengthening `Kept` says what `m_LastPosition` can be
  while nothing has gone wrong: the file position, the 0 of `OpenMXFRead`, or, after an ancillary
  resource, an offset inside it, where no frame and no partition can start.
  Hence a call that does not seek is at the right place.
* `FrameReader_proofs!NeverWrongFrameHolds`.  Here reads may have ended early or been refused.  `NotLost` says that the file is at the start of
  a frame only where `m_LastPosition` says so, or before anything has been read: a read that does not seek finds the frame asked for, or no packet.
* `GlobalObjects_proofs!GlobalsTypeCorrect`, `MadeOnceHolds`, `WholeBlocksDifferHolds`, for any number of threads, calls and
  re-seedings.  They state `GlobalObjects`' own `TypeOK`, `MadeOnce` and `WholeBlocksDiffer`.  The invariant `Locked` gives, for each
  place in a call, what its thread knows of the object: its holder alone sees one half made, and a call is nested in another only for
  the dictionary that a header part needs, so no lock is asked for by its holder.  `Behind` says that a block that was given whole lies
  behind the key and counter of its generator, wherever the thread that gives the next one stands.
* `Components_proofs`: the invariants of the composed components, each as `Spec => []...` of `Components`, with one inductive invariant
  per component.  A step of another component leaves `part`, and so the property, alone.
  * `MadeOnceHolds` and `WholeBlocksDifferHolds` carry the two results of `GlobalObjects_proofs` over to the composition.  tlapm takes the
    operators of two instances for different ones, so `GlobalSame`, and `ClipSame` for the clip, show that they agree.
  * `ClipReadsBackHolds` rests on `ClipFile_proofs`, whose invariant `ClipInv` is about the file that is being written.
    Of a PCM clip (`WritingPCM`) it says where the clip begins, that the bytes accepted before the first fault lie behind its key and
    length, and that the frame count covers them, exactly when there was no fault (`Counts`).  Of an IAB clip (`WritingIAB`) it follows the index segments
    that the reader will use, the pending ones or, once there is one, those of the first index partition (`First`): they number the
    accepted frames up to the first fault or text without a gap (`Numbers`), and the entry of each leads to where its bytes are (`Located`),
    unless nothing is promised any more because the first index partition was lost.  A lost pack remains as an entry of the RIP; after a `Finalize` that
    ended well (`Ended`) each entry leads to a pack (`RipResolves`), and the reader comes to the index partition that `First` speaks of (`HasIndex`).
    `Layout` gives every pack a place of its own, before the file position, which is what keeps bytes from being overwritten.
    `InitClip`, `NextClip` and `ClipReads` are the three facts of the argument; `ClipReads` evaluates the readers' operators on a closed file.
    The PCM half of `ClipReadsBack` is stated byte by byte: the sum of the lengths of the accepted buffers is kept as the history `past.bytes`, since a
    fold over a sequence of any length would need induction.
  * `PairsMatchHolds`.  `PairTracked` says where the file can be as long as nothing was read that is no packet, no seek failed and no
    second file was opened: at `m_LastPosition`, or behind a left picture whose number is in `m_StereoFrameReady`.  A position inside a packet belongs to no other
    packet, since the units do not overlap, so a read that does not seek reads the packet that is asked for, or notices that it did not.
  * `WrapCompleteHolds`, `UnwrapCompleteHolds`.  `WrapProgress` and `UnwrapProgress` describe a run at each place in the function: in the loop the file
    holds the first k frames of what was promised, where k follows from the counters (`WrapCopied`, `UnwrapCopied`, for one and two eyes, with and without -d);
    behind the loop it holds all of them or an error has been recorded; behind the resources, all up to the one the counter is at.  `WrapRowsHold` and
    its counterpart check what the argument needs of each of the rows for the essence functions.
  * `FilesHoldHolds`.  `FileKept` says of each call that succeeded what of its packet is in the file, and `FileRefused` that once a packet has
    found the list full, the list stays full.  `FileWritten` bounds the list by `Left`, the buffers of the packets that failed.  `FilePacket` is the lemma it turns on:
    whatever the list held before, the memory of a packet comes last.  `FileTaken` relates the size that was taken to the file.
  * `CommandsHoldHolds`.  `ToolAgrees` is checked of each of the 21 tables: the options that `usage()` shows are read as it shows them, the default option is what is written
    at first, and each form of the command line that is shown passes the tests at the end.  `WrittenLast` says what a member that several options write holds while the line
    is read; with it the argument needs no bound on the number of options.
  * `TreesHoldHolds` rests on `DirectoryTree_proofs`, for any number of names, entries, links and calls, loops of links included.
    What a path leads to is defined by recursion.  The induction it needs, on the links left and then on the names left, is the lemma
    `WalkInduction`, stated for a set of walks (a set can be instantiated where a predicate cannot).  `Splits` takes a path apart, `EntryOfChild` says what a directory's child is,
    `MoreLinks` that a longer limit changes nothing for a path that leads somewhere, `LedAsBefore` and `LedInTree` which walks a change of the tree leaves alone.
    The inductive invariant `TreeInv` has these parts:
    * `Typed`: the tree is well-formed (each entry is in a directory), and each function is at a place of its own.
    * `CameInv`: what the tree has become of the one before the call.  What is new was added by the other program, is no link and has nothing but such entries below it;
      the rest is as it was, or gone.
    * `DeleteInv`: as long as no link to a directory is below the path, what is gone was below it, and the path of every frame of `h__DeletePath` named,
      before the call, something below it or nothing.  `BaseStays` is the lemma behind it: taking away
      things below a path does not change where the path leads, since nothing on the way is below it.
    * `CalmInv`, while nobody interferes: each frame names a directory that is in the tree, the one below it is its child, and of the names a directory had
      when it was opened those that have been passed are gone.  Hence a directory is empty when its turn comes, and the deletion succeeds.  The root is the exception: it cannot be removed.
    * `EmptyInv`: between reading a directory and removing it nothing was taken, and what `DeleteDirectoryIfEmpty` found empty had no entries then.
      `CreateInv`: nothing is lost, and the part of the path that has been made leads to a directory.
      `ResolveInv`: what has been read of the path and what is left of it, joined, lead where the path does.
  * `TypeCorrect`, the `TypeOK` of whichever component runs, follows from the inductive invariants.  `UnwrapRanges` had to be
    added to that of `UnwrapTools`: that the length a wave file declares does not wrap around follows from the test of the start against the
    length, which `UnwrapProgress` keeps for the step that declares it.

The lemmas about shared operators are in `MXFFile_proofs`: `PushIndexEntryNumbers` and `PushIndexEntryKeeps` on index
segments, `PushIndexEntryEnumerates` and `EnumeratedCount` on the numbers and the count of their entries, `Smallest` and
`Greatest` on the searches by `CHOOSE`; in `ClipFile_proofs` `PutCellsDoes`, `HoldsKept` and `HoldsMore` on bytes that stay where they were put.

Only model-checked:

* The properties of the run `header`.  The header that is built is a value computed from the tables of `MetadataSets` and `LocalTags` by
  folds over lists of sets and of members; that its references resolve and that its tags differ is a fact about these
  tables, which TLC evaluates, and about folds, which need induction.
* `RunsEnd`, a liveness property under fairness.

## 6. Running

    tlc -config as02_clean.cfg MC_AS02.tla
    tlc -config asdcp_file.cfg MC_ASDCP.tla
    tlc -config header.cfg MC_Header.tla
    tlc -config components.cfg MC_Components.tla
    tlapm AS02TrackFile_proofs.tla
    tlapm ASDCPTrackFile_proofs.tla
    tlapm ClipFile_proofs.tla
    tlapm Components_proofs.tla

`PROJECT.json` lists runs, properties with a mutation each of them detects, the source
lines of every definition, findings, hazards and theorems.
