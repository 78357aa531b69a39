--------------------------- MODULE HeaderMetadata ---------------------------
(***************************************************************************)
(* The header metadata of a track file: the objects a writer puts in the   *)
(* packet list of its header partition (AS_DCP_internal.h, h__Writer.cpp,  *)
(* AS_02_PHDR.cpp), the two times it writes them (when the file is opened  *)
(* and when it is finalized, MXF.cpp), and what a reader makes of them.    *)
(*                                                                         *)
(* An object is referred to by its InstanceUID; objects get theirs, a      *)
(* random number, when they are added, here their position in the list.    *)
(***************************************************************************)
EXTENDS LocalTags

CONSTANTS
  Confs,         \* the files written: records of the fields Conf lists
  MaxFrames,     \* bound on the frames counted
  MaxTexts,      \* bound on the text-based streams added
  Reuse          \* whether a reader object opens a second file

(* What a file is written with: its number, the writer (and with it the    *)
(* tracks and the timecode), WriterInfo, the classes and the optional      *)
(* members of the descriptor and of a sub-descriptor, and the Preface's    *)
(* optional batch.                                                         *)
Conf == [writer : {"ASDCP", "AS02", "PHDR"}, asset : Nat, encrypted : BOOLEAN, hmac : BOOLEAN,
         descriptor : Registered, sub : Registered, given : SUBSET STRING, conforms : BOOLEAN]

ASSUME ConfsAssumption == Confs \subseteq Conf /\ MaxFrames \in Nat /\ MaxTexts \in Nat /\ Reuse \in BOOLEAN

VARIABLES
  conf,     \* the file being written
  st,       \* h__WriterState, and "FAILED" once the header did not go out
  hdr,      \* m_HeaderPart: packet list, its map by InstanceUID; m_DurationUpdateList
  primer,   \* m_HeaderPart.m_Primer
  sid,      \* the largest BodySID of m_RIP
  frames,   \* m_FramesWritten
  disk,     \* the header partition in the file
  back      \* a reader: packet list, map, primer lookup, m_Info, files opened

vars == <<conf, st, hdr, primer, sid, frames, disk, back>>

-----------------------------------------------------------------------------
\* Mutant: positions counted from the packet after the one added.
AddPacketsAfter(h, objs) ==
  LET n == Len(h.list) + 1
  IN  [h EXCEPT !.list = @ \o [i \in DOMAIN objs |-> WithDefaults(objs[i])],
                !.map = @ @@ [u \in {objs[i].uid : i \in DOMAIN objs} |->
                                n + Min({i \in DOMAIN objs : objs[i].uid = u})]]

(* PacketList::AddPacket; a map does not replace the object of a UID.      *)
AddPackets(h, objs) ==
  LET n == Len(h.list)
      first(u) == CHOOSE i \in DOMAIN objs : objs[i].uid = u /\ \A j \in 1 .. i - 1 : objs[j].uid # u
  IN  [h EXCEPT !.list = @ \o [i \in DOMAIN objs |-> WithDefaults(objs[i])],
                !.map = @ @@ [u \in {objs[i].uid : i \in DOMAIN objs} |-> n + first(u)]]

(* GetMDObjectByType: the first object of the class in the list.           *)
OfClass(h, class) == SelectInSeq(h.list, LAMBDA obj : obj.class = class)

Assign(h, i, member, value) == [h EXCEPT !.list[i].val = (member :> value) @@ @]
PushBack(h, i, member, value) == Assign(h, i, member, h.list[i].val[member] \o value)

(* Labels and names, as numbers.                                           *)
NilUMID == <<0>>
MaterialUMID == <<1>>
SourceUMID(asset) == <<100 + asset>>
DescriptiveTrack == <<11>>       \* the name given to a text track
TextSetLabel == <<12>>           \* "SMPTE RP 2057 Generic Stream Text-Based Set"
CryptComment == <<13>>
AlgorithmSHA1 == <<21>>
AlgorithmNone == <<22>>

(* CreateTrackAndSequence, and the clip its caller adds: three objects,    *)
(* the first at position n.  The caller gives Sequence and clip a Duration. *)
TrackSet(n, trackClass, id, clipClass, clip, timed) ==
  LET duration == IF timed THEN [Duration |-> <<0>>] ELSE <<>>
  IN  <<NewObject(trackClass, n, [TrackID |-> <<id>>, TrackName |-> DescriptiveTrack, Sequence |-> <<n + 1>>]),
        NewObject("Sequence", n + 1, [StructuralComponents |-> <<n + 2>>] @@ duration),
        NewObject(clipClass, n + 2, clip @@ duration)>>

(* The tracks of a package: with a timecode rate a timecode track 1 first, *)
(* and the essence track next.                                             *)
Tracks(n, timecode, source) ==
  LET clip == [SourcePackageID |-> source[1], SourceTrackID |-> source[2]]
  IN  IF timecode
      THEN TrackSet(n, "Track", 1, "TimecodeComponent", <<>>, TRUE)
           \o TrackSet(n + 3, "Track", 2, "SourceClip", clip, TRUE)
      ELSE TrackSet(n, "Track", 1, "SourceClip", clip, TRUE)

TrackRefs(objs) ==
  LET tracks == SelectSeq(objs, LAMBDA obj : "TrackID" \in DOMAIN obj.val)
  IN  [i \in DOMAIN tracks |-> tracks[i].uid]

\* Mutant: the timecode component is forgotten.
TimedEssence(objs) ==
  {obj.uid : obj \in {o \in Range(objs) : "Duration" \in DOMAIN o.val /\ o.class # "TimecodeComponent"}}

(* m_DurationUpdateList: the objects whose Duration the footer will set.   *)
Timed(objs) == {obj.uid : obj \in {o \in Range(objs) : "Duration" \in DOMAIN o.val}}

Timecode(c) == c.writer = "ASDCP"
\* Mutant: the essence track is the first one, timecode or not.
EssenceTrackFirst(c) == 1

EssenceTrack(c) == IF Timecode(c) THEN 2 ELSE 1

-----------------------------------------------------------------------------
(* InitHeader: the Preface and the Identification.                         *)
InitHeader(c) ==
  <<NewObject("Preface", 1,
      [ObjectModelVersion |-> <<1>>, Version |-> <<1>>, Identifications |-> <<2>>]
      @@ (IF c.conforms THEN [ConformsToSpecifications |-> <<1>>] ELSE <<>>)),
    NewObject("Identification", 2, [Platform |-> <<1>>, ToolkitVersion |-> <<1>>])>>

(* AddSourceClip, from position n: the content storage, the material       *)
(* package and the file package, each with its tracks.                     *)
AddSourceClip(n, c) ==
  LET source == SourceUMID(c.asset)
      mp == Tracks(n + 3, Timecode(c), <<source, <<EssenceTrack(c)>>>>)
      f == n + 3 + Len(mp)
      fp == Tracks(f + 1, Timecode(c), <<NilUMID, <<0>>>>)
  IN  <<NewObject("ContentStorage", n, [Packages |-> <<n + 2, f>>, EssenceContainerData |-> <<n + 1>>]),
        NewObject("EssenceContainerData", n + 1,
          [IndexSID |-> <<129>>, BodySID |-> <<1>>, LinkedPackageUID |-> source]),
        NewObject("MaterialPackage", n + 2,
          [Name |-> <<1>>, PackageUID |-> MaterialUMID, Tracks |-> TrackRefs(mp)])>>
      \o mp
      \o <<NewObject("SourcePackage", f, [Name |-> <<2>>, PackageUID |-> source, Tracks |-> TrackRefs(fp)])>>
      \o fp

(* WritePHDRHeader adds a metadata track 3 to the file package.            *)
MetadataTrack(n) ==
  TrackSet(n, "Track", 3, "SourceClip", [SourcePackageID |-> NilUMID, SourceTrackID |-> <<0>>], TRUE)

(* AddDmsCrypt: a static track 3 that leads to the cryptographic context.  *)
AddDmsCrypt(n, c) ==
  TrackSet(n, "StaticTrack", 3, "DMSegment", [EventComment |-> CryptComment, DMFramework |-> <<n + 3>>], FALSE)
  \o <<NewObject("CryptographicFramework", n + 3, [ContextSR |-> <<n + 4>>]),
       NewObject("CryptographicContext", n + 4,
         [MICAlgorithm |-> IF c.hmac THEN AlgorithmSHA1 ELSE AlgorithmNone])>>

(* The members an application or a parser gives a descriptor.              *)
Given(class, c) == [m \in Optional(class) \cap c.given |-> <<1>>]

(* AddEssenceDescriptor: the descriptor and its sub-descriptors.           *)
Descriptors(n, c) ==
  LET subs == <<NewObject(c.sub, n + 1, Given(c.sub, c))>>
              \o (IF c.writer = "PHDR"
                  THEN <<NewObject("PHDRMetadataTrackSubDescriptor", n + 2, [SourceTrackID |-> <<3>>])>>
                  ELSE <<>>)
  IN  <<NewObject(c.descriptor, n,
          [LinkedTrackID |-> <<EssenceTrack(c)>>, SubDescriptors |-> [i \in DOMAIN subs |-> n + i]]
          @@ Given(c.descriptor, c))>>
      \o subs

(* Everything WriteASDCPHeader, WriteAS02Header and WritePHDRHeader put in *)
(* the packet list before they write it.                                   *)
BuildHeader(c) ==
  LET clip == AddSourceClip(3, c)
      n == 3 + Len(clip)
      phdr == IF c.writer = "PHDR" THEN MetadataTrack(n) ELSE <<>>
      crypt == IF c.encrypted THEN AddDmsCrypt(n + Len(phdr), c) ELSE <<>>
      d == n + Len(phdr) + Len(crypt)
      objs == InitHeader(c) \o clip \o phdr \o crypt \o Descriptors(d, c)
      h == AddPackets([list |-> <<>>, map |-> <<>>, durations |-> Timed(objs)], objs)
      fp == OfClass(h, "SourcePackage")
      linked == Assign(Assign(h, 1, "ContentStorage", <<3>>), 1, "PrimaryPackage", <<fp>>)
  IN  Assign(PushBack(linked, fp, "Tracks", TrackRefs(phdr \o crypt)), fp, "Descriptor", <<d>>)

-----------------------------------------------------------------------------
(* OP1aHeader::WriteToFile: each object of the list becomes a set, through *)
(* the primer, which therefore is complete when it is written before them. *)
AfterWrite(h, p) == InsertTags(p, FlattenSeq([i \in DOMAIN h.list |-> Entries(h.list[i])]))

Written(h, p) ==
  <<[batch |-> p.batch,
     sets |-> [i \in DOMAIN h.list |->
                 [class |-> h.list[i].class, uid |-> h.list[i].uid, bytes |-> Bytes(p, h.list[i])]]]>>

(* OpenWrite and SetSourceStream: build the header and write it.           *)
OpenWrite ==
  /\ st = "INIT"
  /\ hdr' = BuildHeader(conf)
  /\ primer' = AfterWrite(hdr', ClearTagList(primer))
  /\ disk' = Written(hdr', primer')
  /\ st' = "READY"
  /\ sid' = 1
  /\ frames' = 0
  /\ UNCHANGED <<conf, back>>

(* WriteFrame counts a frame; the header metadata does not move.           *)
WriteFrame ==
  /\ st \in {"READY", "RUNNING"}
  /\ frames < MaxFrames
  /\ st' = "RUNNING"
  /\ frames' = frames + 1
  /\ UNCHANGED <<conf, hdr, primer, sid, disk, back>>

(* AddDmsTrackGenericPartUtf8Text: the text track is looked for among the  *)
(* static tracks of the file package by the name TextSetLabel; the next    *)
(* free number is one more than the largest a static track has, at least 2. *)
StaticTracks == {i \in DOMAIN hdr.list : hdr.list[i].class = "StaticTrack"}
InFilePackage(i) == \E j \in DOMAIN hdr.list[OfClass(hdr, "SourcePackage")].val.Tracks :
                       hdr.list[OfClass(hdr, "SourcePackage")].val.Tracks[j] = hdr.list[i].uid
TextTracks == {i \in StaticTracks : InFilePackage(i) /\ hdr.list[i].val.TrackName = TextSetLabel}
\* Mutant: every text track is track 2.
NextTrackIDFixed == 2

NextTrackID == Max({2} \cup {hdr.list[i].val.TrackID[1] + 1 : i \in StaticTracks})

\* Mutant: the framework refers to the set by the identifier it is added with.
TextObjectsAsAdded(n, uid) ==
  <<NewObject("DMSegment", n, [EventComment |-> TextSetLabel, DMFramework |-> <<n + 1>>]),
    NewObject("TextBasedDMFramework", n + 1, [ObjectRef |-> <<n + 2>>]),
    NewObject("GenericStreamTextBasedSet", n + 2, [GenericStreamSID |-> <<sid + 1>>])>>

(* The segment's framework refers to a text set whose InstanceUID is drawn *)
(* at random and assigned only after the set was added under another one.  *)
TextObjects(n, uid) ==
  <<NewObject("DMSegment", n, [EventComment |-> TextSetLabel, DMFramework |-> <<n + 1>>]),
    NewObject("TextBasedDMFramework", n + 1, [ObjectRef |-> <<uid>>]),
    NewObject("GenericStreamTextBasedSet", n + 2, [GenericStreamSID |-> <<sid + 1>>])>>

(* No text track is found: one is made, under the name the caller gives    *)
(* ("Descriptive Track" unless the application chose another).             *)
NewTextTrack(h, id) ==
  LET n == Len(h.list) + 1
      fp == OfClass(h, "SourcePackage")
      objs == SubSeq(TrackSet(n, "StaticTrack", id, "DMSegment", <<>>, TRUE), 1, 2)
  IN  [PushBack(AddPackets(h, objs), fp, "Tracks", <<n>>) EXCEPT !.durations = @ \cup {n + 1}]

(* The text track that is found gets one more segment.                     *)
ReuseTextTrack(h, track) ==
  PushBack(h, h.map[h.list[track].val.Sequence[1]], "StructuralComponents", <<Len(h.list) + 1>>)

AddDmsText ==
  /\ st \in {"READY", "RUNNING"}
  /\ conf.writer = "AS02"
  /\ sid < 1 + MaxTexts
  /\ LET h == IF TextTracks = {} THEN NewTextTrack(hdr, NextTrackID) ELSE ReuseTextTrack(hdr, Min(TextTracks))
         n == Len(h.list) + 1
         ref == 1000 + sid
     IN  hdr' = [AddPackets(h, TextObjects(n, ref)) EXCEPT !.list[n + 2].uid = ref]
  /\ sid' = sid + 1
  /\ UNCHANGED <<conf, st, primer, frames, disk, back>>

(* WriteASDCPFooter and WriteAS02Footer: every listed Duration and the     *)
(* descriptor's ContainerDuration get the frame count, and the header goes *)
(* out again over the first one.                                           *)
Counted(h, n) ==
  LET timed == [h EXCEPT !.list =
                  [i \in DOMAIN @ |-> IF i \in h.durations THEN [@[i] EXCEPT !.val.Duration = <<n>>] ELSE @[i]]]
      d == timed.list[OfClass(timed, "SourcePackage")].val.Descriptor[1]
  IN  Assign(timed, d, "ContainerDuration", <<n>>)

Finalize ==
  /\ st = "RUNNING"
  /\ hdr' = Counted(hdr, frames)
  /\ primer' = AfterWrite(hdr', primer)
  /\ disk' = Written(hdr', primer')
  /\ st' = "FINAL"
  /\ UNCHANGED <<conf, sid, frames, back>>

(* The next file is written by a writer object of its own.                 *)
NextFile ==
  /\ st = "FINAL"
  /\ back.saw \in {"none", "closed"}
  /\ conf' \in {c \in Confs : c.asset = conf.asset + 1}
  /\ st' = "INIT"
  /\ disk' = <<>>
  /\ primer' = NewPrimer
  /\ UNCHANGED <<hdr, sid, frames, back>>

-----------------------------------------------------------------------------
(* A reader opens the file.  OP1aHeader::InitFromBuffer adds an object for *)
(* each set to its packet list; the list, the primer's batch and m_Info of *)
(* a reader object that was used before are not emptied.                   *)
NewReader == [list |-> <<>>, map |-> <<>>, batch |-> <<>>, opened |-> 0, saw |-> "none",
              info |-> [asset |-> <<>>, encrypted |-> FALSE, hmac |-> FALSE]]

\* Mutant: a context is taken for integrity packs.
InfoOfContext(r, info) ==
  LET context == OfClass(r, "CryptographicContext")
  IN  [info EXCEPT !.asset = r.list[OfClass(r, "SourcePackage")].val.PackageUID,
                   !.encrypted = context # 0, !.hmac = context # 0]

(* InitInfo: the first Identification (assumed there), the first           *)
(* SourcePackage's UMID, and the first cryptographic context, if any.      *)
InfoOf(r, info) ==
  LET context == OfClass(r, "CryptographicContext")
      asset == r.list[OfClass(r, "SourcePackage")].val.PackageUID
  IN  IF context = 0
      THEN [info EXCEPT !.asset = asset]
      ELSE [asset |-> asset, encrypted |-> TRUE,
            hmac |-> r.list[context].val.MICAlgorithm = AlgorithmSHA1]

OpenRead ==
  /\ disk # <<>>
  /\ back.opened = 0 \/ (Reuse /\ back.opened = 1 /\ back.saw = "closed")
  /\ LET batch == back.batch @@ disk[1].batch
         objs == [i \in DOMAIN disk[1].sets |->
                    ReadSet(LookupOf(batch), disk[1].sets[i].class, disk[1].sets[i].uid, disk[1].sets[i].bytes)]
         r == AddPackets([back EXCEPT !.batch = batch, !.opened = @ + 1, !.saw = st], objs)
     IN  back' = [r EXCEPT !.info = InfoOf(r, back.info)]
  /\ UNCHANGED <<conf, st, hdr, primer, sid, frames, disk>>

(* Close closes the file; the reader object may open another one, or be    *)
(* destroyed and the next one start empty.                                 *)
CloseRead ==
  /\ back.saw \notin {"none", "closed"}
  /\ back' = [back EXCEPT !.saw = "closed"]
  /\ UNCHANGED <<conf, st, hdr, primer, sid, frames, disk>>

DestroyReader ==
  /\ back.saw = "closed"
  /\ back' = NewReader
  /\ UNCHANGED <<conf, st, hdr, primer, sid, frames, disk>>

Init ==
  /\ conf \in {c \in Confs : c.asset = 1}
  /\ st = "INIT"
  /\ hdr = [list |-> <<>>, map |-> <<>>, durations |-> {}]
  /\ primer = NewPrimer
  /\ sid = 0
  /\ frames = 0
  /\ disk = <<>>
  /\ back = NewReader

Done == st = "FINAL" /\ UNCHANGED vars

Next ==
  \/ OpenWrite \/ WriteFrame \/ AddDmsText \/ Finalize \/ NextFile
  \/ OpenRead \/ CloseRead \/ DestroyReader \/ Done

Spec == Init /\ [][Next]_vars

-----------------------------------------------------------------------------
TypeOK ==
  /\ conf \in Confs
  /\ st \in {"INIT", "READY", "RUNNING", "FINAL"}
  /\ \A i \in DOMAIN hdr.list : hdr.list[i].class \in Registered
  /\ \A u \in DOMAIN hdr.map : hdr.map[u] \in DOMAIN hdr.list
  /\ primer.localTag \in 0 .. 255
  /\ frames \in 0 .. MaxFrames
  /\ sid \in 0 .. 1 + MaxTexts
  /\ back.opened \in 0 .. 2

(* A finished file, read by a reader that had not been used before.        *)
Seen == back.opened = 1 /\ back.saw = "FINAL"
Read(i) == back.list[back.map[i]]
TracksOf(i) == {Read(back.list[i].val.Tracks[j]) : j \in DOMAIN back.list[i].val.Tracks}
Packages == {i \in DOMAIN back.list : back.list[i].class \in {"MaterialPackage", "SourcePackage"}}

(* The members whose presence a reader does not recover: the four unmarked *)
(* by MetadataSets.                                                        *)
Unrecovered == {"ObjectModelVersion", "PrimaryPackage", "AlternativeCenterCuts", "GroupOfSoundfieldGroupsLinkID"}

(* Every object of a finished header is read back as it was written, with  *)
(* its class, its identifier and every declared member that was present:   *)
(* what Metadata.h declares, WriteToTLVSet writes, the primer names and    *)
(* InitFromTLVSet looks for agree for every class, whichever of its        *)
(* optional members are there (the Unrecovered ones are read as absent).   *)
RoundTrip ==
  LET Shown(obj) == [obj EXCEPT !.val = [m \in DOMAIN obj.val \ Unrecovered |-> obj.val[m]]]
  IN  Seen => [i \in DOMAIN back.list |-> Shown(back.list[i])] = [i \in DOMAIN hdr.list |-> Shown(hdr.list[i])]

(* The primer pairs labels and tags one to one, over both times the header *)
(* is written, and no set holds two items under one tag (the second would  *)
(* be lost by TLVReader): the invented tags neither meet each other when   *)
(* the counter has gone round nor a static tag of the dictionary.          *)
TagsUnique ==
  /\ \A e \in DOMAIN primer.lookup : primer.batch[primer.lookup[e]] = e
  /\ disk # <<>> =>
       \A i \in DOMAIN disk[1].sets :
         \A j, k \in DOMAIN disk[1].sets[i].bytes :
           disk[1].sets[i].bytes[j][1] = disk[1].sets[i].bytes[k][1] => j = k

(* In a finished file every Duration that is there is the number of frames *)
(* written, every sequence and clip of an essence, timecode or metadata    *)
(* track has one, and so has the descriptor: no object with a Duration is  *)
(* missing from m_DurationUpdateList.                                      *)
DurationsAgree ==
  Seen =>
    /\ \A i \in DOMAIN back.list :
         "Duration" \in DOMAIN back.list[i].val => back.list[i].val.Duration = <<frames>>
    /\ \A t \in UNION {TracksOf(i) : i \in Packages} :
         t.class = "Track" =>
           LET seq == Read(t.val.Sequence[1])
           IN  /\ "Duration" \in DOMAIN seq.val
               /\ "Duration" \in DOMAIN Read(seq.val.StructuralComponents[1]).val
    /\ LET fp == OfClass(back, "SourcePackage")
       IN  Read(back.list[fp].val.Descriptor[1]).val.ContainerDuration = <<frames>>

(* The tracks of a package have different TrackIDs, with the timecode      *)
(* track, the encryption's static track and the text tracks that are added *)
(* one by one while frames are written.  One combination does not: an      *)
(* encrypted PHDR file has two tracks 3 (AS_02_PHDR.cpp:455 and            *)
(* h__Writer.cpp:57).                                                      *)
TrackIDsDistinct ==
  Seen /\ ~(conf.writer = "PHDR" /\ conf.encrypted) =>
    \A i \in Packages : \A t, u \in TracksOf(i) : t.val.TrackID = u.val.TrackID => t = u

(* Strong references, with the class a reader expects at their end.        *)
StrongReferences ==
  [Identifications |-> {"Identification"}, ContentStorage |-> {"ContentStorage"},
   Packages |-> {"MaterialPackage", "SourcePackage"}, EssenceContainerData |-> {"EssenceContainerData"},
   Tracks |-> {"Track", "StaticTrack"}, Sequence |-> {"Sequence"},
   StructuralComponents |-> {"SourceClip", "TimecodeComponent", "DMSegment"},
   DMFramework |-> {"CryptographicFramework", "TextBasedDMFramework"},
   ContextSR |-> {"CryptographicContext"}, ObjectRef |-> {"GenericStreamTextBasedSet"},
   Descriptor |-> Registered, SubDescriptors |-> Registered]

References(obj) == DOMAIN obj.val \cap DOMAIN StrongReferences

(* In the header a reader builds, every strong reference of the objects    *)
(* the writer links leads to an object of the right class, and every       *)
(* object but the Preface is led to by exactly one: nothing the writer     *)
(* added is out of a reader's reach or shared by two owners.  (The text    *)
(* set changes its identifier after it was added.)                         *)
ReferencesResolve ==
  Seen =>
    LET ends == [i \in DOMAIN back.list |->
                   {<<m, back.list[i].val[m][j]>> : <<m, j>> \in
                      {<<n, k>> \in References(back.list[i]) \X (1 .. 10) : k \in DOMAIN back.list[i].val[n]}}]
    IN  /\ \A i \in DOMAIN ends : \A r \in ends[i] :
             r[2] \in DOMAIN back.map /\ Read(r[2]).class \in StrongReferences[r[1]]
        /\ \A i \in 2 .. Len(back.list) :
             Cardinality({k \in DOMAIN ends : \E r \in ends[k] : r[2] = back.list[i].uid}) = 1

(* GetEditRateFromFP: every track of the file package is a Track whose     *)
(* sequence has one component, a source clip or a timecode.                *)
EditRateFound(r) ==
  \A t \in TracksOf(OfClass(r, "SourcePackage")) :
    /\ t.class = "Track"
    /\ LET seq == Read(t.val.Sequence[1])
       IN  /\ Len(seq.val.StructuralComponents) = 1
           /\ Read(seq.val.StructuralComponents[1]).class \in {"SourceClip", "TimecodeComponent"}

(* The material package plays the essence track of the file package: its   *)
(* clip names the package and the track that the descriptor and the        *)
(* container data name too; a PHDR sub-descriptor names a track that is    *)
(* there; and of a file without static tracks GetEditRateFromFP finds the  *)
(* edit rate.                                                              *)
EssenceLinked ==
  Seen =>
    LET mp == OfClass(back, "MaterialPackage")
        fp == OfClass(back, "SourcePackage")
        clips == {c \in {Read(Read(t.val.Sequence[1]).val.StructuralComponents[1]) : t \in TracksOf(mp)} :
                    c.class = "SourceClip"}
        ids == {t.val.TrackID : t \in TracksOf(fp)}
    IN  /\ \A c \in clips :
             /\ c.val.SourcePackageID = back.list[fp].val.PackageUID
             /\ c.val.SourceTrackID = Read(back.list[fp].val.Descriptor[1]).val.LinkedTrackID
             /\ \E t \in TracksOf(fp) :
                  /\ t.val.TrackID = c.val.SourceTrackID
                  /\ Read(Read(t.val.Sequence[1]).val.StructuralComponents[1]).class = "SourceClip"
        /\ back.list[OfClass(back, "EssenceContainerData")].val.LinkedPackageUID = back.list[fp].val.PackageUID
        /\ conf.writer = "PHDR" =>
             back.list[OfClass(back, "PHDRMetadataTrackSubDescriptor")].val.SourceTrackID \in ids
        /\ (\A t \in TracksOf(fp) : t.class # "StaticTrack") => EditRateFound(back)

(* FillWriterInfo gives the values of the file that is open (AS_DCP.h:818): *)
(* its asset, whether it is encrypted, whether it has integrity packs.     *)
InfoOfOpenFile ==
  back.saw = "FINAL" =>
    back.info = [asset |-> SourceUMID(conf.asset), encrypted |-> conf.encrypted, hmac |-> conf.hmac]

=============================================================================
