----------------------------- MODULE LocalTags -----------------------------
(***************************************************************************)
(* How a metadata set becomes bytes and a set again: the local tags of the *)
(* dictionary (MDD.cpp), the primer that pairs tags with labels            *)
(* (MXF.cpp), and the readers and writers of local sets (MXFTypes.cpp).    *)
(*                                                                         *)
(* An item of a set is written as a two-byte tag, a length and a value.    *)
(* The tag is a static one of the dictionary, or, for a property the       *)
(* dictionary gives no tag, one the primer invents: 0xff and a byte that   *)
(* counts down.  The reader finds the item of a property by asking the     *)
(* primer of the file for its tag, and falls back to the static tag.       *)
(***************************************************************************)
EXTENDS MetadataMembers, MetadataSets, Integers, SequencesExt

Dynamic == <<0, 0>>   \* MDDEntry.tag of a property without a static tag

(* The tags of the dictionary, region by region of its table.              *)
PackageTags ==
  [Preface |-> [LastModifiedDate |-> <<59, 2>>, Version |-> <<59, 5>>, ObjectModelVersion |-> <<59, 7>>,
      PrimaryPackage |-> <<59, 8>>, Identifications |-> <<59, 6>>, ContentStorage |-> <<59, 3>>,
      DMSchemes |-> <<59, 11>>],
   Identification |-> [ThisGenerationUID |-> <<60, 9>>, CompanyName |-> <<60, 1>>, ProductName |-> <<60, 2>>,
      ProductVersion |-> <<60, 3>>, VersionString |-> <<60, 4>>, ProductUID |-> <<60, 5>>,
      ModificationDate |-> <<60, 6>>, ToolkitVersion |-> <<60, 7>>, Platform |-> <<60, 8>>],
   ContentStorage |-> [Packages |-> <<25, 1>>, EssenceContainerData |-> <<25, 2>>],
   EssenceContainerData |-> [LinkedPackageUID |-> <<39, 1>>],
   GenericPackage |-> [PackageUID |-> <<68, 1>>, Name |-> <<68, 2>>, PackageCreationDate |-> <<68, 5>>,
      PackageModifiedDate |-> <<68, 4>>, Tracks |-> <<68, 3>>],
   NetworkLocator |-> [URLString |-> <<64, 1>>],
   GenericTrack |-> [TrackID |-> <<72, 1>>, TrackNumber |-> <<72, 4>>, TrackName |-> <<72, 2>>,
      Sequence |-> <<72, 3>>],
   Track |-> [EditRate |-> <<75, 1>>, Origin |-> <<75, 2>>],
   StructuralComponent |-> [DataDefinition |-> <<2, 1>>, Duration |-> <<2, 2>>]]

TrackTags ==
  [Sequence |-> [StructuralComponents |-> <<16, 1>>],
   TimecodeComponent |-> [RoundedTimecodeBase |-> <<21, 2>>, StartTimecode |-> <<21, 1>>, DropFrame |-> <<21, 3>>],
   SourceClip |-> [StartPosition |-> <<18, 1>>, SourcePackageID |-> <<17, 1>>, SourceTrackID |-> <<17, 2>>],
   DMSegment |-> [EventStartPosition |-> <<6, 1>>, EventComment |-> <<6, 2>>, DMFramework |-> <<97, 1>>],
   SourcePackage |-> [Descriptor |-> <<71, 1>>],
   GenericDescriptor |-> [Locators |-> <<47, 1>>, SubDescriptors |-> Dynamic],
   FileDescriptor |-> [LinkedTrackID |-> <<48, 6>>, SampleRate |-> <<48, 1>>, ContainerDuration |-> <<48, 2>>,
      EssenceContainer |-> <<48, 4>>, Codec |-> <<48, 5>>],
   GenericPictureEssenceDescriptor |-> [SignalStandard |-> <<50, 21>>, FrameLayout |-> <<50, 12>>,
      StoredWidth |-> <<50, 3>>, StoredHeight |-> <<50, 2>>, StoredF2Offset |-> <<50, 22>>,
      SampledWidth |-> <<50, 5>>, SampledHeight |-> <<50, 4>>, SampledXOffset |-> <<50, 6>>,
      SampledYOffset |-> <<50, 7>>, DisplayHeight |-> <<50, 8>>, DisplayWidth |-> <<50, 9>>,
      DisplayXOffset |-> <<50, 10>>, DisplayYOffset |-> <<50, 11>>, DisplayF2Offset |-> <<50, 23>>,
      AspectRatio |-> <<50, 14>>, ActiveFormatDescriptor |-> <<50, 24>>, VideoLineMap |-> <<50, 13>>,
      AlphaTransparency |-> <<50, 15>>, TransferCharacteristic |-> <<50, 16>>, ImageAlignmentOffset |-> <<50, 17>>,
      ImageStartOffset |-> <<50, 19>>, ImageEndOffset |-> <<50, 20>>]]

DescriptorTags ==
  [GenericPictureEssenceDescriptor |-> [FieldDominance |-> <<50, 18>>, PictureEssenceCoding |-> <<50, 1>>],
   CDCIEssenceDescriptor |-> [ComponentDepth |-> <<51, 1>>, HorizontalSubsampling |-> <<51, 2>>,
      VerticalSubsampling |-> <<51, 8>>, ColorSiting |-> <<51, 3>>, ReversedByteOrder |-> <<51, 11>>,
      PaddingBits |-> <<51, 7>>, AlphaSampleDepth |-> <<51, 9>>, BlackRefLevel |-> <<51, 4>>,
      WhiteReflevel |-> <<51, 5>>, ColorRange |-> <<51, 6>>],
   RGBAEssenceDescriptor |-> [ComponentMaxRef |-> <<52, 6>>, ComponentMinRef |-> <<52, 7>>,
      AlphaMaxRef |-> <<52, 8>>, AlphaMinRef |-> <<52, 9>>, ScanningDirection |-> <<52, 5>>,
      PixelLayout |-> <<52, 1>>],
   GenericSoundEssenceDescriptor |-> [AudioSamplingRate |-> <<61, 3>>, Locked |-> <<61, 2>>,
      AudioRefLevel |-> <<61, 4>>, ElectroSpatialFormulation |-> <<61, 5>>, ChannelCount |-> <<61, 7>>,
      QuantizationBits |-> <<61, 1>>, DialNorm |-> <<61, 12>>, SoundEssenceCoding |-> <<61, 6>>],
   GenericDataEssenceDescriptor |-> [DataEssenceCoding |-> <<62, 1>>],
   MPEG2VideoDescriptor |-> [SingleSequence |-> Dynamic, ConstantBFrames |-> Dynamic,
      CodedContentType |-> Dynamic, LowDelay |-> Dynamic, ClosedGOP |-> Dynamic, IdenticalGOP |-> Dynamic,
      MaxGOP |-> Dynamic, BPictureCount |-> Dynamic, BitRate |-> Dynamic, ProfileAndLevel |-> Dynamic],
   WaveAudioDescriptor |-> [BlockAlign |-> <<61, 10>>, SequenceOffset |-> <<61, 11>>, AvgBps |-> <<61, 9>>]]

SubDescriptorTags ==
  [JPEG2000PictureSubDescriptor |-> [Rsize |-> Dynamic, Xsize |-> Dynamic, Ysize |-> Dynamic, XOsize |-> Dynamic,
      YOsize |-> Dynamic, XTsize |-> Dynamic, YTsize |-> Dynamic, XTOsize |-> Dynamic, YTOsize |-> Dynamic,
      Csize |-> Dynamic, PictureComponentSizing |-> Dynamic, CodingStyleDefault |-> Dynamic,
      QuantizationDefault |-> Dynamic],
   CryptographicFramework |-> [ContextSR |-> Dynamic],
   CryptographicContext |-> [ContextID |-> Dynamic, SourceEssenceContainer |-> Dynamic,
      CipherAlgorithm |-> Dynamic, MICAlgorithm |-> Dynamic, CryptographicKeyID |-> Dynamic],
   TimedTextDescriptor |-> [ResourceID |-> Dynamic, UCSEncoding |-> Dynamic, NamespaceURI |-> Dynamic],
   TimedTextResourceSubDescriptor |-> [AncillaryResourceID |-> Dynamic, MIMEMediaType |-> Dynamic]]

CoreTags ==
  [WaveAudioDescriptor |-> [ChannelAssignment |-> <<61, 50>>],
   Core |-> [BodySID |-> <<63, 7>>, IndexSID |-> <<63, 6>>, OperationalPattern |-> <<59, 9>>,
      EssenceContainers |-> <<59, 10>>]]

LabelTags ==
  [MCALabelSubDescriptor |-> [MCALabelDictionaryID |-> Dynamic, MCALinkID |-> Dynamic, MCATagSymbol |-> Dynamic,
      MCATagName |-> Dynamic, MCAChannelID |-> Dynamic, RFC5646SpokenLanguage |-> Dynamic],
   AudioChannelLabelSubDescriptor |-> [SoundfieldGroupLinkID |-> Dynamic],
   SoundfieldGroupLabelSubDescriptor |-> [GroupOfSoundfieldGroupsLinkID |-> Dynamic],
   DolbyAtmosSubDescriptor |-> [AtmosVersion |-> Dynamic, MaxChannelCount |-> Dynamic,
      MaxObjectCount |-> Dynamic, AtmosID |-> Dynamic, FirstFrame |-> Dynamic]]

MarkerTags ==
  [MaterialPackage |-> [PackageMarker |-> Dynamic],
   GenericPictureEssenceDescriptor |-> [CodingEquations |-> <<50, 26>>, ColorPrimaries |-> <<50, 25>>]]

SoundTags ==
  [GenericSoundEssenceDescriptor |-> [ReferenceImageEditRate |-> Dynamic,
      ReferenceAudioAlignmentLevel |-> Dynamic],
   GenericPictureEssenceDescriptor |-> [AlternativeCenterCuts |-> Dynamic, ActiveHeight |-> Dynamic,
      ActiveWidth |-> Dynamic, ActiveXOffset |-> Dynamic, ActiveYOffset |-> Dynamic],
   TimedTextDescriptor |-> [RFC5646LanguageTagList |-> Dynamic]]

FacetTags ==
  [PHDRMetadataTrackSubDescriptor |-> [DataDefinition |-> Dynamic, SourceTrackID |-> Dynamic,
      SimplePayloadSID |-> Dynamic],
   JPEG2000PictureSubDescriptor |-> [J2CLayout |-> Dynamic],
   MCALabelSubDescriptor |-> [MCATitle |-> Dynamic, MCATitleVersion |-> Dynamic, MCATitleSubVersion |-> Dynamic,
      MCAEpisode |-> Dynamic, MCAPartitionKind |-> Dynamic, MCAPartitionNumber |-> Dynamic,
      MCAAudioContentKind |-> Dynamic, MCAAudioElementKind |-> Dynamic]]

ActiveImageTags ==
  [GenericPictureEssenceDescriptor |-> [MasteringDisplayPrimaries |-> Dynamic,
      MasteringDisplayWhitePointChromaticity |-> Dynamic, MasteringDisplayMaximumLuminance |-> Dynamic,
      MasteringDisplayMinimumLuminance |-> Dynamic]]

ApplicationTags ==
  [PIMFDynamicMetadataDescriptor |-> [GlobalPayloadSID |-> Dynamic],
   ACESPictureSubDescriptor |-> [ACESAuthoringInformation |-> Dynamic,
      ACESMasteringDisplayPrimaries |-> Dynamic, ACESMasteringDisplayWhitePointChromaticity |-> Dynamic,
      ACESMasteringDisplayMaximumLuminance |-> Dynamic, ACESMasteringDisplayMinimumLuminance |-> Dynamic],
   TargetFrameSubDescriptor |-> [TargetFrameAncillaryResourceID |-> Dynamic, MediaType |-> Dynamic,
      TargetFrameIndex |-> Dynamic, TargetFrameTransferCharacteristic |-> Dynamic,
      TargetFrameColorPrimaries |-> Dynamic, TargetFrameComponentMaxRef |-> Dynamic,
      TargetFrameComponentMinRef |-> Dynamic, TargetFrameEssenceStreamID |-> Dynamic,
      ACESPictureSubDescriptorInstanceID |-> Dynamic, TargetFrameViewingEnvironment |-> Dynamic]]

TextTags ==
  [ISXDDataEssenceDescriptor |-> [NamespaceURI |-> Dynamic],
   TextBasedDMFramework |-> [ObjectRef |-> Dynamic],
   TextBasedObject |-> [PayloadSchemeID |-> Dynamic, TextMIMEMediaType |-> Dynamic,
      RFC5646TextLanguageCode |-> Dynamic, TextDataDescription |-> Dynamic],
   GenericStreamTextBasedSet |-> [GenericStreamSID |-> Dynamic],
   DescriptiveFramework |-> [LinkedDescriptiveFrameworkPlugInId |-> Dynamic],
   DescriptiveObject |-> [LinkedDescriptiveObjectPlugInId |-> Dynamic],
   Preface |-> [ApplicationSchemes |-> Dynamic, ConformsToSpecifications |-> Dynamic]]

LanguageTags ==
  [JPEG2000PictureSubDescriptor |-> [J2KExtendedCapabilities |-> Dynamic, J2KProfile |-> Dynamic,
      J2KCorrespondingProfile |-> Dynamic],
   TimedTextDescriptor |-> [DisplayType |-> Dynamic, IntrinsicPictureResolution |-> Dynamic,
      ZPositionInUse |-> Dynamic]]

JXSTags ==
  [JPEGXSPictureSubDescriptor |-> [JPEGXSPpih |-> Dynamic, JPEGXSPlev |-> Dynamic, JPEGXSWf |-> Dynamic,
      JPEGXSHf |-> Dynamic, JPEGXSNc |-> Dynamic, JPEGXSComponentTable |-> Dynamic, JPEGXSCw |-> Dynamic,
      JPEGXSHsl |-> Dynamic, JPEGXSMaximumBitRate |-> Dynamic]]

LOCAL Regions ==
  {PackageTags, TrackTags, DescriptorTags, SubDescriptorTags, CoreTags, LabelTags, MarkerTags, SoundTags,
   FacetTags, ActiveImageTags, ApplicationTags, TextTags, LanguageTags, JXSTags}

(* MDD.h gives seven properties the dictionary entry of another one.       *)
Alias ==
  [EssenceContainerData |-> [BodySID |-> <<"Core", "BodySID">>, IndexSID |-> <<"Core", "IndexSID">>],
   DMSegment |-> [DataDefinition |-> <<"StructuralComponent", "DataDefinition">>,
                  Duration |-> <<"StructuralComponent", "Duration">>],
   Preface |-> [EssenceContainers |-> <<"Core", "EssenceContainers">>,
                OperationalPattern |-> <<"Core", "OperationalPattern">>],
   TimedTextResourceSubDescriptor |-> [EssenceStreamID |-> <<"Core", "BodySID">>]]

(* The entry of a property: what m_Dict->Type(MDD_<class>_<member>) finds. *)
Entry(item) ==
  IF item[1] \in DOMAIN Alias /\ item[2] \in DOMAIN Alias[item[1]]
  THEN Alias[item[1]][item[2]]
  ELSE item

Items == UNION {{Chain[c][i] : i \in DOMAIN Chain[c]} : c \in DOMAIN Implemented}

StaticTag ==
  [e \in {Entry(item) : item \in Items} |->
     LET r == CHOOSE r \in Regions : e[1] \in DOMAIN r /\ e[2] \in DOMAIN r[e[1]]
     IN  r[e[1]][e[2]]]

(* MDDEntry.optional of the members that are written without an empty()    *)
(* test: WriteObject leaves such a member out when it has no value.        *)
SkippedWhenNil ==
  {<<"Preface", "PrimaryPackage">>, <<"ContentStorage", "EssenceContainerData">>,
   <<"GenericDescriptor", "Locators">>, <<"GenericDescriptor", "SubDescriptors">>,
   <<"GenericSoundEssenceDescriptor", "SoundEssenceCoding">>, <<"DolbyAtmosSubDescriptor", "AtmosID">>}

-----------------------------------------------------------------------------
(* The primer: the tags given out so far (m_Lookup), the batch of entries  *)
(* that is written, a set ordered by the tag alone, and the byte the next  *)
(* invented tag gets (m_LocalTag, a ui8_t).                                *)
NewPrimer == [lookup |-> <<>>, batch |-> <<>>, localTag |-> 255]

(* ClearTagList forgets the tags, not the counter.                         *)
ClearTagList(primer) == [primer EXCEPT !.lookup = <<>>, !.batch = <<>>]

\* Mutant: the counter does not move.
InsertTagsOnce(primer, entries) ==
  LET new == Range(entries) \ DOMAIN primer.lookup
      static == [e \in new |-> StaticTag[e]]
      tag == [e \in new |-> IF static[e] = Dynamic THEN <<255, primer.localTag>> ELSE static[e]]
      holder(t) == CHOOSE e \in new : tag[e] = t
  IN  [lookup |-> primer.lookup @@ tag,
       batch |-> primer.batch @@ [t \in Range(tag) |-> holder(t)],
       localTag |-> primer.localTag]

(* InsertTag for the entries of a sequence, in order: one that was seen    *)
(* keeps its tag, one with a static tag takes it, any other is given 0xff  *)
(* and the value of the counter, which goes down by one, in a byte.        *)
InsertTags(primer, entries) ==
  LET new == Range(entries) \ DOMAIN primer.lookup
      static == [e \in new |-> StaticTag[e]]
      first == [e \in new |-> Min({i \in DOMAIN entries : entries[i] = e})]
      invented == {e \in new : static[e] = Dynamic}
      before(e) == {f \in invented : first[f] < first[e]}
      tag == [e \in new |-> IF e \in invented
                            THEN <<255, (primer.localTag - Cardinality(before(e))) % 256>>
                            ELSE static[e]]
      holder(t) == CHOOSE e \in new : tag[e] = t /\ \A f \in new : tag[f] = t => first[e] <= first[f]
  IN  [lookup |-> primer.lookup @@ tag,
       batch |-> primer.batch @@ [t \in Range(tag) |-> holder(t)],
       localTag |-> (primer.localTag - Cardinality(invented)) % 256]

(* The reader's lookup: the batch of the file, by entry (InitWithBatch).   *)
LookupOf(batch) ==
  [e \in Range(batch) |-> CHOOSE tag \in DOMAIN batch : batch[tag] = e]

\* Mutant: the static tag only.
TagForStatic(lookup, entry) == StaticTag[entry]

(* FindTL: the tag the file's primer pairs with the label; else the static *)
(* tag, when its first byte is not zero; else nothing.                     *)
TagFor(lookup, entry) ==
  IF entry \in DOMAIN lookup THEN lookup[entry] ELSE StaticTag[entry]

-----------------------------------------------------------------------------
(* A metadata object in memory: its class (m_UL), its InstanceUID, and the *)
(* values of the members it has.  A value is a sequence of numbers: <<>>   *)
(* is a default-constructed one, <<n>> a number, an identifier or a label, *)
(* and an array of identifiers is the sequence of them.                    *)
(* The declared members of an object: those of its class and its parents'. *)
Required(class) == UNION {Declared[c].required : c \in Ancestors[class]}
Optional(class) == UNION {Declared[c].optional : c \in Ancestors[class]}

(* What is assigned to an object, and the default of every other member.   *)
NewObject(class, uid, assigned) == [class |-> class, uid |-> uid, val |-> assigned]
WithDefaults(obj) == [obj EXCEPT !.val = @ @@ [m \in Required(obj.class) |-> <<>>]]

IsGuarded(item) == item[2] \in Implemented[item[1]].guarded
IsMarked(item) == item[2] \notin Implemented[item[1]].unmarked

(* WriteToTLVSet passes an item on when it is not empty(); WriteObject     *)
(* drops it when the entry is optional and the object has no value.        *)
IsWritten(obj, item) ==
  /\ item[2] \in DOMAIN obj.val \/ ~IsGuarded(item)
  /\ item \in SkippedWhenNil => item[2] \in DOMAIN obj.val /\ obj.val[item[2]] # <<>>

Value(obj, item) == IF item[2] \in DOMAIN obj.val THEN obj.val[item[2]] ELSE <<>>

WrittenItems(obj) == SelectSeq(Chain[obj.class], LAMBDA item : IsWritten(obj, item))

Entries(obj) == [i \in DOMAIN WrittenItems(obj) |-> Entry(WrittenItems(obj)[i])]

(* The set as bytes: pairs of a tag and a value, in the order written.     *)
Bytes(primer, obj) ==
  [i \in DOMAIN WrittenItems(obj) |->
     <<primer.lookup[Entry(WrittenItems(obj)[i])], Value(obj, WrittenItems(obj)[i])>>]

(* TLVReader indexes the items by tag; of two with one tag the first stays. *)
Found(bytes, tag) == \E i \in DOMAIN bytes : bytes[i][1] = tag
FirstWith(bytes, tag) ==
  bytes[CHOOSE i \in DOMAIN bytes : bytes[i][1] = tag /\ \A j \in 1 .. i - 1 : bytes[j][1] # tag][2]

(* InitFromTLVSet of the class: an item that is found gives its member the *)
(* value; an optional_property is present only when that is recorded.      *)
ReadSet(lookup, class, uid, bytes) ==
  LET present == {item \in Range(Chain[class]) :
                    /\ Found(bytes, TagFor(lookup, Entry(item)))
                    /\ item[2] \in Optional(class) => IsMarked(item)}
      Of(m) == CHOOSE item \in present : item[2] = m
  IN  NewObject(class, uid,
        [m \in {item[2] : item \in present} |-> FirstWith(bytes, TagFor(lookup, Entry(Of(m))))])

=============================================================================
