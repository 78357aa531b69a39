---------------------------- MODULE MetadataSets ----------------------------
(***************************************************************************)
(* The metadata sets as Metadata.cpp and MXF.cpp implement them.  A class  *)
(* has six methods that repeat its list of members (constructor, Copy,     *)
(* InitFromTLVSet, WriteToTLVSet, Dump, Clone); what can be told from one  *)
(* of them and not from another is kept here:                              *)
(*   parent    the class whose InitFromTLVSet and WriteToTLVSet are called *)
(*             first;                                                      *)
(*   items     the members written and read, in that order;                *)
(*   guarded   those WriteToTLVSet skips when they are empty();            *)
(*   unmarked  those whose presence InitFromTLVSet does not record: the    *)
(*             value is read, but the member stays empty().                *)
(***************************************************************************)
EXTENDS Sequences

LOCAL Set(parent, items, guarded, unmarked) ==
  [parent |-> parent, items |-> items, guarded |-> guarded, unmarked |-> unmarked]

Preface ==
  Set("InterchangeObject", <<"LastModifiedDate", "Version", "ObjectModelVersion", "PrimaryPackage",
    "Identifications", "ContentStorage", "OperationalPattern", "EssenceContainers", "DMSchemes",
    "ApplicationSchemes", "ConformsToSpecifications">>,
    {"ObjectModelVersion", "ApplicationSchemes", "ConformsToSpecifications"},
    {"ObjectModelVersion", "PrimaryPackage"})

Identification ==
  Set("InterchangeObject", <<"ThisGenerationUID", "CompanyName", "ProductName", "ProductVersion",
    "VersionString", "ProductUID", "ModificationDate", "ToolkitVersion", "Platform">>, {"Platform"}, {})

ContentStorage ==
  Set("InterchangeObject", <<"Packages", "EssenceContainerData">>, {}, {})

EssenceContainerData ==
  Set("InterchangeObject", <<"LinkedPackageUID", "IndexSID", "BodySID">>, {"IndexSID"}, {})

GenericPackage ==
  Set("InterchangeObject", <<"PackageUID", "Name", "PackageCreationDate", "PackageModifiedDate", "Tracks">>,
    {"Name"}, {})

MaterialPackage ==
  Set("GenericPackage", <<"PackageMarker">>, {"PackageMarker"}, {})

SourcePackage ==
  Set("GenericPackage", <<"Descriptor">>, {}, {})

GenericTrack ==
  Set("InterchangeObject", <<"TrackID", "TrackNumber", "TrackName", "Sequence">>, {"TrackName", "Sequence"}, {})

StaticTrack ==
  Set("GenericTrack", <<>>, {}, {})

Track ==
  Set("GenericTrack", <<"EditRate", "Origin">>, {}, {})

StructuralComponent ==
  Set("InterchangeObject", <<"DataDefinition", "Duration">>, {"Duration"}, {})

Sequence ==
  Set("StructuralComponent", <<"StructuralComponents">>, {}, {})

SourceClip ==
  Set("StructuralComponent", <<"StartPosition", "SourcePackageID", "SourceTrackID">>, {}, {})

TimecodeComponent ==
  Set("StructuralComponent", <<"RoundedTimecodeBase", "StartTimecode", "DropFrame">>, {}, {})

GenericDescriptor ==
  Set("InterchangeObject", <<"Locators", "SubDescriptors">>, {}, {})

FileDescriptor ==
  Set("GenericDescriptor", <<"LinkedTrackID", "SampleRate", "ContainerDuration", "EssenceContainer", "Codec">>,
    {"LinkedTrackID", "ContainerDuration", "Codec"}, {})

GenericSoundEssenceDescriptor ==
  Set("FileDescriptor", <<"AudioSamplingRate", "Locked", "AudioRefLevel", "ElectroSpatialFormulation",
    "ChannelCount", "QuantizationBits", "DialNorm", "SoundEssenceCoding", "ReferenceAudioAlignmentLevel",
    "ReferenceImageEditRate">>, {"AudioRefLevel", "ElectroSpatialFormulation", "DialNorm",
    "ReferenceAudioAlignmentLevel", "ReferenceImageEditRate"}, {})

WaveAudioDescriptor ==
  Set("GenericSoundEssenceDescriptor", <<"BlockAlign", "SequenceOffset", "AvgBps", "ChannelAssignment">>,
    {"SequenceOffset", "ChannelAssignment"}, {})

GenericPictureEssenceDescriptor ==
  Set("FileDescriptor", <<"SignalStandard", "FrameLayout", "StoredWidth", "StoredHeight", "StoredF2Offset",
    "SampledWidth", "SampledHeight", "SampledXOffset", "SampledYOffset", "DisplayHeight", "DisplayWidth",
    "DisplayXOffset", "DisplayYOffset", "DisplayF2Offset", "AspectRatio", "ActiveFormatDescriptor",
    "AlphaTransparency", "TransferCharacteristic", "ImageAlignmentOffset", "ImageStartOffset", "ImageEndOffset",
    "FieldDominance", "PictureEssenceCoding", "CodingEquations", "ColorPrimaries", "AlternativeCenterCuts",
    "ActiveWidth", "ActiveHeight", "ActiveXOffset", "ActiveYOffset", "VideoLineMap",
    "MasteringDisplayPrimaries", "MasteringDisplayWhitePointChromaticity", "MasteringDisplayMaximumLuminance",
    "MasteringDisplayMinimumLuminance">>, {"SignalStandard", "StoredF2Offset", "SampledWidth", "SampledHeight",
    "SampledXOffset", "SampledYOffset", "DisplayHeight", "DisplayWidth", "DisplayXOffset", "DisplayYOffset",
    "DisplayF2Offset", "ActiveFormatDescriptor", "AlphaTransparency", "TransferCharacteristic",
    "ImageAlignmentOffset", "ImageStartOffset", "ImageEndOffset", "FieldDominance", "CodingEquations",
    "ColorPrimaries", "AlternativeCenterCuts", "ActiveWidth", "ActiveHeight", "ActiveXOffset", "ActiveYOffset",
    "VideoLineMap", "MasteringDisplayPrimaries", "MasteringDisplayWhitePointChromaticity",
    "MasteringDisplayMaximumLuminance", "MasteringDisplayMinimumLuminance"}, {"AlternativeCenterCuts"})

RGBAEssenceDescriptor ==
  Set("GenericPictureEssenceDescriptor", <<"ComponentMaxRef", "ComponentMinRef", "AlphaMinRef", "AlphaMaxRef",
    "ScanningDirection", "PixelLayout">>, {"ComponentMaxRef", "ComponentMinRef", "AlphaMinRef", "AlphaMaxRef",
    "ScanningDirection"}, {})

JPEG2000PictureSubDescriptor ==
  Set("InterchangeObject", <<"Rsize", "Xsize", "Ysize", "XOsize", "YOsize", "XTsize", "YTsize", "XTOsize",
    "YTOsize", "Csize", "PictureComponentSizing", "CodingStyleDefault", "QuantizationDefault", "J2CLayout",
    "J2KExtendedCapabilities", "J2KProfile", "J2KCorrespondingProfile">>, {"PictureComponentSizing",
    "CodingStyleDefault", "QuantizationDefault", "J2CLayout", "J2KExtendedCapabilities", "J2KProfile",
    "J2KCorrespondingProfile"}, {})

CDCIEssenceDescriptor ==
  Set("GenericPictureEssenceDescriptor", <<"ComponentDepth", "HorizontalSubsampling", "VerticalSubsampling",
    "ColorSiting", "ReversedByteOrder", "PaddingBits", "AlphaSampleDepth", "BlackRefLevel", "WhiteReflevel",
    "ColorRange">>, {"VerticalSubsampling", "ColorSiting", "ReversedByteOrder", "PaddingBits",
    "AlphaSampleDepth", "BlackRefLevel", "WhiteReflevel", "ColorRange"}, {})

MPEG2VideoDescriptor ==
  Set("CDCIEssenceDescriptor", <<"SingleSequence", "ConstantBFrames", "CodedContentType", "LowDelay",
    "ClosedGOP", "IdenticalGOP", "MaxGOP", "BPictureCount", "BitRate", "ProfileAndLevel">>, {"SingleSequence",
    "ConstantBFrames", "CodedContentType", "LowDelay", "ClosedGOP", "IdenticalGOP", "MaxGOP", "BPictureCount",
    "BitRate", "ProfileAndLevel"}, {})

DMSegment ==
  Set("InterchangeObject", <<"DataDefinition", "Duration", "EventStartPosition", "EventComment",
    "DMFramework">>, {"Duration", "EventStartPosition", "EventComment"}, {})

CryptographicFramework ==
  Set("InterchangeObject", <<"ContextSR">>, {}, {})

CryptographicContext ==
  Set("InterchangeObject", <<"ContextID", "SourceEssenceContainer", "CipherAlgorithm", "MICAlgorithm",
    "CryptographicKeyID">>, {}, {})

DescriptiveFramework ==
  Set("InterchangeObject", <<"LinkedDescriptiveFrameworkPlugInId">>, {"LinkedDescriptiveFrameworkPlugInId"}, {})

DescriptiveObject ==
  Set("InterchangeObject", <<"LinkedDescriptiveObjectPlugInId">>, {"LinkedDescriptiveObjectPlugInId"}, {})

GenericDataEssenceDescriptor ==
  Set("FileDescriptor", <<"DataEssenceCoding">>, {}, {})

TimedTextDescriptor ==
  Set("GenericDataEssenceDescriptor", <<"ResourceID", "UCSEncoding", "NamespaceURI", "RFC5646LanguageTagList",
    "DisplayType", "IntrinsicPictureResolution", "ZPositionInUse">>, {"RFC5646LanguageTagList", "DisplayType",
    "IntrinsicPictureResolution", "ZPositionInUse"}, {})

TimedTextResourceSubDescriptor ==
  Set("InterchangeObject", <<"AncillaryResourceID", "MIMEMediaType", "EssenceStreamID">>, {}, {})

StereoscopicPictureSubDescriptor ==
  Set("InterchangeObject", <<>>, {}, {})

ContainerConstraintsSubDescriptor ==
  Set("InterchangeObject", <<>>, {}, {})

NetworkLocator ==
  Set("InterchangeObject", <<"URLString">>, {}, {})

MCALabelSubDescriptor ==
  Set("InterchangeObject", <<"MCALabelDictionaryID", "MCALinkID", "MCATagSymbol", "MCATagName", "MCAChannelID",
    "RFC5646SpokenLanguage", "MCATitle", "MCATitleVersion", "MCATitleSubVersion", "MCAEpisode",
    "MCAPartitionKind", "MCAPartitionNumber", "MCAAudioContentKind", "MCAAudioElementKind">>, {"MCATagName",
    "MCAChannelID", "RFC5646SpokenLanguage", "MCATitle", "MCATitleVersion", "MCATitleSubVersion", "MCAEpisode",
    "MCAPartitionKind", "MCAPartitionNumber", "MCAAudioContentKind", "MCAAudioElementKind"}, {})

AudioChannelLabelSubDescriptor ==
  Set("MCALabelSubDescriptor", <<"SoundfieldGroupLinkID">>, {"SoundfieldGroupLinkID"}, {})

SoundfieldGroupLabelSubDescriptor ==
  Set("MCALabelSubDescriptor", <<"GroupOfSoundfieldGroupsLinkID">>, {"GroupOfSoundfieldGroupsLinkID"},
    {"GroupOfSoundfieldGroupsLinkID"})

GroupOfSoundfieldGroupsLabelSubDescriptor ==
  Set("MCALabelSubDescriptor", <<>>, {}, {})

DCDataDescriptor ==
  Set("GenericDataEssenceDescriptor", <<>>, {}, {})

PrivateDCDataDescriptor ==
  Set("GenericDataEssenceDescriptor", <<>>, {}, {})

DolbyAtmosSubDescriptor ==
  Set("InterchangeObject", <<"AtmosID", "FirstFrame", "MaxChannelCount", "MaxObjectCount", "AtmosVersion">>, {},
    {})

ACESPictureSubDescriptor ==
  Set("InterchangeObject", <<"ACESAuthoringInformation", "ACESMasteringDisplayPrimaries",
    "ACESMasteringDisplayWhitePointChromaticity", "ACESMasteringDisplayMaximumLuminance",
    "ACESMasteringDisplayMinimumLuminance">>, {"ACESAuthoringInformation", "ACESMasteringDisplayPrimaries",
    "ACESMasteringDisplayWhitePointChromaticity", "ACESMasteringDisplayMaximumLuminance",
    "ACESMasteringDisplayMinimumLuminance"}, {})

TargetFrameSubDescriptor ==
  Set("InterchangeObject", <<"TargetFrameAncillaryResourceID", "MediaType", "TargetFrameIndex",
    "TargetFrameTransferCharacteristic", "TargetFrameColorPrimaries", "TargetFrameComponentMaxRef",
    "TargetFrameComponentMinRef", "TargetFrameEssenceStreamID", "ACESPictureSubDescriptorInstanceID",
    "TargetFrameViewingEnvironment">>, {"ACESPictureSubDescriptorInstanceID", "TargetFrameViewingEnvironment"},
    {})

TextBasedDMFramework ==
  Set("DescriptiveFramework", <<"ObjectRef">>, {"ObjectRef"}, {})

TextBasedObject ==
  Set("DescriptiveObject", <<"PayloadSchemeID", "TextMIMEMediaType", "RFC5646TextLanguageCode",
    "TextDataDescription">>, {"TextDataDescription"}, {})

GenericStreamTextBasedSet ==
  Set("TextBasedObject", <<"GenericStreamSID">>, {}, {})

ISXDDataEssenceDescriptor ==
  Set("GenericDataEssenceDescriptor", <<"NamespaceURI">>, {}, {})

PHDRMetadataTrackSubDescriptor ==
  Set("InterchangeObject", <<"DataDefinition", "SourceTrackID", "SimplePayloadSID">>, {}, {})

PIMFDynamicMetadataDescriptor ==
  Set("GenericDataEssenceDescriptor", <<"GlobalPayloadSID">>, {}, {})

IABEssenceDescriptor ==
  Set("GenericSoundEssenceDescriptor", <<>>, {}, {})

IABSoundfieldLabelSubDescriptor ==
  Set("MCALabelSubDescriptor", <<>>, {}, {})

JPEGXSPictureSubDescriptor ==
  Set("InterchangeObject", <<"JPEGXSPpih", "JPEGXSPlev", "JPEGXSWf", "JPEGXSHf", "JPEGXSNc",
    "JPEGXSComponentTable", "JPEGXSCw", "JPEGXSHsl", "JPEGXSMaximumBitRate">>, {"JPEGXSCw", "JPEGXSHsl",
    "JPEGXSMaximumBitRate"}, {})

(* The implementations by the name of the class (ObjectName).              *)
Implemented ==
  [Preface |-> Preface, Identification |-> Identification, ContentStorage |-> ContentStorage,
   EssenceContainerData |-> EssenceContainerData, GenericPackage |-> GenericPackage, MaterialPackage |->
   MaterialPackage, SourcePackage |-> SourcePackage, GenericTrack |-> GenericTrack, StaticTrack |->
   StaticTrack, Track |-> Track, StructuralComponent |-> StructuralComponent, Sequence |-> Sequence,
   SourceClip |-> SourceClip, TimecodeComponent |-> TimecodeComponent, GenericDescriptor |->
   GenericDescriptor, FileDescriptor |-> FileDescriptor, GenericSoundEssenceDescriptor |->
   GenericSoundEssenceDescriptor, WaveAudioDescriptor |-> WaveAudioDescriptor,
   GenericPictureEssenceDescriptor |-> GenericPictureEssenceDescriptor, RGBAEssenceDescriptor |->
   RGBAEssenceDescriptor, JPEG2000PictureSubDescriptor |-> JPEG2000PictureSubDescriptor,
   CDCIEssenceDescriptor |-> CDCIEssenceDescriptor, MPEG2VideoDescriptor |-> MPEG2VideoDescriptor, DMSegment
   |-> DMSegment, CryptographicFramework |-> CryptographicFramework, CryptographicContext |->
   CryptographicContext, DescriptiveFramework |-> DescriptiveFramework, DescriptiveObject |->
   DescriptiveObject, GenericDataEssenceDescriptor |-> GenericDataEssenceDescriptor, TimedTextDescriptor |->
   TimedTextDescriptor, TimedTextResourceSubDescriptor |-> TimedTextResourceSubDescriptor,
   StereoscopicPictureSubDescriptor |-> StereoscopicPictureSubDescriptor, ContainerConstraintsSubDescriptor
   |-> ContainerConstraintsSubDescriptor, NetworkLocator |-> NetworkLocator, MCALabelSubDescriptor |->
   MCALabelSubDescriptor, AudioChannelLabelSubDescriptor |-> AudioChannelLabelSubDescriptor,
   SoundfieldGroupLabelSubDescriptor |-> SoundfieldGroupLabelSubDescriptor,
   GroupOfSoundfieldGroupsLabelSubDescriptor |-> GroupOfSoundfieldGroupsLabelSubDescriptor, DCDataDescriptor
   |-> DCDataDescriptor, PrivateDCDataDescriptor |-> PrivateDCDataDescriptor, DolbyAtmosSubDescriptor |->
   DolbyAtmosSubDescriptor, ACESPictureSubDescriptor |-> ACESPictureSubDescriptor, TargetFrameSubDescriptor
   |-> TargetFrameSubDescriptor, TextBasedDMFramework |-> TextBasedDMFramework, TextBasedObject |->
   TextBasedObject, GenericStreamTextBasedSet |-> GenericStreamTextBasedSet, ISXDDataEssenceDescriptor |->
   ISXDDataEssenceDescriptor, PHDRMetadataTrackSubDescriptor |-> PHDRMetadataTrackSubDescriptor,
   PIMFDynamicMetadataDescriptor |-> PIMFDynamicMetadataDescriptor, IABEssenceDescriptor |->
   IABEssenceDescriptor, IABSoundfieldLabelSubDescriptor |-> IABSoundfieldLabelSubDescriptor,
   JPEGXSPictureSubDescriptor |-> JPEGXSPictureSubDescriptor]

(* The classes Metadata_InitTypes gives CreateObject a factory for; a set  *)
(* of any other class is read as a plain InterchangeObject.                *)
Abstract == {"GenericPackage", "GenericTrack", "StructuralComponent", "GenericDescriptor"}
Registered == DOMAIN Implemented \ Abstract

(* WriteToTLVSet and InitFromTLVSet of a class call its parent's first, so *)
(* a set holds the items of the whole chain, the oldest ancestor's first.  *)
Chain[c \in DOMAIN Implemented] ==
  LET p == Implemented[c].parent
      own == [i \in DOMAIN Implemented[c].items |-> <<c, Implemented[c].items[i]>>]
  IN  IF p \in DOMAIN Implemented THEN Chain[p] \o own ELSE own

Ancestors[c \in DOMAIN Implemented] ==
  LET p == Implemented[c].parent
  IN  {c} \cup (IF p \in DOMAIN Implemented THEN Ancestors[p] ELSE {})

=============================================================================
