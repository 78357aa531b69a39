-------------------------- MODULE MetadataMembers --------------------------
(***************************************************************************)
(* The metadata sets of an MXF header as Metadata.h and MXF.h declare them *)
(* (the class definitions): for each class the members a set always has    *)
(* and the members that are optional_property<>, absent until assigned.    *)
(*                                                                         *)
(* What the library does with the members (which it writes, in what order, *)
(* under what tag, and which it recognises again) is in MetadataSets and   *)
(* LocalTags, from the implementation; that no declared member is lost     *)
(* between the two is what HeaderMetadata checks.                          *)
(***************************************************************************)

LOCAL Members(required, optional) == [required |-> required, optional |-> optional]

PrefaceMembers ==
  Members({"LastModifiedDate", "Version", "Identifications", "ContentStorage", "OperationalPattern",
    "EssenceContainers", "DMSchemes"}, {"ObjectModelVersion", "PrimaryPackage", "ApplicationSchemes",
    "ConformsToSpecifications"})

IdentificationMembers ==
  Members({"ThisGenerationUID", "CompanyName", "ProductName", "ProductVersion", "VersionString", "ProductUID",
    "ModificationDate", "ToolkitVersion"}, {"Platform"})

ContentStorageMembers ==
  Members({"Packages", "EssenceContainerData"}, {})

EssenceContainerDataMembers ==
  Members({"LinkedPackageUID", "BodySID"}, {"IndexSID"})

GenericPackageMembers ==
  Members({"PackageUID", "PackageCreationDate", "PackageModifiedDate", "Tracks"}, {"Name"})

MaterialPackageMembers ==
  Members({}, {"PackageMarker"})

SourcePackageMembers ==
  Members({"Descriptor"}, {})

GenericTrackMembers ==
  Members({"TrackID", "TrackNumber"}, {"TrackName", "Sequence"})

StaticTrackMembers ==
  Members({}, {})

TrackMembers ==
  Members({"EditRate", "Origin"}, {})

StructuralComponentMembers ==
  Members({"DataDefinition"}, {"Duration"})

SequenceMembers ==
  Members({"StructuralComponents"}, {})

SourceClipMembers ==
  Members({"StartPosition", "SourcePackageID", "SourceTrackID"}, {})

TimecodeComponentMembers ==
  Members({"RoundedTimecodeBase", "StartTimecode", "DropFrame"}, {})

GenericDescriptorMembers ==
  Members({"Locators", "SubDescriptors"}, {})

FileDescriptorMembers ==
  Members({"SampleRate", "EssenceContainer"}, {"LinkedTrackID", "ContainerDuration", "Codec"})

GenericSoundEssenceDescriptorMembers ==
  Members({"AudioSamplingRate", "Locked", "ChannelCount", "QuantizationBits", "SoundEssenceCoding"},
    {"AudioRefLevel", "ElectroSpatialFormulation", "DialNorm", "ReferenceAudioAlignmentLevel",
    "ReferenceImageEditRate"})

WaveAudioDescriptorMembers ==
  Members({"BlockAlign", "AvgBps"}, {"SequenceOffset", "ChannelAssignment"})

GenericPictureEssenceDescriptorMembers ==
  Members({"FrameLayout", "StoredWidth", "StoredHeight", "AspectRatio", "PictureEssenceCoding"},
    {"SignalStandard", "StoredF2Offset", "SampledWidth", "SampledHeight", "SampledXOffset", "SampledYOffset",
    "DisplayHeight", "DisplayWidth", "DisplayXOffset", "DisplayYOffset", "DisplayF2Offset",
    "ActiveFormatDescriptor", "AlphaTransparency", "TransferCharacteristic", "ImageAlignmentOffset",
    "ImageStartOffset", "ImageEndOffset", "FieldDominance", "CodingEquations", "ColorPrimaries",
    "AlternativeCenterCuts", "ActiveWidth", "ActiveHeight", "ActiveXOffset", "ActiveYOffset", "VideoLineMap",
    "MasteringDisplayPrimaries", "MasteringDisplayWhitePointChromaticity", "MasteringDisplayMaximumLuminance",
    "MasteringDisplayMinimumLuminance"})

RGBAEssenceDescriptorMembers ==
  Members({"PixelLayout"}, {"ComponentMaxRef", "ComponentMinRef", "AlphaMinRef", "AlphaMaxRef",
    "ScanningDirection"})

JPEG2000PictureSubDescriptorMembers ==
  Members({"Rsize", "Xsize", "Ysize", "XOsize", "YOsize", "XTsize", "YTsize", "XTOsize", "YTOsize", "Csize"},
    {"PictureComponentSizing", "CodingStyleDefault", "QuantizationDefault", "J2CLayout",
    "J2KExtendedCapabilities", "J2KProfile", "J2KCorrespondingProfile"})

CDCIEssenceDescriptorMembers ==
  Members({"ComponentDepth", "HorizontalSubsampling"}, {"VerticalSubsampling", "ColorSiting",
    "ReversedByteOrder", "PaddingBits", "AlphaSampleDepth", "BlackRefLevel", "WhiteReflevel", "ColorRange"})

MPEG2VideoDescriptorMembers ==
  Members({}, {"SingleSequence", "ConstantBFrames", "CodedContentType", "LowDelay", "ClosedGOP", "IdenticalGOP",
    "MaxGOP", "BPictureCount", "BitRate", "ProfileAndLevel"})

DMSegmentMembers ==
  Members({"DataDefinition", "DMFramework"}, {"Duration", "EventStartPosition", "EventComment"})

CryptographicFrameworkMembers ==
  Members({"ContextSR"}, {})

CryptographicContextMembers ==
  Members({"ContextID", "SourceEssenceContainer", "CipherAlgorithm", "MICAlgorithm", "CryptographicKeyID"}, {})

DescriptiveFrameworkMembers ==
  Members({}, {"LinkedDescriptiveFrameworkPlugInId"})

DescriptiveObjectMembers ==
  Members({}, {"LinkedDescriptiveObjectPlugInId"})

GenericDataEssenceDescriptorMembers ==
  Members({"DataEssenceCoding"}, {})

TimedTextDescriptorMembers ==
  Members({"ResourceID", "UCSEncoding", "NamespaceURI"}, {"RFC5646LanguageTagList", "DisplayType",
    "IntrinsicPictureResolution", "ZPositionInUse"})

TimedTextResourceSubDescriptorMembers ==
  Members({"AncillaryResourceID", "MIMEMediaType", "EssenceStreamID"}, {})

StereoscopicPictureSubDescriptorMembers ==
  Members({}, {})

ContainerConstraintsSubDescriptorMembers ==
  Members({}, {})

NetworkLocatorMembers ==
  Members({"URLString"}, {})

MCALabelSubDescriptorMembers ==
  Members({"MCALabelDictionaryID", "MCALinkID", "MCATagSymbol"}, {"MCATagName", "MCAChannelID",
    "RFC5646SpokenLanguage", "MCATitle", "MCATitleVersion", "MCATitleSubVersion", "MCAEpisode",
    "MCAPartitionKind", "MCAPartitionNumber", "MCAAudioContentKind", "MCAAudioElementKind"})

AudioChannelLabelSubDescriptorMembers ==
  Members({}, {"SoundfieldGroupLinkID"})

SoundfieldGroupLabelSubDescriptorMembers ==
  Members({}, {"GroupOfSoundfieldGroupsLinkID"})

GroupOfSoundfieldGroupsLabelSubDescriptorMembers ==
  Members({}, {})

DCDataDescriptorMembers ==
  Members({}, {})

PrivateDCDataDescriptorMembers ==
  Members({}, {})

DolbyAtmosSubDescriptorMembers ==
  Members({"AtmosID", "FirstFrame", "MaxChannelCount", "MaxObjectCount", "AtmosVersion"}, {})

ACESPictureSubDescriptorMembers ==
  Members({}, {"ACESAuthoringInformation", "ACESMasteringDisplayPrimaries",
    "ACESMasteringDisplayWhitePointChromaticity", "ACESMasteringDisplayMaximumLuminance",
    "ACESMasteringDisplayMinimumLuminance"})

TargetFrameSubDescriptorMembers ==
  Members({"TargetFrameAncillaryResourceID", "MediaType", "TargetFrameIndex",
    "TargetFrameTransferCharacteristic", "TargetFrameColorPrimaries", "TargetFrameComponentMaxRef",
    "TargetFrameComponentMinRef", "TargetFrameEssenceStreamID"}, {"ACESPictureSubDescriptorInstanceID",
    "TargetFrameViewingEnvironment"})

TextBasedDMFrameworkMembers ==
  Members({}, {"ObjectRef"})

TextBasedObjectMembers ==
  Members({"PayloadSchemeID", "TextMIMEMediaType", "RFC5646TextLanguageCode"}, {"TextDataDescription"})

GenericStreamTextBasedSetMembers ==
  Members({"GenericStreamSID"}, {})

ISXDDataEssenceDescriptorMembers ==
  Members({"NamespaceURI"}, {})

PHDRMetadataTrackSubDescriptorMembers ==
  Members({"DataDefinition", "SourceTrackID", "SimplePayloadSID"}, {})

PIMFDynamicMetadataDescriptorMembers ==
  Members({"GlobalPayloadSID"}, {})

IABEssenceDescriptorMembers ==
  Members({}, {})

IABSoundfieldLabelSubDescriptorMembers ==
  Members({}, {})

JPEGXSPictureSubDescriptorMembers ==
  Members({"JPEGXSPpih", "JPEGXSPlev", "JPEGXSWf", "JPEGXSHf", "JPEGXSNc", "JPEGXSComponentTable"}, {"JPEGXSCw",
    "JPEGXSHsl", "JPEGXSMaximumBitRate"})

(* The declarations by the name of the class.                              *)
Declared ==
  [Preface |-> PrefaceMembers, Identification |-> IdentificationMembers, ContentStorage |->
   ContentStorageMembers, EssenceContainerData |-> EssenceContainerDataMembers, GenericPackage |->
   GenericPackageMembers, MaterialPackage |-> MaterialPackageMembers, SourcePackage |->
   SourcePackageMembers, GenericTrack |-> GenericTrackMembers, StaticTrack |-> StaticTrackMembers, Track |->
   TrackMembers, StructuralComponent |-> StructuralComponentMembers, Sequence |-> SequenceMembers,
   SourceClip |-> SourceClipMembers, TimecodeComponent |-> TimecodeComponentMembers, GenericDescriptor |->
   GenericDescriptorMembers, FileDescriptor |-> FileDescriptorMembers, GenericSoundEssenceDescriptor |->
   GenericSoundEssenceDescriptorMembers, WaveAudioDescriptor |-> WaveAudioDescriptorMembers,
   GenericPictureEssenceDescriptor |-> GenericPictureEssenceDescriptorMembers, RGBAEssenceDescriptor |->
   RGBAEssenceDescriptorMembers, JPEG2000PictureSubDescriptor |-> JPEG2000PictureSubDescriptorMembers,
   CDCIEssenceDescriptor |-> CDCIEssenceDescriptorMembers, MPEG2VideoDescriptor |->
   MPEG2VideoDescriptorMembers, DMSegment |-> DMSegmentMembers, CryptographicFramework |->
   CryptographicFrameworkMembers, CryptographicContext |-> CryptographicContextMembers, DescriptiveFramework
   |-> DescriptiveFrameworkMembers, DescriptiveObject |-> DescriptiveObjectMembers,
   GenericDataEssenceDescriptor |-> GenericDataEssenceDescriptorMembers, TimedTextDescriptor |->
   TimedTextDescriptorMembers, TimedTextResourceSubDescriptor |-> TimedTextResourceSubDescriptorMembers,
   StereoscopicPictureSubDescriptor |-> StereoscopicPictureSubDescriptorMembers,
   ContainerConstraintsSubDescriptor |-> ContainerConstraintsSubDescriptorMembers, NetworkLocator |->
   NetworkLocatorMembers, MCALabelSubDescriptor |-> MCALabelSubDescriptorMembers,
   AudioChannelLabelSubDescriptor |-> AudioChannelLabelSubDescriptorMembers,
   SoundfieldGroupLabelSubDescriptor |-> SoundfieldGroupLabelSubDescriptorMembers,
   GroupOfSoundfieldGroupsLabelSubDescriptor |-> GroupOfSoundfieldGroupsLabelSubDescriptorMembers,
   DCDataDescriptor |-> DCDataDescriptorMembers, PrivateDCDataDescriptor |-> PrivateDCDataDescriptorMembers,
   DolbyAtmosSubDescriptor |-> DolbyAtmosSubDescriptorMembers, ACESPictureSubDescriptor |->
   ACESPictureSubDescriptorMembers, TargetFrameSubDescriptor |-> TargetFrameSubDescriptorMembers,
   TextBasedDMFramework |-> TextBasedDMFrameworkMembers, TextBasedObject |-> TextBasedObjectMembers,
   GenericStreamTextBasedSet |-> GenericStreamTextBasedSetMembers, ISXDDataEssenceDescriptor |->
   ISXDDataEssenceDescriptorMembers, PHDRMetadataTrackSubDescriptor |->
   PHDRMetadataTrackSubDescriptorMembers, PIMFDynamicMetadataDescriptor |->
   PIMFDynamicMetadataDescriptorMembers, IABEssenceDescriptor |-> IABEssenceDescriptorMembers,
   IABSoundfieldLabelSubDescriptor |-> IABSoundfieldLabelSubDescriptorMembers, JPEGXSPictureSubDescriptor
   |-> JPEGXSPictureSubDescriptorMembers]

=============================================================================
