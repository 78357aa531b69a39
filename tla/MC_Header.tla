----------------------------- MODULE MC_Header -----------------------------
(***************************************************************************)
(* Files for HeaderMetadata: every writer, plain, encrypted and with       *)
(* integrity packs; every class as descriptor or sub-descriptor, with none, *)
(* all, or one of the optional members.                                    *)
(***************************************************************************)
EXTENDS HeaderMetadata

PackageClasses ==
  {"Preface", "Identification", "ContentStorage", "EssenceContainerData", "MaterialPackage", "SourcePackage",
   "StaticTrack", "Track", "Sequence", "SourceClip", "TimecodeComponent", "DMSegment", "CryptographicFramework",
   "CryptographicContext", "TextBasedDMFramework", "GenericStreamTextBasedSet", "PHDRMetadataTrackSubDescriptor"}

IsDescriptor(c) == "FileDescriptor" \in Ancestors[c]
DescriptorClasses == {c \in Registered \ PackageClasses : IsDescriptor(c)}
SubClasses == {c \in Registered \ PackageClasses : ~IsDescriptor(c)}

File(writer, encrypted, hmac, d, s, given, conforms) ==
  [writer |-> writer, asset |-> 1, encrypted |-> encrypted, hmac |-> hmac, descriptor |-> d, sub |-> s,
   given |-> given, conforms |-> conforms]

(* Each class with none, one and all of its optional members.              *)
Givens(c) == {{}, Optional(c)} \cup {{m} : m \in Optional(c)}
AnyDescriptor ==
  {File("ASDCP", FALSE, FALSE, d, "JPEG2000PictureSubDescriptor", g, FALSE) :
     <<d, g>> \in UNION {{c} \X Givens(c) : c \in DescriptorClasses}}
AnySub ==
  {File("ASDCP", FALSE, FALSE, "CDCIEssenceDescriptor", s, g, FALSE) :
     <<s, g>> \in UNION {{c} \X Givens(c) : c \in SubClasses}}

(* Each writer with each kind of protection; the AS-02 writers can be      *)
(* given a list of specifications the file conforms to.                    *)
AnyWriter ==
  {File(w[1], k # "plain", k = "hmac", "RGBAEssenceDescriptor", "ACESPictureSubDescriptor", g, w[2]) :
     <<w, k, g>> \in {<<"ASDCP", FALSE>>, <<"AS02", FALSE>>, <<"AS02", TRUE>>, <<"PHDR", FALSE>>}
                      \X {"plain", "crypt", "hmac"} \X {{}, Optional("RGBAEssenceDescriptor")}}

(* Two files for one reader object.                                        *)
TwoConfs ==
  {[File("ASDCP", e, FALSE, "CDCIEssenceDescriptor", "JPEG2000PictureSubDescriptor", {}, FALSE) EXCEPT !.asset = a] :
     <<a, e>> \in {1, 2} \X BOOLEAN}

(* Every file first, and one more after it.                                *)
AllConfs == AnyDescriptor \cup AnySub \cup AnyWriter \cup {c \in TwoConfs : c.asset = 2 /\ c.encrypted}

=============================================================================
