----------------------------- MODULE DataClasses -----------------------------
(***************************************************************************)
(* The data classes a publisher declares and the exposure of each action,  *)
(* resource or event to them (src/data-class-catalog.ts,                   *)
(* src/data-exposure.ts and src/manifest-exposure-declarations.ts). A name *)
(* is its sequence of Unicode code points.                                 *)
(***************************************************************************)
EXTENDS Declarations

SQ == INSTANCE SequencesExt

CONSTANTS
  CatalogTexts,    \* the texts catalogs are constructed with
  ClassLists,      \* the lists handed to validateClasses
  Manifests,       \* the manifests whose declarations are validated
  Unpublished      \* no identifiers known yet

VARIABLES
  catalogText,     \* #document of a DataClassCatalog its host holds
  known,           \* #known
  covered,         \* the last list that validateClasses let pass
  accepted         \* the last manifest whose declarations passed

classesOf == <<catalogText, known, covered, accepted>>

Name == Seq(Nat)

IsList(x) == Len(x) \in Nat /\ DOMAIN x = 1..Len(x)

\* What a list of names, a catalog and an exposure can be once they are parsed.
NameList(list) == list \in {Malformed} \cup Seq({Malformed} \cup Name)

CatalogValue(text) ==
  text # Malformed =>
    /\ IsList(text)
    /\ \A i \in DOMAIN text :
         text[i] # Malformed /\ "id" \in DOMAIN text[i] => text[i].id \in {Malformed} \cup Name

ExposureValue(e) ==
  e # Malformed =>
    /\ "classes" \in DOMAIN e => NameList(e.classes)
    /\ "retention" \in DOMAIN e /\ e.retention # Malformed =>
         /\ "max_seconds" \in DOMAIN e.retention => e.retention.max_seconds \in {Malformed} \cup Nat
         /\ "delete_on_grant_end" \in DOMAIN e.retention =>
              e.retention.delete_on_grant_end \in {Malformed} \cup BOOLEAN

ManifestValue(manifest) ==
  /\ CatalogValue(manifest.data_classes)
  /\ DOMAIN manifest.sources = {"resources", "actions", "events"}
  /\ \A kind \in DOMAIN manifest.sources : LET list == manifest.sources[kind] IN
       list # Malformed =>
         /\ IsList(list)
         /\ \A i \in DOMAIN list : "data_exposure" \in DOMAIN list[i] => ExposureValue(list[i].data_exposure)

ASSUME ClassesAssumption ==
  /\ Malformed \notin Nat /\ Malformed \notin BOOLEAN
  /\ \A text \in CatalogTexts : CatalogValue(text)
  /\ \A classes \in ClassLists : NameList(classes)
  /\ \A manifest \in Manifests : ManifestValue(manifest)
-----------------------------------------------------------------------------
(***************************************************************************)
(* DataClassCatalog                                                        *)
(***************************************************************************)
Lexicographic(left, right) ==
  \/ SQ!IsStrictPrefix(left, right)
  \/ \E i \in DOMAIN left \cap DOMAIN right :
       left[i] < right[i] /\ \A j \in 1..(i - 1) : left[j] = right[j]

Utf16(point) ==
  IF point < 65536 THEN <<point>>
  ELSE <<55296 + (point - 65536) \div 1024, 56320 + ((point - 65536) % 1024)>>

\* Mutation of Before: the order of JavaScript strings.
Before_Utf16(left, right) ==
  Lexicographic(SQ!FlattenSeq([i \in DOMAIN left |-> Utf16(left[i])]),
                SQ!FlattenSeq([i \in DOMAIN right |-> Utf16(right[i])]))

\* Names are compared by code points.
Before(left, right) == Lexicographic(left, right)

\* Neighbours only: the rest follows.
Ordered(names) ==
  /\ \A i \in DOMAIN names : names[i] # Malformed
  /\ \A i \in DOMAIN names : i > 1 => Before(names[i - 1], names[i])

EntryError(entry) ==
  LET fields == FieldsError(entry, {"id", "classification", "label", "description"},
                            "invalid_data_classes", "unsupported_data_classes") IN
  IF fields # "none" THEN fields
  ELSE IF /\ Texts(entry, {"id", "label", "description"})
          /\ entry.classification \in {"public", "private", "sensitive", "credential"}
       THEN "none"
       ELSE "invalid_data_classes"

ClassIds(text) == [i \in DOMAIN text |-> text[i].id]

\* The text parses to an array, every entry is whole, and they are in order.
CatalogError(text) ==
  IF text = Malformed THEN "invalid_data_classes"
  ELSE LET errors == [i \in DOMAIN text |-> EntryError(text[i])]
           first == FirstError([i \in DOMAIN text |-> <<errors[i] # "none", errors[i]>>]) IN
       IF first # "none" THEN first
       ELSE IF Ordered(ClassIds(text)) THEN "none" ELSE "invalid_data_classes"

Names(text) == {text[i].id : i \in DOMAIN text}

\* A list of classes is in order too, and names nothing unknown.
ClassesError(names, classes) ==
  IF classes # Malformed /\ Ordered(classes) /\ (\A i \in DOMAIN classes : classes[i] \in names)
  THEN "none" ELSE "invalid_data_exposure"

CatalogInit ==
  /\ catalogText \in CatalogTexts
  /\ known = Unpublished /\ covered = <<>> /\ accepted = Unpublished

\* Mutation of Publish: the names are published before their order is known.
Publish_Unordered ==
  /\ known = Unpublished =>
       catalogText # Malformed /\ \A i \in DOMAIN catalogText : EntryError(catalogText[i]) = "none"
  /\ known' = IF known = Unpublished THEN Names(catalogText) ELSE known

\* Identifiers are published after the whole catalog has passed.
Publish ==
  /\ known = Unpublished => CatalogError(catalogText) = "none"
  /\ known' = IF known = Unpublished THEN Names(catalogText) ELSE known

\* validate()
ValidateCatalog == Publish /\ UNCHANGED <<catalogText, covered, accepted>>

\* validateClasses() publishes on its way, also when the list is refused.
ValidateClasses(classes) ==
  /\ Publish
  /\ covered' = IF ClassesError(known', classes) = "none" THEN classes ELSE covered
  /\ UNCHANGED <<catalogText, accepted>>

-----------------------------------------------------------------------------
(***************************************************************************)
(* DataExposure                                                            *)
(***************************************************************************)
RedactionError(redaction) ==
  IF redaction = Malformed \/ "mode" \notin DOMAIN redaction THEN "invalid_data_exposure"
  ELSE IF redaction.mode = "none" THEN FirstError(<<
    <<DOMAIN redaction \cap {"policy_id", "summary"} # {}, "invalid_data_exposure">>,
    <<DOMAIN redaction # {"mode"}, "unsupported_data_exposure">> >>)
  ELSE IF redaction.mode = "policy" THEN
    LET fields == FieldsError(redaction, {"mode", "policy_id", "summary"},
                              "invalid_data_exposure", "unsupported_data_exposure") IN
    IF fields = "none" /\ ~ Texts(redaction, {"policy_id", "summary"})
    THEN "invalid_data_exposure" ELSE fields
  ELSE "invalid_data_exposure"

\* Mutation of RetentionFields: every retention is taken for a bounded one.
RetentionFields_Bounded(retention) == {"mode", "max_seconds", "delete_on_grant_end"}

RetentionFields(retention) ==
  IF retention.mode = "transient" THEN {"mode", "delete_on_grant_end"}
  ELSE {"mode", "max_seconds", "delete_on_grant_end"}

RetentionError(retention) ==
  IF retention = Malformed \/ "mode" \notin DOMAIN retention THEN "invalid_data_exposure"
  ELSE IF retention.mode = "user_managed" THEN
    IF DOMAIN retention = {"mode"} THEN "none" ELSE "invalid_data_exposure"
  ELSE IF retention.mode \in {"transient", "bounded"} THEN
    LET fields == FieldsError(retention, RetentionFields(retention),
                              "invalid_data_exposure", "unsupported_data_exposure") IN
    IF retention.mode = "transient" /\ "max_seconds" \in DOMAIN retention THEN "invalid_data_exposure"
    ELSE IF fields # "none" THEN fields
    ELSE IF retention.mode = "bounded" /\ (retention.max_seconds = Malformed \/ retention.max_seconds = 0)
      THEN "invalid_data_exposure"
    ELSE IF retention.delete_on_grant_end = Malformed THEN "invalid_data_exposure"
    ELSE "none"
  ELSE "invalid_data_exposure"

\* The class list is checked against the catalog before the rest is read.
ExposureError(names, exposure) ==
  LET fields == FieldsError(exposure, {"classes", "redaction", "retention"},
                            "invalid_data_exposure", "unsupported_data_exposure") IN
  IF fields # "none" THEN fields
  ELSE FirstError(<<
    <<ClassesError(names, exposure.classes) # "none", "invalid_data_exposure">>,
    <<RedactionError(exposure.redaction) # "none", RedactionError(exposure.redaction)>>,
    <<RetentionError(exposure.retention) # "none", RetentionError(exposure.retention)>> >>)
-----------------------------------------------------------------------------
(***************************************************************************)
(* ManifestExposureDeclarations, over a catalog of its own. A manifest is  *)
(* its catalog and its sources by kind; a source has an exposure or none.  *)
(***************************************************************************)
Kinds == <<"resources", "actions", "events">>

\* Mutation of SourceError: an identifier is looked for among neighbours only.
SourceError_Neighbour(names, list, i) ==
  FirstError(<<
    <<list[i].id = Malformed \/ (i > 1 /\ list[i - 1].id = list[i].id), "invalid_manifest_exposure">>,
    <<"data_exposure" \notin DOMAIN list[i], "invalid_manifest_exposure">>,
    <<"data_exposure" \in DOMAIN list[i] /\ ExposureError(names, list[i].data_exposure) # "none",
      "invalid_data_exposure">> >>)

SourceError(names, list, i) ==
  FirstError(<<
    <<list[i].id = Malformed \/ (\E j \in 1..(i - 1) : list[j].id = list[i].id), "invalid_manifest_exposure">>,
    <<"data_exposure" \notin DOMAIN list[i], "invalid_manifest_exposure">>,
    <<"data_exposure" \in DOMAIN list[i] /\ ExposureError(names, list[i].data_exposure) # "none",
      "invalid_data_exposure">> >>)

ListError(names, list) ==
  IF list = Malformed THEN "invalid_manifest_exposure"
  ELSE FirstError([i \in DOMAIN list |->
         <<SourceError(names, list, i) # "none", SourceError(names, list, i)>>])

ManifestExposureError(manifest) ==
  IF manifest.data_classes = Malformed THEN "invalid_manifest_exposure"
  ELSE IF CatalogError(manifest.data_classes) # "none" THEN CatalogError(manifest.data_classes)
  ELSE LET names == Names(manifest.data_classes)
           Error(kind) == ListError(names, manifest.sources[kind]) IN
       FirstError([k \in DOMAIN Kinds |-> <<Error(Kinds[k]) # "none", Error(Kinds[k])>>])

ValidateManifest(manifest) ==
  /\ ManifestExposureError(manifest) = "none"
  /\ accepted' = manifest
  /\ UNCHANGED <<catalogText, known, covered>>

PublishingNext == ValidateCatalog \/ \E classes \in ClassLists : ValidateClasses(classes)

ManifestNext == \E manifest \in Manifests : ValidateManifest(manifest)

ClassesSpec == CatalogInit /\ [][PublishingNext \/ ManifestNext]_classesOf
-----------------------------------------------------------------------------
(***************************************************************************)
(* What these are to be: the order of the names as UTF-8 texts, and the    *)
(* declared type of an exposure (ActionExposure of the authoring types).   *)
(***************************************************************************)
Utf8(point) ==
  IF point < 128 THEN <<point>>
  ELSE IF point < 2048 THEN <<192 + point \div 64, 128 + (point % 64)>>
  ELSE IF point < 65536 THEN <<224 + point \div 4096, 128 + ((point \div 64) % 64), 128 + (point % 64)>>
  ELSE <<240 + point \div 262144, 128 + ((point \div 4096) % 64), 128 + ((point \div 64) % 64),
         128 + (point % 64)>>

Bytes(name) == SQ!FlattenSeq([i \in DOMAIN name |-> Utf8(name[i])])

Sorted(names) ==
  /\ \A i \in DOMAIN names : names[i] # Malformed
  /\ \A i, j \in DOMAIN names : i < j => Lexicographic(Bytes(names[i]), Bytes(names[j]))

IsRedaction(r) ==
  \/ r.mode = "none" /\ DOMAIN r = {"mode"}
  \/ r.mode = "policy" /\ DOMAIN r = {"mode", "policy_id", "summary"} /\ Texts(r, {"policy_id", "summary"})

IsRetention(r) ==
  \/ r.mode = "user_managed" /\ DOMAIN r = {"mode"}
  \/ r.mode = "transient" /\ DOMAIN r = {"mode", "delete_on_grant_end"}
       /\ r.delete_on_grant_end \in BOOLEAN
  \/ r.mode = "bounded" /\ DOMAIN r = {"mode", "max_seconds", "delete_on_grant_end"}
       /\ r.max_seconds \in Nat \ {0} /\ r.delete_on_grant_end \in BOOLEAN

IsExposure(names, e) ==
  /\ e # Malformed /\ DOMAIN e = {"classes", "redaction", "retention"}
  /\ Malformed \notin {e.classes, e.redaction, e.retention}
  /\ Sorted(e.classes) /\ \A i \in DOMAIN e.classes : e.classes[i] \in names
  /\ {"mode"} \subseteq DOMAIN e.redaction /\ IsRedaction(e.redaction)
  /\ {"mode"} \subseteq DOMAIN e.retention /\ IsRetention(e.retention)

\* A catalog as it should be: whole entries, sorted without repetition.
WholeCatalog(text) ==
  /\ text # Malformed
  /\ \A i \in DOMAIN text : EntryError(text[i]) = "none"
  /\ Sorted(ClassIds(text))

\* Whoever reads an accepted manifest finds each source once, with an exposure to
\* classes the manifest declares.
ManifestCovered ==
  accepted # Unpublished =>
    /\ WholeCatalog(accepted.data_classes)
    /\ \A kind \in DOMAIN accepted.sources : LET list == accepted.sources[kind] IN
         \A i \in DOMAIN list :
           /\ IsExposure(Names(accepted.data_classes), list[i].data_exposure)
           /\ \A j \in DOMAIN list : list[j].id = list[i].id => j = i

\* What a catalog publishes is all of a whole catalog, sorted as bytes, however
\* often it was asked before; and what it lets pass is sorted too and declared.
CatalogIsWhole ==
  /\ known # Unpublished => WholeCatalog(catalogText) /\ known = Names(catalogText)
  /\ ManifestCovered
  /\ covered # <<>> => Sorted(covered) /\ \A i \in DOMAIN covered : covered[i] \in Names(catalogText)
=============================================================================
