------------------------------ MODULE MCAuthoring ------------------------------
(***************************************************************************)
(* Instances of Authoring for TLC. The resource sets, inventories          *)
(* and catalogs of a host do not depend on each other, so that a behaviour *)
(* looks at one of them (focus). The limits are small enough for three     *)
(* documents, or two actions, to pass each of them in total while each one *)
(* keeps it.                                                               *)
(***************************************************************************)
EXTENDS Authoring, TLC

LOCAL SE == INSTANCE SequencesExt

CONSTANT Longest   \* bound of the lists of any resources

VARIABLE focus

Merge(f, g) == f @@ g
-----------------------------------------------------------------------------
(***************************************************************************)
(* Resource sets                                                           *)
(***************************************************************************)
AllUris == {Derived(b, id, d) : b \in {"B1", "B2"}, id \in {"a", "b"}, d \in {"input", "output"}}
U1 == Derived("B1", "a", "input")
U2 == Derived("B1", "a", "output")
U3 == Derived("B2", "a", "input")

Plain ==
  [form |-> "schema", id |-> {}, bytes |-> 4, qualification |-> "none",
   nodes |-> 4, references |-> 1, weight |-> 44, compiles |-> TRUE, hash |-> <<"h1">>]

\* Documents that are sound by themselves, and one for each way not to be.
SoundDocuments ==
  {Plain, [Plain EXCEPT !.bytes = 8, !.nodes = 8, !.references = 0, !.weight = 64, !.hash = <<"h2">>]}
DefectiveDocuments ==
  {[Plain EXCEPT !.bytes = 9],
   [Plain EXCEPT !.form = "foreign"],
   [Plain EXCEPT !.form = "schema_dialect_unsupported"],
   [Plain EXCEPT !.qualification = "schema_reference_cycle"],
   [Plain EXCEPT !.compiles = FALSE]}

Entry(uris, documents) == [uri : uris, document : documents]

\* A document that names itself may be listed under its name or another one.
Named == [form |-> "schema", id |-> {U1}, bytes |-> 4, qualification |-> "none",
          nodes |-> 4, references |-> 1, weight |-> 44, compiles |-> TRUE, hash |-> <<"h1">>]
Entries ==
  Entry({U1, U2, U3}, SoundDocuments)
    \cup Entry({U1}, DefectiveDocuments) \cup Entry({<<"not a uri">>}, {Plain})
    \cup Entry({U1, U2}, {Named})

\* Every short list, and longer ones to pass the limits in total and on the count.
AllLists ==
  UNION {[1..n -> Entries] : n \in 0..Longest}
    \cup [1..3 -> Entry({U1, U2, U3}, SoundDocuments)]
    \cup {[i \in 1..n |-> [uri |-> U1, document |-> Plain]] : n \in 5..6}

OtherLists == {<<>>, <<[uri |-> U1, document |-> [Plain EXCEPT !.hash = <<"h2">>]]>>}

Instance == [form |-> "json", bytes |-> 1, nodes |-> 1, depth |-> 0, text |-> 0]

\* Around each limit: with the work bound 200 and the weights 44 and 64, four
\* and three units are affordable.
SomeInstances ==
  {[Instance EXCEPT !.nodes = n, !.text = t] : n \in 1..3, t \in 0..4}
    \cup {[Instance EXCEPT !.nodes = 6], [Instance EXCEPT !.depth = 4], [Instance EXCEPT !.bytes = 3],
          [Instance EXCEPT !.form = "foreign"], [Instance EXCEPT !.form = "duplicate_json_member"]}
-----------------------------------------------------------------------------
(***************************************************************************)
(* Catalogs and exposures                                                  *)
(***************************************************************************)
\* UTF-16 puts the last one before the third, code points do not.
C1 == <<97>>
C2 == <<97, 98>>
C3 == <<65281>>
C4 == <<128512>>

ClassEntry(id) ==
  [id |-> id, classification |-> "private", label |-> "text", description |-> "text"]
Extended(record, member) == Merge(record, (member :> "text"))
Without(record, member) == [f \in DOMAIN record \ {member} |-> record[f]]

AllCatalogs ==
  {[i \in DOMAIN ids |-> ClassEntry(ids[i])] :
     ids \in UNION {[1..n -> {C1, C2, C3, C4, Malformed}] : n \in 0..2} \cup {<<C1, C2, C4>>, <<C2, C1, C3>>}}
    \cup {<<ClassEntry(C1), e>> :
            e \in {Malformed, Without(ClassEntry(C2), "label"), Extended(ClassEntry(C2), "other"),
                   [ClassEntry(C2) EXCEPT !.classification = "secret"],
                   [ClassEntry(C2) EXCEPT !.description = Malformed]}}
    \cup {Malformed}

AllClassLists == UNION {[1..n -> {C1, C2, C3, C4, Malformed}] : n \in 0..2} \cup {Malformed}

\* A record with some of the members, each with one of the values.
Records(members, values) == UNION {[fields -> values] : fields \in SUBSET members}

Redactions ==
  {Malformed, <<>>}
    \cup {Merge([mode |-> m], r) : m \in {"none", "policy", "other", Malformed},
            r \in Records({"policy_id", "summary"}, {"text", Malformed}) \cup {[other |-> "text"]}}
    \cup {[mode |-> "policy", policy_id |-> "text", summary |-> "text", other |-> "text"]}

Retentions ==
  {Malformed, <<>>}
    \cup {Merge(Merge([mode |-> m], s), d) : m \in {"user_managed", "transient", "bounded", "other"},
            s \in {<<>>} \cup [{"max_seconds"} -> {0, 1, Malformed}],
            d \in {<<>>} \cup [{"delete_on_grant_end"} -> {TRUE, FALSE, Malformed}]}
    \cup {[mode |-> "transient", delete_on_grant_end |-> TRUE, other |-> "text"]}

Exposure ==
  [classes |-> <<C1, C3>>, redaction |-> [mode |-> "none"], retention |-> [mode |-> "user_managed"]]

Exposures ==
  {[Exposure EXCEPT !.redaction = r] : r \in Redactions}
    \cup {[Exposure EXCEPT !.retention = r] : r \in Retentions}
    \cup {[Exposure EXCEPT !.classes = c] : c \in {<<>>, <<C3, C1>>, <<C1, C1>>, <<C2>>, Malformed, <<C3, C4>>}}
    \cup {Malformed, Without(Exposure, "retention"), Extended(Exposure, "other")}
SourcesOf(lists) == {[id |-> id, data_exposure |-> e] : id \in {"s", "t"}, e \in lists}
Odd == {[id |-> Malformed, data_exposure |-> Exposure], [id |-> "s"],
        [id |-> "s", data_exposure |-> [Exposure EXCEPT !.classes = <<C2>>]]}

\* One kind of source varies, the others are empty.
ManifestOf(classes, kind, list) ==
  [data_classes |-> classes,
   sources |-> [k \in {"resources", "actions", "events"} |-> IF k = kind THEN list ELSE <<>>]]

AllManifests ==
  {ManifestOf([i \in 1..2 |-> ClassEntry(<<C1, C3>>[i])], kind, list) :
     kind \in {"resources", "actions", "events"},
     list \in UNION {[1..n -> SourcesOf({Exposure})] : n \in 0..3} \cup [1..1 -> SourcesOf(Exposures) \cup Odd]
                \cup {Malformed}}
    \cup {ManifestOf(classes, "events", <<[id |-> "s", data_exposure |-> Exposure]>>) : classes \in AllCatalogs}

-----------------------------------------------------------------------------
(***************************************************************************)
(* TypeBox schemas and documents                                           *)
(***************************************************************************)
Number == [kind |-> "Number", type |-> "number"]
String == [kind |-> "String", type |-> "string"]
LiteralOf(text) == [kind |-> "Literal", type |-> "string", const |-> text]
UnionOf(members) == [kind |-> "Union", anyOf |-> members]
Closed(properties, required) ==
  [kind |-> "Object", type |-> "object", additionalProperties |-> JsonFalse,
   properties |-> properties, required |-> required]
NoProperties == Without(Closed(<<>>, <<>>), "required")
Only(schema) == Closed([x |-> schema], <<"x">>)

Leaves ==
  {Number, String, LiteralOf("s"), UnionOf(<<LiteralOf("s"), LiteralOf("t")>>),
   Merge(UnionOf(<<LiteralOf("t"), LiteralOf("s")>>), [type |-> "string"])}

SoundSchemas ==
  {Only(s) : s \in Leaves} \cup {NoProperties, Closed(<<>>, <<>>), Only(NoProperties),
   Closed([x |-> Number, y |-> LiteralOf("s")], <<"y", "x">>), Only(Only(Number)),
   Closed([x |-> UnionOf(<<LiteralOf("s"), LiteralOf("t")>>), y |-> Number], <<"x", "y">>)}

\* Each of these is refused, for its form or for its size.
OtherSchemas ==
  {Only(s) : s \in
     {Malformed, Extended(Number, "title"), [Number EXCEPT !.type = "string"],
      [kind |-> "Array", type |-> "array"], LiteralOf(Malformed),
      UnionOf(<<LiteralOf("s")>>), UnionOf(<<LiteralOf("s"), LiteralOf("s")>>),
      UnionOf(<<LiteralOf("s"), LiteralOf("t"), LiteralOf("u")>>), UnionOf(<<LiteralOf("s"), String>>),
      UnionOf(Malformed), Merge(UnionOf(<<LiteralOf("s"), LiteralOf("t")>>), [type |-> "number"]),
      Only(Only(Number)), Only(UnionOf(<<LiteralOf("s"), LiteralOf("t")>>))}}
    \cup {Malformed, Number, Closed([x |-> Number], <<>>), Closed([x |-> Number], <<"x", "x">>),
          Closed([x |-> Number], <<"y">>), Closed([x |-> Number], Malformed),
          Without(Only(Number), "required"), Without(Only(Number), "properties"),
          [Only(Number) EXCEPT !.additionalProperties = JsonBoolean(TRUE)], [Only(Number) EXCEPT !.properties = Malformed],
          Closed([x |-> UnionOf(<<LiteralOf("s"), LiteralOf("t")>>), y |-> Number, z |-> Number], <<"x", "y", "z">>),
          Closed([x |-> NoProperties, y |-> NoProperties], <<"x", "y">>)}

Json(type, of) == [type |-> type, of |-> of]
TextOf(t) == Json("string", t)
One == Json("number", "1")
Nothing == Json("null", Null)
EmptyObject == Json("object", <<>>)
ListOfValues(list) == Json("array", list)

InnerValues ==
  {TextOf("s"), TextOf("t"), TextOf("u"), One, Nothing, EmptyObject}
    \cup {ListOfValues(l) : l \in {<<>>, <<TextOf("s")>>, <<One>>, <<TextOf("s"), TextOf("t")>>,
                                  <<TextOf("t"), One>>, <<TextOf("u"), TextOf("s")>>}}
JsonValues ==
  {TextOf("s"), One, EmptyObject, ListOfValues(<<>>)}
    \cup {Json("object", [x |-> v]) : v \in InnerValues \cup {Json("object", [x |-> One])}}
    \cup {Json("object", [y |-> TextOf("s")])}
    \cup {Json("object", [x |-> v, y |-> w]) : v \in {TextOf("s"), TextOf("t"), One}, w \in {TextOf("s"), One}}

\* The values in it, how deep they are, and the length of its texts and keys, all
\* of them one.
RECURSIVE Measure(_)
Measure(value) ==
  LET within == IF value.type \in {"object", "array"} THEN DOMAIN value.of ELSE {}
      own == IF value.type = "string" THEN 1 ELSE IF value.type = "object" THEN Cardinality(within) ELSE 0 IN
  [nodes |-> 1 + SumOf(LAMBDA n : Measure(value.of[n]).nodes, within),
   text |-> own + SumOf(LAMBDA n : Measure(value.of[n]).text, within),
   depth |-> IF within = {} THEN 0 ELSE 1 + FSX!Max({Measure(value.of[n]).depth : n \in within})]

SampleOf(v) == Merge(Measure(v), [form |-> "json", bytes |-> 1, value |-> v])

AllSamples ==
  {SampleOf(v) : v \in JsonValues}
    \cup {[SampleOf(One) EXCEPT !.form = "foreign"], [SampleOf(TextOf("s")) EXCEPT !.text = 90]}
-----------------------------------------------------------------------------
(***************************************************************************)
(* Developers' objects                                                     *)
(***************************************************************************)
MemberOf(key, value) == [key |-> key, value |-> value]
ObjectOf(form, members) == [array |-> FALSE, form |-> form, length |-> 0, members |-> members]
ArrayOf(form, length, members) == [array |-> TRUE, form |-> form, length |-> length, members |-> members]
HeapOf(root, other) ==
  [o \in {"root", "other"} |-> IF o = "root" THEN ObjectOf("plain", root) ELSE other]

Values ==
  {Object("root"), Object("other"), Text(0), Text(2)}
    \cup {[kind |-> k, of |-> 0] : k \in {"other", "number", "handler", "unfit"}}
MemberLists(n) == UNION {[1..k -> {MemberOf(1, v) : v \in Values}] : k \in 0..n}

\* A loose array may have holes, or other keys.
Others ==
  UNION {{ObjectOf(form, m) : form \in {"plain", "loose", "unfit"}}
           \cup {ArrayOf("plain", Len(m), m)} \cup {ArrayOf("loose", n, m) : n \in {0, Len(m) + 1, 3}} :
         m \in MemberLists(1) \cup {<<MemberOf(1, Text(0)), MemberOf(0, Text(0))>>}}

Heaps == {HeapOf(root, other) : root \in MemberLists(2), other \in Others}

SmallHeap == HeapOf(<<MemberOf(1, Text(2))>>, ObjectOf("plain", <<>>))
LooseHeap == HeapOf(<<MemberOf(1, Object("other"))>>, ObjectOf("loose", <<>>))
CyclicHeap == HeapOf(<<MemberOf(1, Object("root"))>>, ObjectOf("plain", <<>>))

Action(id, input, output) ==
  [form |-> "none", id |-> id, metadata |-> "none", exposure |-> Exposure, input |-> input, output |-> output]

Sound1 == Action("a", Only(Number), NoProperties)

Declarations1 ==
  {Action("a", s, Only(String)) : s \in SoundSchemas \cup OtherSchemas}
    \cup {Action("a", Only(Number), s) : s \in SoundSchemas \cup OtherSchemas}
    \cup {[Sound1 EXCEPT !.exposure = e] : e \in Exposures}
    \cup {[Sound1 EXCEPT !.form = "invalid_action_declaration"], [Sound1 EXCEPT !.id = Malformed],
          [Sound1 EXCEPT !.metadata = "unsupported_execution_metadata"]}

Second ==
  {Action(id, s, t) : id \in {"a", "b"}, s, t \in {NoProperties, Only(Number), Only(UnionOf(<<LiteralOf("s"), LiteralOf("t")>>))}}
    \cup {[Action("b", NoProperties, NoProperties) EXCEPT !.metadata = "unsupported_action_metadata"]}

SourceOf(classes, heap, list) == [classes |-> classes, heap |-> heap, list |-> list]
Catalog == [i \in 1..3 |-> ClassEntry(<<C1, C3, C4>>[i])]

Idle == SourceOf(<<>>, SmallHeap, <<>>)
OtherSources == {SourceOf(Catalog, SmallHeap, <<Action("a", NoProperties, Only(Number))>>)}

AllSources ==
  {SourceOf(Catalog, SmallHeap, list) :
     list \in {<<>>} \cup {<<d>> : d \in Declarations1} \cup (Second \X Second)
               \cup {<<Sound1, Action("b", NoProperties, NoProperties), Sound1>>}}
    \cup {SourceOf(<<>>, heap, <<>>) : heap \in Heaps}
    \cup {SourceOf(Catalog, heap, <<Sound1>>) : heap \in {LooseHeap, CyclicHeap}}
    \cup {SourceOf(classes, SmallHeap, <<Sound1>>) : classes \in AllCatalogs}
    \cup OtherSources \cup {Idle}

\* What only the prototype takes: open requirements, lists, definitions with
\* references to them, and anything at all.
ListOf(schema) == [kind |-> "Array", type |-> "array", items |-> schema]
TupleOf(first, rest) == [kind |-> "Tuple", type |-> "array", prefixItems |-> first, items |-> rest]
Unions == UnionOf(<<LiteralOf("s"), LiteralOf("t")>>)
Unsafe == [Unions EXCEPT !.kind = "Unsafe"]
OneLiteral == UnionOf(<<LiteralOf("s")>>)
Open == [NoProperties EXCEPT !.additionalProperties = JsonBoolean(TRUE)]
Ref(path) == Merge([kind |-> "Ref"], ("$ref" :> path))
ToDefinition == Only(Ref(<<"$defs", "u">>))
Defining(schema, u) == Merge(schema, ("$defs" :> [u |-> u]))
Additional(schema) == [kind |-> "Unsafe", additionalProperties |-> schema]
Hiding(schema, members) == Merge(schema, [hidden |-> members])

PlainlyCatalogued ==
  {Closed([x |-> Number], <<>>), Without(Only(Number), "required"), Only(ListOf(Unions)), Only(ListOf(Number)),
   Only(Extended(Number, "title")), Only([kind |-> "Unknown"]), Only(ListOf(NoProperties)), Only(Unions),
   Only(TupleOf(<<Unions>>, JsonFalse)), Only(TupleOf(<<Number>>, Unions)), Only(Without(TupleOf(<<Unions, Number>>, Unions), "items")),
   Defining(ToDefinition, Unions), Defining(Only(ListOf(Ref(<<"$defs", "u">>))), Unions), Defining(Only(Number), Unions),
   Closed([x |-> Unions, y |-> Ref(<<"properties", "x">>)], <<"x", "y">>), Only([kind |-> "Unsafe", const |-> Null])}

\* What these hide, or what JSON has no form for, is lost on the way.
LooselyCatalogued ==
  {Hiding(Only(Number), {<<"additionalProperties">>}), Hiding(Only(Unions), {<<"required">>}),
   Only(ListOf(Hiding(NoProperties, {<<"additionalProperties">>}))), Only(Hiding(Extended(Number, "title"), {<<"title">>})),
   Hiding(Closed([x |-> Number, y |-> Number], <<"x">>), {<<"properties", "y">>}), Only(Hiding(Unions, {<<"anyOf">>})),
   Only([kind |-> "Unsafe", const |-> Unwritable]), Only([kind |-> "Unsafe", enum |-> <<Null, Unwritable>>])}

\* Each of these is refused, by the prototype, the qualification or the engine.
NotCatalogued ==
  {Only(Unsafe), Only(ListOf(Unsafe)), Only(ListOf(OneLiteral)), Only(TupleOf(<<OneLiteral>>, JsonFalse)),
   Defining(Only(Number), OneLiteral), Only(Additional(OneLiteral)), Only(Additional(Unions)),
   Only(ListOf(ListOf(ListOf(Number)))), Closed([x |-> NoProperties, y |-> NoProperties, z |-> Number], <<>>),
   Only(ListOf(Open)), Only(TupleOf(<<Open>>, JsonFalse)), Defining(Only(Number), Open), Only(Additional(Open)),
   Only(Extended(Number, "pattern")), Only(Extended(Unions, "title")), Only(ListOf(Malformed)), Defining(Only(Number), Malformed),
   ToDefinition, Only(Ref(<<"properties", "x">>)), Only(Ref(<<>>)), Only(Ref(Malformed)),
   Merge(Only(Number), ("$id" :> "text")), Hiding(Merge(Only(Number), ("$schema" :> "text")), {<<"$schema">>}),
   Only(Merge(Number, ("$id" :> "text"))), Hiding(Only(Number), {<<"type">>}), Only(Hiding(Open, {<<"additionalProperties">>}))}

Entries1 ==
  {[heap |-> SmallHeap, declaration |-> d] :
     d \in Declarations1
            \cup {Action("a", s, NoProperties) : s \in PlainlyCatalogued \cup NotCatalogued}
            \cup {Action("a", NoProperties, s) : s \in PlainlyCatalogued \cup NotCatalogued}}
    \cup {[heap |-> LooseHeap, declaration |-> Action("a", s, NoProperties)] : s \in LooselyCatalogued}
    \cup {[heap |-> LooseHeap, declaration |-> Action("a", NoProperties, s)] : s \in LooselyCatalogued}
Entries2 ==
  {Foreign, [heap |-> CyclicHeap, declaration |-> Sound1]}
    \cup {[heap |-> SmallHeap, declaration |-> [Sound1 EXCEPT !.id = id, !.output = s]] :
            id \in {"a", "b"}, s \in {NoProperties, Only(Unions)}}

\* Two of the losses: a closed object is open once it is JSON, and what is no
\* number is null.
LosesWhatIsWritten(schema, value) ==
  LET json == Serialized(LowerUnions(schema)) IN
  /\ LoweringError(schema) = "none" /\ ShapeError(schema) = "none"
  /\ Qualification(json) = "none" /\ Compiles(json)
  /\ Admits(json, value) /\ ~ Admits(schema, value)

ASSUME HiddenMembersAreLost ==
  LosesWhatIsWritten(Hiding(Only(Number), {<<"additionalProperties">>}),
                     Json("object", [x |-> One, y |-> TextOf("s")]))

ASSUME UnwritableLiteralsAreNull ==
  LosesWhatIsWritten(Only([kind |-> "Unsafe", const |-> Unwritable]), Json("object", [x |-> Nothing]))

OfferOf(classes, list) == [classes |-> classes, list |-> list]

SmallOffers == {OfferOf(<<>>, <<>>)}
AllOffers ==
  SmallOffers \cup {OfferOf(Catalog, list) : list \in {<<>>} \cup {<<e>> : e \in Entries1} \cup (Entries2 \X Entries2)}
    \cup {OfferOf(classes, <<[heap |-> SmallHeap, declaration |-> Sound1]>>) : classes \in AllCatalogs}

-----------------------------------------------------------------------------
(***************************************************************************)
(* JSON texts                                                              *)
(***************************************************************************)
Leaf(type, lexeme, v) == [type |-> type, lexeme |-> lexeme, value |-> v, children |-> <<>>]
Node(type, children) == [type |-> type, children |-> children]

\* "a" and an escape of it, "[" and "}" as texts, and numbers.
TextLeaves ==
  {Leaf("string", <<"'", "a", "'">>, "a"), Leaf("string", <<"'", "\\", "a", "'">>, "a"),
   Leaf("string", <<"'", "[", "'">>, "["), Leaf("string", <<"'", "}", "'">>, "}"),
   Leaf("string", <<"'", "?", "'">>, "ill-formed")}
NumberLeaves ==
  {Leaf("number", <<"1">>, "1"), Leaf("number", <<"-", "0">>, "-0"), Leaf("number", <<"9", "e", "9">>, "infinite")}

Containers(keys, nodes, width) ==
  {Node("array", [i \in DOMAIN c |-> [node |-> c[i]]]) : c \in UNION {[1..n -> nodes] : n \in 0..width}}
    \cup {Node("object", c) : c \in UNION {[1..n -> [key : keys, node : nodes]] : n \in 0..width}}

RECURSIVE Tokens(_)
Tokens(node) ==
  LET Inner(c) == IF node.type = "object" THEN <<c.key.lexeme, <<":">>>> \o Tokens(c.node) ELSE Tokens(c.node)
      Rest(c) == <<<<",">>>> \o Inner(c)
      all == SE!FlattenSeq([i \in DOMAIN node.children |->
               IF i = 1 THEN Inner(node.children[1]) ELSE Rest(node.children[i])]) IN
  IF node.type = "object" THEN <<<<"{">>>> \o all \o <<<<"}">>>>
  ELSE IF node.type = "array" THEN <<<<"[">>>> \o all \o <<<<"]">>>>
  ELSE <<node.lexeme>>

Flat == Containers(TextLeaves, {Leaf("number", <<"1">>, "1")}, 2) \cup Containers(TextLeaves, TextLeaves \cup NumberLeaves, 1)
Trees ==
  TextLeaves \cup NumberLeaves \cup Flat \cup Containers({Leaf("string", <<"'", "a", "'">>, "a")}, Flat, 1)

\* What the parser rejects: brackets that do not match, and what is left open.
Unbalanced ==
  {s \in UNION {[1..n -> {<<"{">>, <<"}">>, <<"[">>, <<"]">>, <<"1">>}] : n \in 0..4} :
     \A t \in {<<<<"1">>>>, <<<<"[">>, <<"]">>>>, <<<<"{">>, <<"}">>>>, <<<<"[">>, <<"1">>, <<"]">>>>} : s # t}

EmptyText == [tokens |-> <<>>, tree |-> Malformed]

AllTexts ==
  {[tokens |-> Tokens(t), tree |-> t] : t \in Trees \cup {Node("array", <<[node |-> n]>>) :
      n \in Containers({Leaf("string", <<"'", "[", "'">>, "[")}, Containers(TextLeaves, {}, 0), 2)}}
    \cup {[tokens |-> s, tree |-> Malformed] : s \in Unbalanced} \cup {EmptyText}

SomeNormalBase(spelling) ==
  CASE spelling \in {"b1", "b1/"} -> "B1" [] spelling = "b2" -> "B2" [] OTHER -> Malformed
-----------------------------------------------------------------------------
\* TLC keeps the value of a definition, but not of one that replaces a constant.
SomeUris == AllUris
SomeLists == AllLists
SomeCatalogs == AllCatalogs
SomeClassLists == AllClassLists
SomeManifests == AllManifests
SomeSources == AllSources
SomeSamples == AllSamples
SomeOffers == AllOffers
SomeTexts == AllTexts
SomeHashes == {<<"h1">>, <<"h2">>}

\* The other objects are idle.
MCInit ==
  /\ focus \in {"resources", "inventory", "catalog", "manifest", "prototype", "text"}
  /\ focus # "resources" => listed = <<>>
  /\ focus # "inventory" => source = Idle
  /\ focus # "catalog" => catalogText = <<>>
  /\ focus # "prototype" => offer \in SmallOffers
  /\ focus # "text" => given = EmptyText
  /\ ResourcesInit /\ AuthoringInit /\ CatalogInit /\ OfferInit /\ TextInit

\* Judging a document or a manifest changes nothing else: one ends a behaviour.
MCNext ==
  /\ UNCHANGED focus
  /\ judged = NoInventory /\ checked = NoInventory /\ validation = NotCalled /\ accepted = Unpublished
  /\ \/ focus = "resources" /\ ResourcesNext /\ UNCHANGED <<authored, classesOf, catalogued, parsing>>
     \/ focus = "inventory" /\ AuthoringNext /\ UNCHANGED <<resources, classesOf, catalogued, parsing>>
     \/ focus = "catalog" /\ PublishingNext /\ UNCHANGED <<authored, resources, catalogued, parsing>>
     \/ focus = "manifest" /\ ManifestNext /\ UNCHANGED <<authored, resources, catalogued, parsing>>
     \/ focus = "prototype" /\ CatalogueNext /\ UNCHANGED <<authored, resources, classesOf, parsing>>
     \/ focus = "text" /\ Parse /\ UNCHANGED <<authored, resources, classesOf, catalogued>>

MCSpec == MCInit /\ [][MCNext]_<<authored, resources, classesOf, catalogued, parsing, focus>>
====
