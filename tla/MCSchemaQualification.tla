------------------------ MODULE MCSchemaQualification ------------------------
(***************************************************************************)
(* Small schemas for SchemaQualification.                                  *)
(***************************************************************************)
EXTENDS SchemaQualification

LOCAL INSTANCE FiniteSetsExt

CONSTANTS Size,          \* object schemas in a document, at most
          Mixed          \* subschemas in a document of any form, at most

\* A pre-order of a tree: a child follows a node that can have children, and
\* $defs members come before the other children of their parent.
WellFormed(s) ==
  /\ s[1].depth = 0 /\ s[1].via = "evaluating"
  /\ \A i \in 2..Len(s) :
       /\ s[i].depth \in 1..(s[i - 1].depth + 1)
       /\ s[i].depth > s[i - 1].depth => s[i - 1].form = "object"
       /\ \A j \in 2..(i - 1) :
            s[j].depth = s[i].depth /\ s[i].via = "$defs"
            /\ (\A k \in j..i : s[k].depth >= s[i].depth) => s[j].via = "$defs"

\* An object schema weighs its position, and literals are in definitions.
Trees(n, forms) ==
  LET Shape(depth, via, form) ==
        [i \in 1..n |-> [depth |-> depth[i], via |-> via[i], form |-> form[i]]]
      Weighed(s) == [i \in 1..n |->
        [depth |-> s[i].depth,
         parent |-> IF i = 1 THEN 0 ELSE Max({j \in 1..(i - 1) : s[j].depth < s[i].depth}),
         via |-> s[i].via, form |-> s[i].form,
         weight |-> IF s[i].form = "object" THEN i ELSE 1,
         literals |-> IF s[i].form = "object" /\ s[i].via = "$defs" THEN i - 1 ELSE 0]]
      Depths == {d \in [1..n -> 0..(n - 1)] :
                   d[1] = 0 /\ \A i \in 2..n : d[i] \in 1..(d[i - 1] + 1)}
      Shapes == {Shape(d, v, f) :
                   d \in Depths, v \in [1..n -> {"$defs", "evaluating"}], f \in [1..n -> forms]}
  IN {Weighed(s) : s \in {x \in Shapes : WellFormed(x)}}

\* One subschema more than there may be, all but the root without references.
TooMany == {s \in Trees(Size + 1, {"object", "boolean"}) : \A i \in 2..Len(s) : s[i].form = "boolean"}

SmallSchemas ==
  UNION {Trees(n, {"object"}) : n \in 1..Size} \cup TooMany
  \cup UNION {Trees(n, {"object", "boolean", "invalid", "unsupported"}) : n \in 1..Mixed}
=============================================================================
