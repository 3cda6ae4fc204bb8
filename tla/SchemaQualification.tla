------------------------- MODULE SchemaQualification -------------------------
(***************************************************************************)
(* SchemaQualification of src/offline-schema-resources.ts: the walk that   *)
(* admits one schema document. It visits the schema tree, resolves local   *)
(* references into edges, rejects cycles by a depth-first search, and      *)
(* bounds the work an evaluation may cost before an engine sees it.        *)
(*                                                                         *)
(* A schema is the sequence of its subschemas in the order #visit reaches  *)
(* them, and a reference for each. Paths and pointers are abstracted to    *)
(* positions in that sequence.                                             *)
(***************************************************************************)
EXTENDS Naturals, Sequences, FiniteSets

CONSTANTS
  Schemas,                                   \* the schema trees to qualify
  MaxNodes, MaxDepth, MaxReferences, MaxLiteralUnits,
  MaxExpansion, MaxEvaluationDepth, MaxWeight

\* A reference is the position of its target; a position past the end is a
\* pointer to nothing that was visited.
NoRef == 0

\* What #visit finds at one location: how deep it is, from which subschema and
\* through which kind of keyword it was reached; "invalid" is neither boolean nor object, and
\* "unsupported" has a keyword, nesting or literal that is always refused.
Item == [depth : Nat, parent : Nat, via : {"$defs", "evaluating"},
         form : {"boolean", "object", "invalid", "unsupported"},
         weight : Nat \ {0}, literals : Nat]

ASSUME ConstantsAssumption ==
  /\ \A s \in Schemas :
       /\ s \in Seq(Item) /\ Len(s) > 0
       /\ \A i \in 1..Len(s) : s[i].depth > 0 => s[i].parent \in 1..(i - 1)
  /\ {MaxNodes, MaxDepth, MaxReferences, MaxLiteralUnits,
      MaxExpansion, MaxEvaluationDepth, MaxWeight} \subseteq Nat
  /\ MaxExpansion > 0    \* one evaluation is one visit

VARIABLES
  schema, ref, \* the document: its subschemas and their $ref; never change
  phase, at,   \* the method that runs and the node it is at
  references, literals,    \* #references, #literalUnits
  edges,       \* SchemaNode.edges of every node
  stack,       \* rejectCycles: the calls of visit, each at its next edge
  complete,    \* rejectCycles: its set of finished nodes
  error,       \* what was thrown
  weight       \* evaluationWeight of the root

vars == <<schema, ref, phase, at, references, literals, edges, stack, complete, error, weight>>

Node == 1..Len(schema)
Active == {stack[i].node : i \in DOMAIN stack}

Phase == {"visit", "resolve", "cycles", "expand", "done", "failed"}

Frame == [node : Node, next : Nat \ {0}]

SearchTypeOK ==
  /\ schema \in Seq(Item)
  /\ ref \in [Node -> 0..(Len(schema) + 1)]
  /\ phase \in Phase
  /\ at \in 1..(Len(schema) + 1)
  /\ references \in Nat /\ literals \in Nat
  /\ edges \in [Node -> Seq(Node)]
  /\ stack \in Seq(Frame)
  /\ complete \in SUBSET Node

Init ==
  /\ schema \in Schemas
  /\ ref \in [Node -> 0..(Len(schema) + 1)]
  /\ \A i \in Node : schema[i].form # "object" => ref[i] = NoRef
  /\ phase = "visit" /\ at = 1
  /\ references = 0 /\ literals = 0
  /\ edges = [i \in Node |-> <<>>]
  /\ stack = <<>> /\ complete = {}
  /\ error = "none" /\ weight = 0

Throw(code) ==
  /\ phase' = "failed"
  /\ error' = code
  /\ UNCHANGED <<schema, ref, at, references, literals, edges, stack, complete, weight>>
-----------------------------------------------------------------------------
(***************************************************************************)
(* #visit: in the order of its checks, one subschema per step.             *)
(***************************************************************************)
\* Mutation of Evaluates: $defs members count as evaluated.
Evaluates_Definitions(i) == schema[i].depth > 0

\* Only a child reached through an applicator keyword is evaluated with its
\* parent; $defs members are visited but get no edge.
Evaluates(i) == schema[i].depth > 0 /\ schema[i].via = "evaluating"

Literals(i) == literals + schema[i].literals
References(i) == references + (IF ref[i] = NoRef THEN 0 ELSE 1)

\* Mutation of VisitError: the node limit admits one node too many.
VisitError_NodeOffByOne(i) ==
  IF schema[i].depth > MaxDepth THEN "schema_depth_limit"
  ELSE IF schema[i].form = "invalid" THEN "schema_invalid"
  ELSE IF i - 1 > MaxNodes THEN "schema_node_limit"
  ELSE IF schema[i].form = "unsupported" THEN "schema_keyword_unsupported"
  ELSE IF Literals(i) > MaxLiteralUnits THEN "schema_assertion_literal_limit"
  ELSE IF References(i) > MaxReferences THEN "schema_reference_limit"
  ELSE "none"

\* The first check that throws; i - 1 nodes were pushed before.
VisitError(i) ==
  IF schema[i].depth > MaxDepth THEN "schema_depth_limit"
  ELSE IF schema[i].form = "invalid" THEN "schema_invalid"
  ELSE IF i - 1 >= MaxNodes THEN "schema_node_limit"
  ELSE IF schema[i].form = "unsupported" THEN "schema_keyword_unsupported"
  ELSE IF Literals(i) > MaxLiteralUnits THEN "schema_assertion_literal_limit"
  ELSE IF References(i) > MaxReferences THEN "schema_reference_limit"
  ELSE "none"

VisitNode ==
  /\ phase = "visit" /\ at <= Len(schema)
  /\ IF VisitError(at) # "none" THEN Throw(VisitError(at))
     ELSE /\ at' = at + 1
          /\ references' = References(at)
          /\ literals' = Literals(at)
          /\ edges' = IF Evaluates(at)
                      THEN [edges EXCEPT ![schema[at].parent] = Append(@, at)]
                      ELSE edges
          /\ UNCHANGED <<schema, ref, phase, stack, complete, error, weight>>

\* One method has gone through all nodes, and the next one starts.
Enter(from, to) ==
  /\ phase = from /\ at > Len(schema)
  /\ phase' = to
  /\ at' = 1
  /\ UNCHANGED <<schema, ref, references, literals, edges, stack, complete, error, weight>>
-----------------------------------------------------------------------------
\* #resolveReferences: the target becomes the last edge of the node.
ResolveReference ==
  /\ phase = "resolve" /\ at <= Len(schema)
  /\ IF ref[at] > Len(schema) THEN Throw("schema_reference_target_unsupported")
     ELSE /\ at' = at + 1
          /\ edges' = IF ref[at] = NoRef THEN edges
                      ELSE [edges EXCEPT ![at] = Append(@, ref[at])]
          /\ UNCHANGED <<schema, ref, phase, references, literals, stack, complete, error, weight>>
-----------------------------------------------------------------------------
(***************************************************************************)
(* #rejectCycles: a depth-first search from every node. The recursion of   *)
(* its visit is the stack; `active` is the set of nodes on it.             *)
(***************************************************************************)
Top == stack[Len(stack)]
AtLastEdge == Top.next > Len(edges[Top.node])
Target == edges[Top.node][Top.next]
Advanced ==
  [stack EXCEPT ![Len(stack)] = [node |-> Top.node, next |-> Top.next + 1]]

\* The loop over #nodes: a node that is complete is skipped.
StartSearch ==
  /\ phase = "cycles" /\ stack = <<>> /\ at <= Len(schema)
  /\ at' = at + 1
  /\ stack' = IF at \in complete THEN <<>> ELSE <<[node |-> at, next |-> 1]>>
  /\ UNCHANGED <<schema, ref, phase, references, literals, edges, complete, error, weight>>

\* Mutations of FollowEdge: one set plays both roles, so that a cycle is
\* skipped; the loop does not move on after a complete target.
FollowEdge_VisitedSkipped ==
  /\ phase = "cycles" /\ stack # <<>> /\ ~ AtLastEdge
  /\ stack' = IF Target \in complete \cup Active THEN Advanced
              ELSE Append(Advanced, [node |-> Target, next |-> 1])
  /\ UNCHANGED <<schema, ref, phase, at, references, literals, edges, complete, error, weight>>

FollowEdge_Stuck ==
  /\ phase = "cycles" /\ stack # <<>> /\ ~ AtLastEdge
  /\ IF Target \in Active THEN Throw("schema_reference_cycle")
     ELSE /\ stack' = IF Target \in complete THEN stack
                      ELSE Append(Advanced, [node |-> Target, next |-> 1])
          /\ UNCHANGED <<schema, ref, phase, at, references, literals, edges, complete, error, weight>>

FollowEdge ==
  /\ phase = "cycles" /\ stack # <<>> /\ ~ AtLastEdge
  /\ IF Target \in Active THEN Throw("schema_reference_cycle")
     ELSE /\ stack' = IF Target \in complete THEN Advanced
                      ELSE Append(Advanced, [node |-> Target, next |-> 1])
          /\ UNCHANGED <<schema, ref, phase, at, references, literals, edges, complete, error, weight>>

FinishNode ==
  /\ phase = "cycles" /\ stack # <<>> /\ AtLastEdge
  /\ complete' = complete \cup {Top.node}
  /\ stack' = SubSeq(stack, 1, Len(stack) - 1)
  /\ UNCHANGED <<schema, ref, phase, at, references, literals, edges, error, weight>>
-----------------------------------------------------------------------------
(***************************************************************************)
(* #expansion: how many evaluations, of which total weight, one evaluation *)
(* of a node may cause, given up as soon as a limit is passed.             *)
(***************************************************************************)
\* Mutation of Overrun: the limit itself is refused.
Overrun_Strict(visits, w) ==
  IF visits >= MaxExpansion THEN "schema_reference_expansion_limit"
  ELSE IF w > MaxWeight THEN "schema_static_work_limit"
  ELSE "none"

Overrun(visits, w) ==
  IF visits > MaxExpansion THEN "schema_reference_expansion_limit"
  ELSE IF w > MaxWeight THEN "schema_static_work_limit"
  ELSE "none"

Alone(n) ==
  [visits |-> 1, weight |-> schema[n].weight,
   error |-> IF schema[n].weight > MaxWeight THEN "schema_static_work_limit" ELSE "none"]

Add(sum, child) ==
  IF sum.error # "none" THEN sum
  ELSE IF child.error # "none" THEN child
  ELSE [visits |-> sum.visits + child.visits,
        weight |-> sum.weight + child.weight,
        error |-> Overrun(sum.visits + child.visits, sum.weight + child.weight)]

\* The loop over the edges of a node: the sum after each of them.
Sums(n, children) ==
  LET sum[k \in 0..Len(edges[n])] ==
        IF k = 0 THEN Alone(n) ELSE Add(sum[k - 1], children[edges[n][k]])
  IN  sum

\* The calls that have so many levels of the evaluation depth left; the call for
\* the root has one level more than the calls it makes.
Calls ==
  LET call[left \in 0..(MaxEvaluationDepth + 1)] ==
        IF left = 0
        THEN [n \in Node |-> [visits |-> 0, weight |-> 0, error |-> "schema_reference_expansion_limit"]]
        ELSE [n \in Node |-> Sums(n, call[left - 1])[Len(edges[n])]]
  IN  call

Expansion(node) == Calls[MaxEvaluationDepth + 1][node]

\* Mutation of Expanded: what the root does not reach is not expanded.
Expanded_RootOnly(n) ==
  IF n = 1 THEN Expansion(n) ELSE [visits |-> 1, weight |-> 1, error |-> "none"]

Expanded(n) == Expansion(n)

ExpandNode ==
  /\ phase = "expand" /\ at <= Len(schema)
  /\ LET e == Expanded(at) IN
     \/ /\ e.error = "none"
        /\ at' = at + 1
        /\ weight' = IF at = 1 THEN e.weight ELSE weight
        /\ UNCHANGED <<schema, ref, phase, references, literals, edges, stack, complete, error>>
     \/ \E code \in {"schema_reference_expansion_limit", "schema_static_work_limit"} :
          e.error = code /\ Throw(code)

Next ==
  \/ VisitNode \/ Enter("visit", "resolve")
  \/ ResolveReference \/ Enter("resolve", "cycles")
  \/ StartSearch \/ FollowEdge \/ FinishNode
  \/ stack = <<>> /\ Enter("cycles", "expand")
  \/ ExpandNode \/ Enter("expand", "done")

Spec == Init /\ [][Next]_vars

\* The qualification is one synchronous call.
FairSpec == Spec /\ WF_vars(Next)
-----------------------------------------------------------------------------
(***************************************************************************)
(* What qualification must establish, stated on the schema itself.         *)
(***************************************************************************)

\* Evaluating node i evaluates node j as its child.
Child(i, j) ==
  schema[j].depth > 0 /\ schema[j].via = "evaluating" /\ schema[j].parent = i

\* How often evaluating node i evaluates node j: as a child, as its reference.
Multiplicity(i, j) ==
  (IF Child(i, j) THEN 1 ELSE 0) + (IF ref[i] = j THEN 1 ELSE 0)

\* The sums of the first k of n amounts, for every k.
SumsOf(n, amount) ==
  LET sum[k \in 0..n] == IF k = 0 THEN 0 ELSE sum[k - 1] + amount[k]
  IN  sum

SumOf(n, amount) == SumsOf(n, amount)[n]

Spread(f, i) == SumOf(Len(schema), [j \in Node |-> Multiplicity(i, j) * f[j]])

\* The number of evaluation paths of length k that start at each node.
Paths ==
  LET paths[k \in 0..Len(schema)] ==
        IF k = 0 THEN [i \in Node |-> 1]
        ELSE LET shorter == paths[k - 1] IN [i \in Node |-> Spread(shorter, i)]
  IN paths

\* Some evaluation path from the node is longer than evaluations may be deep.
TooDeep(i) == \E k \in 0..Len(schema) : k > MaxEvaluationDepth /\ Paths[k][i] > 0

\* Sum of amount over the ends of all evaluation paths of length at most k.
Totals(amount) ==
  LET total[k \in 0..Len(schema)] ==
        IF k = 0 THEN amount
        ELSE LET shorter == total[k - 1] IN [i \in Node |-> amount[i] + Spread(shorter, i)]
  IN total

\* No evaluation path of an admitted schema is longer than it has nodes.
Total(amount) == Totals(amount)[Len(schema)]

Visits == Total([i \in Node |-> 1])
Weights == Total([i \in Node |-> schema[i].weight])

\* A set of nodes each of which evaluates another one of them.
Loops(S) == \A i \in S : \E j \in S : Multiplicity(i, j) > 0
Cyclic == \E S \in SUBSET Node : S # {} /\ Loops(S)

\* No node that passed rejectCycles evaluates itself, and the search reports a
\* cycle only when the schema has one: a shared definition is no cycle, and
\* neither is a definition that refers to its enclosing schema unevaluated.
CyclesFound ==
  /\ phase \in {"expand", "done"} => ~ Cyclic
  /\ error = "schema_reference_cycle" => Cyclic

\* The weight the engine's work is divided by is the weight of everything one
\* evaluation of the root can evaluate, shared definitions counted each time.
WeightIsTotal == phase = "done" => weight = Weights[1]

\* Whatever is admitted stays within every limit, and so does each part of it,
\* reached from the root or not (definitions can be evaluated by no one).
AdmittedWithinLimits ==
  phase = "done" =>
    /\ Len(schema) <= MaxNodes
    /\ Cardinality({i \in Node : ref[i] # NoRef}) <= MaxReferences
    /\ SumOf(Len(schema), [i \in Node |-> schema[i].literals]) <= MaxLiteralUnits
    /\ \A i \in Node :
         /\ schema[i].form \in {"boolean", "object"}
         /\ schema[i].depth <= MaxDepth
         /\ Visits[i] <= MaxExpansion
         /\ Weights[i] <= MaxWeight
         /\ ~ TooDeep(i)

\* The search for an overrun gives up early, on partial sums and part of the
\* way down, but never on a schema that keeps the limits.
RejectionsJustified ==
  /\ error = "schema_static_work_limit" => \E i \in Node : Weights[i] > MaxWeight
  /\ error = "schema_reference_expansion_limit" =>
       \E i \in Node : Visits[i] > MaxExpansion \/ TooDeep(i)

\* The limits admit and reject exactly, however the walk came to its verdict.
LimitsAreExact == AdmittedWithinLimits /\ RejectionsJustified

\* The walk ends, whatever the references look like.
Terminates == <>(phase \in {"done", "failed"})
-----------------------------------------------------------------------------
(***************************************************************************)
(* The inductive invariant behind CyclesFound.                             *)
(***************************************************************************)
Edge(i, j) == \E k \in DOMAIN edges[i] : edges[i][k] = j

\* The edges built so far are exactly the evaluations of the schema.
EdgesBuilt ==
  \A i, j \in Node :
    /\ phase = "visit" => (Edge(i, j) <=> j < at /\ Child(i, j))
    /\ phase = "resolve" => (Edge(i, j) <=> Child(i, j) \/ (i < at /\ ref[i] = j))
    /\ phase \in {"cycles", "expand", "done"} => (Edge(i, j) <=> Child(i, j) \/ ref[i] = j)

\* The stack is a path of followed edges over distinct, unfinished nodes; what
\* a frame has left behind is complete, except the call it is waiting for.
StackIsPath ==
  /\ \A k \in 1..Len(stack) :
       /\ stack[k].next <= Len(edges[stack[k].node]) + 1
       /\ stack[k].node \notin complete
       /\ \A l \in 1..Len(stack) : stack[k].node = stack[l].node => k = l
       /\ k < Len(stack) =>
            /\ stack[k].next > 1
            /\ edges[stack[k].node][stack[k].next - 1] = stack[k + 1].node
       /\ \A m \in 1..(stack[k].next - 1) :
            \/ edges[stack[k].node][m] \in complete
            \/ k < Len(stack) /\ m = stack[k].next - 1

\* Finished nodes only have finished successors, and no set of them loops.
CompleteIsAcyclic ==
  /\ \A i \in complete : \A j \in Node : Edge(i, j) => j \in complete
  /\ \A S \in SUBSET complete : S # {} => \E i \in S : \A j \in S : ~ Edge(i, j)

SearchCovers ==
  /\ phase \in {"visit", "resolve"} => stack = <<>> /\ complete = {}
  /\ phase = "cycles" => \A i \in Node : i < at => i \in complete \cup Active
  /\ phase \in {"expand", "done"} => complete = Node

ErrorIsFinal ==
  /\ error # "none" => phase = "failed"
  /\ error = "schema_reference_cycle" => Cyclic

IInv ==
  /\ SearchTypeOK
  /\ \A i \in Node : schema[i].depth > 0 => schema[i].parent \in 1..(i - 1)
  /\ EdgesBuilt
  /\ phase # "failed" => StackIsPath /\ CompleteIsAcyclic
  /\ SearchCovers
  /\ ErrorIsFinal
=============================================================================
