---------------------- MODULE SchemaQualificationProofs ----------------------
(***************************************************************************)
(* Proofs about SchemaQualification: the depth-first search of             *)
(* #rejectCycles rejects exactly the schemas whose evaluation loops; the   *)
(* totals that #expansion computes through memos are the sums over all     *)
(* subschemas and references, as the declared cost of #weight is; and a    *)
(* schema that qualifies is within each limit, to the unit.                *)
(***************************************************************************)
EXTENDS SchemaQualification, Integers, SequenceTheorems, FiniteSetTheorems, WellFoundedInduction,
        TLAPS

\* A document has at least one subschema.
LEMMA NodesExist ==
  ASSUME schema \in Schemas
  PROVE  /\ schema \in Seq(Item) /\ Len(schema) \in Nat /\ Len(schema) > 0
         /\ 1 \in Node
         /\ \A i \in Node : schema[i] \in Item
         /\ \A i \in Node : schema[i].depth > 0 => schema[i].parent \in 1..(i - 1)
  BY ConstantsAssumption DEF Node

\* Appending one edge adds one pair to the relation Edge and nothing else.
LEMMA AppendEdge ==
  ASSUME edges \in [Node -> Seq(Node)], NEW p \in Node, NEW t \in Node,
         edges' = [edges EXCEPT ![p] = Append(edges[p], t)]
  PROVE  /\ edges' \in [Node -> Seq(Node)]
         /\ \A i, j \in Node : Edge(i, j)' <=> Edge(i, j) \/ (i = p /\ j = t)
<1>1. /\ Append(edges[p], t) \in Seq(Node)
      /\ Len(Append(edges[p], t)) = Len(edges[p]) + 1
      /\ \A k \in 1..Len(edges[p]) : Append(edges[p], t)[k] = edges[p][k]
      /\ Append(edges[p], t)[Len(edges[p]) + 1] = t
  BY AppendProperties
<1>2. edges' \in [Node -> Seq(Node)]
  BY <1>1
<1>3. ASSUME NEW i \in Node, NEW j \in Node
      PROVE  Edge(i, j)' <=> Edge(i, j) \/ (i = p /\ j = t)
  <2>1. CASE i # p
    BY <2>1 DEF Edge
  <2>2. CASE i = p
    <3>1. edges'[i] = Append(edges[p], t) /\ edges[i] = edges[p]
      BY <2>2
    <3>2. DOMAIN edges'[i] = 1..(Len(edges[p]) + 1) /\ DOMAIN edges[i] = 1..Len(edges[p])
          /\ Len(edges[p]) \in Nat
      BY <3>1, <1>1
    <3>3. DOMAIN edges'[i] = DOMAIN edges[i] \cup {Len(edges[p]) + 1}
      BY <3>2
    <3> QED BY <3>1, <3>2, <3>3, <1>1, <2>2 DEF Edge
  <2> QED BY <2>1, <2>2
<1> QED BY <1>2, <1>3

\* A positive multiplicity is a child edge or a reference.
LEMMA MultiplicityIsEdge ==
  \A i, j : Multiplicity(i, j) > 0 <=> Child(i, j) \/ ref[i] = j
  BY DEF Multiplicity

\* The top frame, and the stack with its next edge moved on.
LEMMA AdvancedStack ==
  ASSUME stack \in Seq(Frame), stack # <<>>
  PROVE  /\ Len(stack) \in Nat /\ Len(stack) > 0
         /\ Top \in Frame /\ Top.node \in Node /\ Top.next \in Nat \ {0}
         /\ Advanced \in Seq(Frame) /\ Len(Advanced) = Len(stack)
         /\ \A k \in 1..Len(stack) : k # Len(stack) => Advanced[k] = stack[k]
         /\ Advanced[Len(stack)].node = Top.node
         /\ Advanced[Len(stack)].next = Top.next + 1
<1>1. Len(stack) \in Nat /\ Len(stack) > 0
  BY EmptySeq
<1>2. Top \in Frame
  BY <1>1, ElementOfSeq DEF Top
<1>3. Top.node \in Node /\ Top.next \in Nat \ {0}
  BY <1>2 DEF Frame
<1>4. [node |-> Top.node, next |-> Top.next + 1] \in Frame
  BY <1>3 DEF Frame
<1> QED BY <1>1, <1>2, <1>3, <1>4, ExceptSeq DEF Advanced

\* Whether the schema loops does not depend on the progress of the walk.
LEMMA CyclicUnchanged ==
  ASSUME UNCHANGED <<schema, ref>>
  PROVE  Node' = Node /\ Cyclic' = Cyclic
  BY DEF Node, Cyclic, Loops, Multiplicity, Child

\* The constructor establishes the invariant.
LEMMA InitIInv == Init => IInv
<1> SUFFICES ASSUME Init PROVE IInv
  OBVIOUS
<1>1. schema \in Seq(Item) /\ Len(schema) \in Nat /\ Len(schema) > 0
      /\ \A i \in Node : schema[i].depth > 0 => schema[i].parent \in 1..(i - 1)
  BY NodesExist DEF Init
<1>2. SearchTypeOK
  BY <1>1, EmptySeq DEF Init, SearchTypeOK, Node, Phase
<1>3. \A i \in Node : edges[i] = <<>> /\ DOMAIN edges[i] = {}
  BY EmptySeq DEF Init
<1>4. EdgesBuilt
  BY <1>1, <1>3 DEF Init, EdgesBuilt, Edge, Node, Item
<1>5. StackIsPath /\ CompleteIsAcyclic /\ SearchCovers /\ ErrorIsFinal
  BY EmptySeq DEF Init, StackIsPath, CompleteIsAcyclic, SearchCovers, ErrorIsFinal
<1> QED BY <1>1, <1>2, <1>4, <1>5 DEF IInv

\* Throwing keeps the invariant, provided a reported cycle is one.
LEMMA ThrowIInv ==
  ASSUME IInv, phase # "failed", NEW code, Throw(code), code = "schema_reference_cycle" => Cyclic
  PROVE  IInv'
<1>1. Node' = Node /\ Cyclic' = Cyclic
  BY CyclicUnchanged DEF Throw
<1>2. SearchTypeOK'
  BY <1>1 DEF IInv, SearchTypeOK, Throw, Frame, Phase
<1>3. phase' = "failed"
  BY DEF Throw
<1>4. (\A i \in Node : schema[i].depth > 0 => schema[i].parent \in 1..(i - 1))'
  BY <1>1 DEF IInv, Throw
<1>5. EdgesBuilt' /\ SearchCovers'
  BY <1>3 DEF EdgesBuilt, SearchCovers
<1>6. ErrorIsFinal'
  BY <1>1, <1>3 DEF ErrorIsFinal, Throw
<1> QED BY <1>2, <1>3, <1>4, <1>5, <1>6 DEF IInv

\* A step outside the search that keeps edges, stack and complete set keeps
\* the search's invariants.
LEMMA SearchUnchanged ==
  ASSUME UNCHANGED <<schema, ref, edges, stack, complete>>
  PROVE  /\ StackIsPath' = StackIsPath
         /\ CompleteIsAcyclic' = CompleteIsAcyclic
         /\ \A i, j : Edge(i, j)' = Edge(i, j)
         /\ Active' = Active
         /\ Node' = Node
  BY DEF StackIsPath, CompleteIsAcyclic, Edge, Active, Node

\* #visit adds the edges of evaluated children, and those only.
LEMMA VisitNodeIInv == IInv /\ VisitNode => IInv'
<1> SUFFICES ASSUME IInv, VisitNode PROVE IInv'
  OBVIOUS
<1> USE DEF Phase
<1>1. phase = "visit" /\ at \in Node /\ at + 1 \in 1..(Len(schema) + 1) /\ Len(schema) \in Nat
  BY DEF IInv, SearchTypeOK, VisitNode, Node
<1>2. CASE VisitError(at) # "none"
  <2>1. Throw(VisitError(at))
    BY <1>2 DEF VisitNode
  <2>2. VisitError(at) # "schema_reference_cycle"
    BY Zenon DEF VisitError
  <2> QED BY <1>1, <2>1, <2>2, ThrowIInv
<1>3. CASE VisitError(at) = "none"
  <2>1. /\ at' = at + 1
        /\ references' = References(at) /\ literals' = Literals(at)
        /\ edges' = IF Evaluates(at)
                    THEN [edges EXCEPT ![schema[at].parent] = Append(@, at)] ELSE edges
        /\ UNCHANGED <<schema, ref, phase, stack, complete, error, weight>>
    BY <1>3 DEF VisitNode
  <2>2. Node' = Node /\ Cyclic' = Cyclic
    BY <2>1, CyclicUnchanged
  <2>3. schema \in Seq(Item) /\ schema[at] \in Item
    BY <1>1, ElementOfSeq DEF IInv, SearchTypeOK, Node
  <2>4. References(at) \in Nat /\ Literals(at) \in Nat
    <3>1. references \in Nat /\ literals \in Nat
      BY DEF IInv, SearchTypeOK
    <3>2. schema[at].literals \in Nat
      BY <2>3 DEF Item
    <3> QED BY <3>1, <3>2 DEF References, Literals
  <2>5. edges \in [Node -> Seq(Node)] /\ error = "none"
    BY <1>1 DEF IInv, SearchTypeOK, ErrorIsFinal
  <2>6. /\ edges' \in [Node -> Seq(Node)]
        /\ \A i, j \in Node : Edge(i, j)' <=> Edge(i, j) \/ (j = at /\ Child(i, at))
    <3>1. CASE Evaluates(at)
      <4>1. schema[at].parent \in Node
        BY <3>1, <1>1 DEF Evaluates, IInv, Node
      <4>2. edges' = [edges EXCEPT ![schema[at].parent] = Append(edges[schema[at].parent], at)]
        BY <2>1, <3>1
      <4>3. \A i \in Node : Child(i, at) <=> i = schema[at].parent
        BY <3>1 DEF Evaluates, Child
      <4> QED BY <4>1, <4>2, <4>3, <1>1, <2>5, AppendEdge
    <3>2. CASE ~ Evaluates(at)
      <4>1. edges' = edges /\ \A i : ~ Child(i, at)
        BY <2>1, <3>2 DEF Evaluates, Child
      <4> QED BY <4>1, <2>5 DEF Edge
    <3> QED BY <3>1, <3>2
  <2>7. SearchTypeOK'
    BY <1>1, <2>1, <2>2, <2>4, <2>6 DEF IInv, SearchTypeOK, Frame
  <2>8. EdgesBuilt'
    <3>1. \A i, j \in Node : Child(i, j)' = Child(i, j)
      BY <2>1 DEF Child
    <3>2. \A i, j \in Node : Edge(i, j) <=> j < at /\ Child(i, j)
      BY <1>1 DEF IInv, EdgesBuilt
    <3>3. \A j \in Node : j < at + 1 <=> j < at \/ j = at
      BY <1>1 DEF Node
    <3>4. \A i, j \in Node : Edge(i, j)' <=> j < at' /\ Child(i, j)
      BY <3>2, <3>3, <2>1, <2>6
    <3> QED BY <3>1, <3>4, <2>1, <2>2, <1>1 DEF EdgesBuilt
  <2>9. stack = <<>> /\ complete = {}
    BY <1>1 DEF IInv, SearchCovers
  <2>10. StackIsPath' /\ CompleteIsAcyclic' /\ SearchCovers'
    BY <2>1, <2>9, <1>1, EmptySeq DEF StackIsPath, CompleteIsAcyclic, SearchCovers
  <2>11. ErrorIsFinal'
    BY <2>1, <2>2, <2>5 DEF ErrorIsFinal
  <2>12. (\A i \in Node : schema[i].depth > 0 => schema[i].parent \in 1..(i - 1))'
    BY <2>1, <2>2 DEF IInv
  <2> QED BY <2>7, <2>8, <2>10, <2>11, <2>12 DEF IInv
<1> QED BY <1>2, <1>3

\* #resolveReferences adds the edge of every reference.
LEMMA ResolveReferenceIInv == IInv /\ ResolveReference => IInv'
<1> SUFFICES ASSUME IInv, ResolveReference PROVE IInv'
  OBVIOUS
<1> USE DEF Phase
<1>1. phase = "resolve" /\ at \in Node /\ at + 1 \in 1..(Len(schema) + 1) /\ Len(schema) \in Nat
  BY DEF IInv, SearchTypeOK, ResolveReference, Node
<1>2. CASE ref[at] > Len(schema)
  BY <1>1, <1>2, ThrowIInv DEF ResolveReference
<1>3. CASE ~ (ref[at] > Len(schema))
  <2>1. /\ at' = at + 1
        /\ edges' = IF ref[at] = NoRef THEN edges ELSE [edges EXCEPT ![at] = Append(@, ref[at])]
        /\ UNCHANGED <<schema, ref, phase, references, literals, stack, complete, error, weight>>
    BY <1>3 DEF ResolveReference
  <2>2. Node' = Node /\ Cyclic' = Cyclic
    BY <2>1, CyclicUnchanged
  <2>5. edges \in [Node -> Seq(Node)] /\ error = "none" /\ ref[at] \in 0..Len(schema)
    BY <1>1, <1>3 DEF IInv, SearchTypeOK, ErrorIsFinal
  <2>6. /\ edges' \in [Node -> Seq(Node)]
        /\ \A i, j \in Node : Edge(i, j)' <=> Edge(i, j) \/ (i = at /\ j = ref[at])
    <3>1. CASE ref[at] # NoRef
      <4>1. ref[at] \in Node
        BY <3>1, <2>5, <1>1 DEF NoRef, Node
      <4>2. edges' = [edges EXCEPT ![at] = Append(edges[at], ref[at])]
        BY <2>1, <3>1
      <4> QED BY <4>1, <4>2, <1>1, <2>5, AppendEdge
    <3>2. CASE ref[at] = NoRef
      <4>1. edges' = edges /\ ref[at] \notin Node
        BY <2>1, <3>2 DEF NoRef, Node
      <4> QED BY <4>1, <2>5 DEF Edge
    <3> QED BY <3>1, <3>2
  <2>7. SearchTypeOK'
    BY <1>1, <2>1, <2>2, <2>6 DEF IInv, SearchTypeOK, Frame
  <2>8. EdgesBuilt'
    <3>1. \A i, j \in Node : Child(i, j)' = Child(i, j)
      BY <2>1 DEF Child
    <3>2. \A i, j \in Node : Edge(i, j) <=> Child(i, j) \/ (i < at /\ ref[i] = j)
      BY <1>1 DEF IInv, EdgesBuilt
    <3>3. \A i \in Node : i < at + 1 <=> i < at \/ i = at
      BY <1>1 DEF Node
    <3>4. \A i, j \in Node : Edge(i, j)' <=> Child(i, j) \/ (i < at' /\ ref[i] = j)
      BY <3>2, <3>3, <2>1, <2>6
    <3> QED BY <3>1, <3>4, <2>1, <2>2, <1>1 DEF EdgesBuilt
  <2>9. stack = <<>> /\ complete = {}
    BY <1>1 DEF IInv, SearchCovers
  <2>10. StackIsPath' /\ CompleteIsAcyclic' /\ SearchCovers'
    BY <2>1, <2>9, <1>1, EmptySeq DEF StackIsPath, CompleteIsAcyclic, SearchCovers
  <2>11. ErrorIsFinal'
    BY <2>1, <2>2, <2>5 DEF ErrorIsFinal
  <2>12. (\A i \in Node : schema[i].depth > 0 => schema[i].parent \in 1..(i - 1))'
    BY <2>1, <2>2 DEF IInv
  <2> QED BY <2>7, <2>8, <2>10, <2>11, <2>12 DEF IInv
<1> QED BY <1>2, <1>3

\* What a search step leaves alone, and what of IInv follows from that.
LEMMA SearchStep ==
  ASSUME IInv, phase = "cycles",
         UNCHANGED <<schema, ref, phase, references, literals, edges, error>>,
         at' \in 1..(Len(schema) + 1), stack' \in Seq(Frame), complete' \in SUBSET Node,
         StackIsPath', CompleteIsAcyclic', \A i \in Node : i < at' => i \in (complete \cup Active)'
  PROVE  IInv'
<1>1. Node' = Node /\ Cyclic' = Cyclic
  BY CyclicUnchanged
<1>2. SearchTypeOK'
  BY <1>1 DEF IInv, SearchTypeOK, Frame
<1>3. (\A i \in Node : schema[i].depth > 0 => schema[i].parent \in 1..(i - 1))'
  BY <1>1 DEF IInv
<1>4. \A i, j : Edge(i, j)' = Edge(i, j) /\ Child(i, j)' = Child(i, j)
  BY DEF Edge, Child
<1>5. EdgesBuilt'
  BY <1>1, <1>4 DEF IInv, EdgesBuilt
<1>6. SearchCovers'
  BY <1>1 DEF SearchCovers
<1>7. ErrorIsFinal'
  BY <1>1 DEF IInv, ErrorIsFinal
<1> QED BY <1>2, <1>3, <1>5, <1>6, <1>7 DEF IInv

\* A search from a node that is complete adds nothing, any other starts a path.
LEMMA StartSearchIInv == IInv /\ StartSearch => IInv'
<1> SUFFICES ASSUME IInv, StartSearch PROVE IInv'
  OBVIOUS
<1>1. /\ phase = "cycles" /\ stack = <<>> /\ at' = at + 1
      /\ at \in Node /\ Len(schema) \in Nat
      /\ UNCHANGED <<schema, ref, phase, references, literals, edges, complete, error>>
  BY DEF StartSearch, IInv, SearchTypeOK, Node
<1>2. complete \in SUBSET Node /\ edges \in [Node -> Seq(Node)] /\ CompleteIsAcyclic
      /\ \A i \in Node : i < at => i \in complete
  BY <1>1, EmptySeq DEF IInv, SearchTypeOK, SearchCovers, Active
<1>3. CompleteIsAcyclic' /\ Node' = Node
  <2>1. \A i, j : Edge(i, j)' = Edge(i, j)
    BY <1>1 DEF Edge
  <2>2. Node' = Node /\ complete' = complete
    BY <1>1 DEF Node
  <2> QED BY <1>2, <2>1, <2>2 DEF CompleteIsAcyclic
<1>4. CASE at \in complete
  <2>1. stack' = <<>>
    BY <1>4 DEF StartSearch
  <2>2. StackIsPath' /\ stack' \in Seq(Frame)
    BY <2>1, EmptySeq DEF StackIsPath
  <2>3. \A i \in Node : i < at' => i \in (complete \cup Active)'
    BY <1>1, <1>2, <1>4 DEF Node
  <2> QED BY <1>1, <1>2, <1>3, <2>2, <2>3, SearchStep DEF Node
<1>5. CASE at \notin complete
  <2>1. stack' = <<[node |-> at, next |-> 1]>>
    BY <1>5 DEF StartSearch
  <2>2. [node |-> at, next |-> 1] \in Frame
    BY <1>1 DEF Frame
  <2>3. stack' \in Seq(Frame) /\ Len(stack') = 1 /\ stack'[1].node = at /\ stack'[1].next = 1
    BY <2>1, <2>2
  <2>4. Len(edges[at]) \in Nat
    BY <1>1, <1>2
  <2>5. StackIsPath'
    BY <1>1, <1>5, <2>3, <2>4 DEF StackIsPath
  <2>6. at \in Active'
    BY <2>3 DEF Active
  <2>7. \A i \in Node : i < at' => i \in (complete \cup Active)'
    BY <1>1, <1>2, <2>6 DEF Node
  <2> QED BY <1>1, <1>2, <1>3, <2>3, <2>5, <2>7, SearchStep DEF Node
<1> QED BY <1>4, <1>5

\* A node is complete once all its targets are; no loop goes through it.
LEMMA FinishNodeIInv == IInv /\ FinishNode => IInv'
<1> SUFFICES ASSUME IInv, FinishNode PROVE IInv'
  OBVIOUS
<1>1. /\ phase = "cycles" /\ stack # <<>> /\ AtLastEdge
      /\ complete' = complete \cup {Top.node}
      /\ stack' = SubSeq(stack, 1, Len(stack) - 1)
      /\ UNCHANGED <<schema, ref, phase, at, references, literals, edges, error>>
  BY DEF FinishNode
<1>2. /\ stack \in Seq(Frame) /\ complete \in SUBSET Node /\ edges \in [Node -> Seq(Node)]
      /\ at \in 1..(Len(schema) + 1)
      /\ StackIsPath /\ CompleteIsAcyclic
      /\ \A i \in Node : i < at => i \in complete \cup Active
  BY <1>1 DEF IInv, SearchTypeOK, SearchCovers
<1>3. Len(stack) \in Nat /\ Len(stack) > 0 /\ Top.node \in Node /\ Top.next \in Nat
  BY <1>1, <1>2, AdvancedStack
<1>4. /\ stack' \in Seq(Frame) /\ Len(stack') = Len(stack) - 1
      /\ \A k \in 1..(Len(stack) - 1) : stack'[k] = stack[k]
  <2>1. \A k \in 1..Len(stack) : stack[k] \in Frame
    BY <1>2, ElementOfSeq
  <2>2. stack' = [k \in 1..(Len(stack) - 1) |-> stack[k]]
    <3>1. SubSeq(stack, 1, Len(stack) - 1) = [k \in 1..(1 + (Len(stack) - 1) - 1) |-> stack[1 + k - 1]]
      OBVIOUS
    <3>2. 1 + (Len(stack) - 1) - 1 = Len(stack) - 1 /\ \A k \in 1..(Len(stack) - 1) : 1 + k - 1 = k
      BY <1>3
    <3> QED BY <1>1, <3>1, <3>2
  <2>3. Len(stack) - 1 \in Nat /\ 1..(Len(stack) - 1) \subseteq 1..Len(stack)
    BY <1>3
  <2> QED BY <2>1, <2>2, <2>3
<1>5. \A k \in 1..Len(stack) : stack[k].node \in Node /\ stack[k].next \in Nat \ {0}
  <2>1. \A k \in 1..Len(stack) : stack[k] \in Frame
    BY <1>2, ElementOfSeq
  <2> QED BY <2>1 DEF Frame
<1>6. \A m \in DOMAIN edges[Top.node] : edges[Top.node][m] \in complete
  <2>1. Len(stack) \in 1..Len(stack) /\ ~ (Len(stack) < Len(stack))
    BY <1>3
  <2>2. Top.next <= Len(edges[Top.node]) + 1
        /\ \A m \in 1..(Top.next - 1) : edges[Top.node][m] \in complete
    BY <1>2, <2>1 DEF StackIsPath, Top
  <2>3. edges[Top.node] \in Seq(Node)
    BY <1>2, <1>3
  <2>4. DOMAIN edges[Top.node] = 1..Len(edges[Top.node]) /\ Len(edges[Top.node]) \in Nat
    BY <2>3
  <2>5. Top.next > Len(edges[Top.node])
    BY <1>1 DEF AtLastEdge
  <2>6. Top.next - 1 = Len(edges[Top.node])
    BY <1>3, <2>2, <2>4, <2>5
  <2> QED BY <2>2, <2>4, <2>6
<1>7. Top.node \notin complete
  BY <1>2, <1>3 DEF StackIsPath, Top
<1>8. StackIsPath'
  <2> SUFFICES ASSUME NEW k \in 1..(Len(stack) - 1)
      PROVE  /\ stack[k].next <= Len(edges[stack[k].node]) + 1
             /\ stack[k].node \notin complete'
             /\ \A l \in 1..(Len(stack) - 1) : stack[k].node = stack[l].node => k = l
             /\ k < Len(stack) - 1 =>
                  /\ stack[k].next > 1
                  /\ edges[stack[k].node][stack[k].next - 1] = stack[k + 1].node
             /\ \A m \in 1..(stack[k].next - 1) :
                  \/ edges[stack[k].node][m] \in complete'
                  \/ k < Len(stack) - 1 /\ m = stack[k].next - 1
    <3>1. \A k \in 1..(Len(stack) - 1) : k < Len(stack) - 1 => k + 1 \in 1..(Len(stack) - 1)
      BY <1>3
    <3> QED BY <1>1, <1>3, <1>4, <3>1 DEF StackIsPath
  <2>1. k \in 1..Len(stack) /\ k < Len(stack) /\ Len(stack) \in 1..Len(stack)
    BY <1>3
  <2>2. stack[k].node # Top.node
    BY <1>2, <2>1 DEF StackIsPath, Top
  <2>3. stack[k].next <= Len(edges[stack[k].node]) + 1 /\ stack[k].node \notin complete'
    BY <1>1, <1>2, <2>1, <2>2 DEF StackIsPath
  <2>4. \A l \in 1..(Len(stack) - 1) : stack[k].node = stack[l].node => k = l
    BY <1>2, <1>3, <2>1 DEF StackIsPath
  <2>5. stack[k].next > 1 /\ edges[stack[k].node][stack[k].next - 1] = stack[k + 1].node
    BY <1>2, <2>1 DEF StackIsPath
  <2>6. ASSUME NEW m \in 1..(stack[k].next - 1)
        PROVE  \/ edges[stack[k].node][m] \in complete'
               \/ k < Len(stack) - 1 /\ m = stack[k].next - 1
    <3>1. edges[stack[k].node][m] \in complete \/ m = stack[k].next - 1
      BY <1>2, <2>1 DEF StackIsPath
    <3>2. CASE k = Len(stack) - 1 /\ m = stack[k].next - 1
      <4>1. k + 1 = Len(stack)
        BY <3>2, <1>3
      <4>2. edges[stack[k].node][m] = Top.node
        BY <3>2, <2>5, <4>1 DEF Top
      <4> QED BY <4>2, <1>1
    <3> QED BY <3>1, <3>2, <1>1, <1>3
  <2> QED BY <2>3, <2>4, <2>5, <2>6
<1>9. CompleteIsAcyclic'
  <2>1. \A i, j : Edge(i, j)' = Edge(i, j)
    BY <1>1 DEF Edge
  <2>2. \A j \in Node : Edge(Top.node, j) => j \in complete
    BY <1>6 DEF Edge
  <2>3. ASSUME NEW i \in complete', NEW j \in Node, Edge(i, j)
        PROVE  j \in complete'
    BY <1>1, <1>2, <2>2, <2>3 DEF CompleteIsAcyclic
  <2>4. ASSUME NEW S \in SUBSET complete', S # {}
        PROVE  \E i \in S : \A j \in S : ~ Edge(i, j)
    <3>1. S \subseteq complete \cup {Top.node} /\ S \subseteq Node
      BY <1>1, <1>2, <1>3
    <3>2. CASE S \cap complete # {}
      <4>1. PICK i \in S \cap complete : \A j \in S \cap complete : ~ Edge(i, j)
        BY <3>2, <1>2 DEF CompleteIsAcyclic
      <4>2. \A j \in S : Edge(i, j) => j \in complete
        BY <1>2, <3>1 DEF CompleteIsAcyclic
      <4> QED BY <4>1, <4>2
    <3>3. CASE S \cap complete = {}
      <4>1. Top.node \in S
        BY <3>1, <3>3, <2>4
      <4>2. \A j \in S : ~ Edge(Top.node, j)
        BY <2>2, <3>1, <3>3
      <4> QED BY <4>1, <4>2
    <3> QED BY <3>2, <3>3
  <2>5. Node' = Node
    BY <1>1 DEF Node
  <2> QED BY <2>1, <2>3, <2>4, <2>5 DEF CompleteIsAcyclic
<1>10. \A i \in Node : i < at' => i \in (complete \cup Active)'
  <2>1. ASSUME NEW i \in Active, i # Top.node PROVE i \in Active'
    <3>1. PICK k \in 1..Len(stack) : stack[k].node = i
      BY <1>2 DEF Active
    <3>2. k \in 1..(Len(stack) - 1)
      BY <2>1, <3>1, <1>3 DEF Top
    <3> QED BY <3>1, <3>2, <1>3, <1>4 DEF Active
  <2> QED BY <2>1, <1>1, <1>2
<1> QED BY <1>1, <1>2, <1>3, <1>4, <1>8, <1>9, <1>10, SearchStep

\* The next edge of the top frame exists, and its target is a node.
LEMMA NextEdge ==
  ASSUME stack \in Seq(Frame), stack # <<>>, edges \in [Node -> Seq(Node)], ~ AtLastEdge
  PROVE  /\ Target \in Node /\ Edge(Top.node, Target)
         /\ Top.next + 1 <= Len(edges[Top.node]) + 1
<1>1. Top.node \in Node /\ Top.next \in Nat \ {0}
  BY AdvancedStack
<1>2. edges[Top.node] \in Seq(Node)
  BY <1>1
<1>3. Len(edges[Top.node]) \in Nat /\ Top.next <= Len(edges[Top.node])
  BY <1>1, <1>2 DEF AtLastEdge
<1>4. Top.next \in DOMAIN edges[Top.node] /\ Top.next \in 1..Len(edges[Top.node])
  BY <1>1, <1>2, <1>3
<1>5. Target \in Node
  BY <1>2, <1>4, ElementOfSeq DEF Target
<1> QED BY <1>1, <1>3, <1>4, <1>5 DEF Edge, Target

\* Each call on the stack waits for the next one: an edge joins their nodes.
LEMMA StackEdges ==
  ASSUME stack \in Seq(Frame), edges \in [Node -> Seq(Node)], StackIsPath,
         NEW k \in 1..Len(stack), k < Len(stack)
  PROVE  Edge(stack[k].node, stack[k + 1].node)
<1>1. stack[k] \in Frame
  BY ElementOfSeq
<1>2. stack[k].node \in Node /\ stack[k].next \in Nat
  BY <1>1 DEF Frame
<1>3. edges[stack[k].node] \in Seq(Node)
  BY <1>2
<1>4. /\ stack[k].next > 1 /\ stack[k].next <= Len(edges[stack[k].node]) + 1
      /\ edges[stack[k].node][stack[k].next - 1] = stack[k + 1].node
  BY DEF StackIsPath
<1>5. stack[k].next - 1 \in DOMAIN edges[stack[k].node]
  BY <1>2, <1>3, <1>4
<1> QED BY <1>4, <1>5 DEF Edge

\* An edge back to a node that is active closes a loop.
LEMMA ActiveTargetIsCycle ==
  ASSUME IInv, phase = "cycles", stack # <<>>, ~ AtLastEdge, Target \in Active
  PROVE  Cyclic
<1>1. /\ stack \in Seq(Frame) /\ edges \in [Node -> Seq(Node)] /\ StackIsPath
      /\ Len(stack) \in Nat /\ Len(stack) > 0
  BY AdvancedStack DEF IInv, SearchTypeOK
<1>2. PICK first \in 1..Len(stack) : stack[first].node = Target
  BY <1>1 DEF Active
<1>3. \A i, j \in Node : Edge(i, j) => Multiplicity(i, j) > 0
  BY MultiplicityIsEdge DEF IInv, EdgesBuilt
<1>4. \A k \in 1..Len(stack) : stack[k].node \in Node
  <2>1. \A k \in 1..Len(stack) : stack[k] \in Frame
    BY <1>1, ElementOfSeq
  <2> QED BY <2>1 DEF Frame
<1> DEFINE S == {stack[k].node : k \in first..Len(stack)}
<1>5. S \in SUBSET Node /\ Target \in S
  BY <1>1, <1>2, <1>4
<1>6. ASSUME NEW i \in S
      PROVE  \E j \in S : Multiplicity(i, j) > 0
  <2>1. PICK k \in first..Len(stack) : i = stack[k].node
    BY <1>6
  <2>2. k \in 1..Len(stack)
    BY <1>1
  <2>3. CASE k < Len(stack)
    <3>1. k + 1 \in first..Len(stack) /\ k + 1 \in 1..Len(stack)
      BY <1>1, <2>2, <2>3
    <3>2. Edge(i, stack[k + 1].node)
      BY <1>1, <2>1, <2>2, <2>3, StackEdges
    <3>3. Multiplicity(i, stack[k + 1].node) > 0
      BY <1>3, <1>4, <2>1, <2>2, <3>1, <3>2
    <3> QED BY <3>1, <3>3
  <2>4. CASE k = Len(stack)
    <3>1. i = Top.node
      BY <2>1, <2>4 DEF Top
    <3>2. Edge(i, Target) /\ i \in Node /\ Target \in Node
      BY <1>1, <1>5, <3>1, NextEdge
    <3> QED BY <1>3, <1>5, <3>2
  <2> QED BY <1>1, <2>2, <2>3, <2>4
<1>7. S # {} /\ Loops(S)
  BY <1>5, <1>6 DEF Loops
<1> QED BY <1>5, <1>7 DEF Cyclic

\* Following an edge reports a cycle, skips a complete target or extends the path.
LEMMA FollowEdgeIInv == IInv /\ FollowEdge => IInv'
<1> SUFFICES ASSUME IInv, FollowEdge PROVE IInv'
  OBVIOUS
<1>1. phase = "cycles" /\ stack # <<>> /\ ~ AtLastEdge
  BY DEF FollowEdge
<1>2. CASE Target \in Active
  <2>1. Throw("schema_reference_cycle")
    BY <1>2 DEF FollowEdge
  <2> QED BY <1>1, <1>2, <2>1, ActiveTargetIsCycle, ThrowIInv
<1>3. CASE Target \notin Active
  <2>1. /\ stack' = IF Target \in complete THEN Advanced
                    ELSE Append(Advanced, [node |-> Target, next |-> 1])
        /\ UNCHANGED <<schema, ref, phase, at, references, literals, edges, complete, error>>
    BY <1>3 DEF FollowEdge
  <2>2. /\ stack \in Seq(Frame) /\ complete \in SUBSET Node /\ edges \in [Node -> Seq(Node)]
        /\ at \in 1..(Len(schema) + 1)
        /\ StackIsPath /\ CompleteIsAcyclic
        /\ \A i \in Node : i < at => i \in complete \cup Active
    BY <1>1 DEF IInv, SearchTypeOK, SearchCovers
  <2>3. Target \in Node /\ Top.next + 1 <= Len(edges[Top.node]) + 1
    BY <1>1, <2>2, NextEdge
  <2>4. [node |-> Target, next |-> 1] \in Frame
    BY <2>3 DEF Frame
  <2>5. /\ Len(stack) \in Nat /\ Len(stack) > 0
        /\ Top.node \in Node /\ Top.next \in Nat \ {0}
        /\ Advanced \in Seq(Frame) /\ Len(Advanced) = Len(stack)
        /\ \A k \in 1..Len(stack) : k # Len(stack) => Advanced[k] = stack[k]
        /\ Advanced[Len(stack)].node = Top.node
        /\ Advanced[Len(stack)].next = Top.next + 1
    BY <1>1, <2>2, AdvancedStack
  <2>6. CompleteIsAcyclic'
    <3>1. \A i, j : Edge(i, j)' = Edge(i, j)
      BY <2>1 DEF Edge
    <3>2. Node' = Node /\ complete' = complete
      BY <2>1 DEF Node
    <3> QED BY <2>2, <3>1, <3>2 DEF CompleteIsAcyclic
  <2>7. /\ stack' \in Seq(Frame)
        /\ \A k \in 1..Len(stack) : stack'[k] = Advanced[k]
        /\ Target \in complete => Len(stack') = Len(stack)
        /\ Target \notin complete =>
             Len(stack') = Len(stack) + 1 /\ stack'[Len(stack) + 1] = [node |-> Target, next |-> 1]
    BY <2>1, <2>4, <2>5, AppendProperties
  <2>8. /\ \A k \in 1..Len(stack) : stack'[k].node = stack[k].node
        /\ \A k \in 1..Len(stack) : k # Len(stack) => stack'[k].next = stack[k].next
        /\ stack'[Len(stack)].next = Top.next + 1
    BY <2>5, <2>7 DEF Top
  <2>9. Active \subseteq Active'
    BY <2>2, <2>5, <2>7, <2>8 DEF Active
  <2>10. StackIsPath'
    <3>1. ASSUME NEW k \in 1..Len(stack')
          PROVE  /\ stack'[k].next <= Len(edges[stack'[k].node]) + 1
                 /\ stack'[k].node \notin complete
                 /\ k < Len(stack') =>
                      /\ stack'[k].next > 1
                      /\ edges[stack'[k].node][stack'[k].next - 1] = stack'[k + 1].node
                 /\ \A m \in 1..(stack'[k].next - 1) :
                      \/ edges[stack'[k].node][m] \in complete
                      \/ k < Len(stack') /\ m = stack'[k].next - 1
      <4>1. CASE k < Len(stack)
        <5>1. k \in 1..Len(stack) /\ k + 1 \in 1..Len(stack) /\ k # Len(stack) /\ k < Len(stack')
          BY <2>5, <2>7, <4>1
        <5>2. /\ stack'[k].node = stack[k].node /\ stack'[k].next = stack[k].next
              /\ stack'[k + 1].node = stack[k + 1].node
          BY <2>8, <5>1
        <5> QED BY <2>2, <4>1, <5>1, <5>2 DEF StackIsPath
      <4>2. CASE k = Len(stack)
        <5>1. Len(stack) \in 1..Len(stack) /\ ~ (Len(stack) < Len(stack))
          BY <2>5
        <5>2. stack'[k].node = Top.node /\ stack'[k].next = Top.next + 1
          BY <2>8, <4>2, <5>1 DEF Top
        <5>3. Top.node \notin complete
              /\ \A m \in 1..(Top.next - 1) : edges[Top.node][m] \in complete
          BY <2>2, <5>1 DEF StackIsPath, Top
        <5>4. stack'[k].next - 1 = Top.next /\ stack'[k].next > 1
              /\ \A m \in 1..Top.next : m \in 1..(Top.next - 1) \/ m = Top.next
          BY <2>5, <5>2
        <5>5. edges[stack'[k].node][stack'[k].next - 1] = Target
          BY <5>2, <5>4 DEF Target
        <5>6. \A m \in 1..(stack'[k].next - 1) :
                edges[stack'[k].node][m] \in complete \/ m = stack'[k].next - 1
          BY <5>2, <5>3, <5>4
        <5>7. stack'[k].next <= Len(edges[stack'[k].node]) + 1 /\ stack'[k].node \notin complete
          BY <2>3, <5>2, <5>3
        <5>8. CASE Target \in complete
          <6>1. ~ (k < Len(stack'))
            BY <2>5, <2>7, <4>2, <5>8
          <6> QED BY <5>5, <5>6, <5>7, <5>8, <6>1
        <5>9. CASE Target \notin complete
          <6>1. k < Len(stack') /\ stack'[k + 1].node = Target
            BY <2>5, <2>7, <4>2, <5>9
          <6> QED BY <5>4, <5>5, <5>6, <5>7, <6>1
        <5> QED BY <5>8, <5>9
      <4>3. CASE k > Len(stack)
        <5>1. Target \notin complete /\ k = Len(stack) + 1 /\ Len(stack') = Len(stack) + 1
          BY <2>5, <2>7, <4>3
        <5>2. stack'[k].node = Target /\ stack'[k].next = 1
          BY <2>7, <5>1
        <5>3. Len(edges[Target]) \in Nat
          BY <2>2, <2>3
        <5>4. stack'[k].next <= Len(edges[stack'[k].node]) + 1 /\ ~ (k < Len(stack'))
          BY <2>5, <5>1, <5>2, <5>3
        <5>5. 1..(stack'[k].next - 1) = {}
          BY <5>2
        <5>6. stack'[k].node \notin complete
          BY <5>1, <5>2
        <5> QED BY <5>4, <5>5, <5>6
      <4>4. k \in Nat
        BY <2>5, <2>7
      <4> QED BY <2>5, <4>1, <4>2, <4>3, <4>4
    <3>2. ASSUME NEW k \in 1..Len(stack'), NEW l \in 1..Len(stack'), stack'[k].node = stack'[l].node
          PROVE  k = l
      <4>1. \A i \in 1..Len(stack') : i \in 1..Len(stack) \/ (i = Len(stack) + 1 /\ stack'[i].node = Target)
        BY <2>5, <2>7
      <4>2. \A i \in 1..Len(stack) : stack'[i].node # Target
        BY <1>3, <2>2, <2>8 DEF Active
      <4>3. \A i, j \in 1..Len(stack) : stack'[i].node = stack'[j].node => i = j
        BY <2>2, <2>8 DEF StackIsPath
      <4> QED BY <3>2, <4>1, <4>2, <4>3
    <3> QED BY <2>1, <3>1, <3>2 DEF StackIsPath
  <2> QED BY <1>1, <2>1, <2>2, <2>6, <2>7, <2>9, <2>10, SearchStep
<1> QED BY <1>2, <1>3

\* Between two methods only phase and position change.
LEMMA EnterIInv ==
  ASSUME IInv, NEW from, NEW to, Enter(from, to),
         \/ from = "visit" /\ to = "resolve"
         \/ from = "resolve" /\ to = "cycles"
         \/ from = "cycles" /\ to = "expand" /\ stack = <<>>
         \/ from = "expand" /\ to = "done"
  PROVE  IInv'
<1>1. /\ phase = from /\ at > Len(schema) /\ phase' = to /\ at' = 1
      /\ UNCHANGED <<schema, ref, references, literals, edges, stack, complete, error>>
  BY DEF Enter
<1>2. Node' = Node /\ Cyclic' = Cyclic
  BY <1>1, CyclicUnchanged
<1>3. phase # "failed" /\ phase' # "failed" /\ phase' \in Phase
  BY <1>1 DEF Phase
<1>4. /\ SearchTypeOK /\ EdgesBuilt /\ StackIsPath /\ CompleteIsAcyclic
      /\ SearchCovers /\ ErrorIsFinal
      /\ \A i \in Node : schema[i].depth > 0 => schema[i].parent \in 1..(i - 1)
  BY <1>1, <1>3 DEF IInv
<1>5. Len(schema) \in Nat /\ \A i \in Node : i < at /\ ~ (i < 1)
  BY <1>1, <1>4 DEF SearchTypeOK, Node
<1>6. SearchTypeOK'
  BY <1>1, <1>2, <1>3, <1>4, <1>5 DEF SearchTypeOK, Frame
<1>7. EdgesBuilt'
  <2>1. \A i, j : Edge(i, j)' = Edge(i, j) /\ Child(i, j)' = Child(i, j)
    BY <1>1 DEF Edge, Child
  <2> QED BY <1>1, <1>2, <1>4, <1>5, <2>1 DEF EdgesBuilt
<1>8. StackIsPath' /\ CompleteIsAcyclic'
  BY <1>1, <1>4, SearchUnchanged
<1>9. SearchCovers'
  <2>1. Active' = Active /\ (stack = <<>> => Active = {})
    BY <1>1 DEF Active
  <2>2. CASE from = "visit" \/ from = "resolve"
    BY <1>1, <1>2, <1>4, <1>5, <2>2 DEF SearchCovers
  <2>3. CASE from = "cycles"
    <3>1. complete = Node
      BY <1>1, <1>4, <1>5, <2>1, <2>3 DEF SearchCovers, SearchTypeOK
    <3> QED BY <1>1, <1>2, <2>3, <3>1 DEF SearchCovers
  <2>4. CASE from = "expand"
    BY <1>1, <1>2, <1>4, <2>4 DEF SearchCovers
  <2> QED BY <2>2, <2>3, <2>4
<1>10. ErrorIsFinal'
  BY <1>1, <1>2, <1>3, <1>4 DEF ErrorIsFinal
<1>11. (\A i \in Node : schema[i].depth > 0 => schema[i].parent \in 1..(i - 1))'
  BY <1>1, <1>2, <1>4
<1> QED BY <1>6, <1>7, <1>8, <1>9, <1>10, <1>11 DEF IInv

\* #expansion changes neither the graph nor the result of the search.
LEMMA ExpandNodeIInv == IInv /\ ExpandNode => IInv'
<1> SUFFICES ASSUME IInv, ExpandNode PROVE IInv'
  OBVIOUS
<1>1. phase = "expand" /\ at <= Len(schema)
  BY DEF ExpandNode
<1>2. CASE /\ at' = at + 1
           /\ UNCHANGED <<schema, ref, phase, references, literals, edges, stack, complete, error>>
  <2>1. Node' = Node /\ Cyclic' = Cyclic
    BY <1>2, CyclicUnchanged
  <2>2. /\ SearchTypeOK /\ EdgesBuilt /\ StackIsPath /\ CompleteIsAcyclic
        /\ complete = Node /\ ErrorIsFinal
        /\ \A i \in Node : schema[i].depth > 0 => schema[i].parent \in 1..(i - 1)
    BY <1>1 DEF IInv, SearchCovers
  <2>3. at + 1 \in 1..(Len(schema) + 1)
    BY <1>1, <2>2 DEF SearchTypeOK
  <2>4. SearchTypeOK'
    BY <1>2, <2>1, <2>2, <2>3 DEF SearchTypeOK, Frame
  <2>5. EdgesBuilt'
    <3>1. \A i, j : Edge(i, j)' = Edge(i, j) /\ Child(i, j)' = Child(i, j)
      BY <1>2 DEF Edge, Child
    <3> QED BY <1>1, <1>2, <2>1, <2>2, <3>1 DEF EdgesBuilt
  <2>6. StackIsPath' /\ CompleteIsAcyclic'
    BY <1>2, <2>2, SearchUnchanged
  <2>7. SearchCovers' /\ ErrorIsFinal'
    BY <1>1, <1>2, <2>1, <2>2 DEF SearchCovers, ErrorIsFinal
  <2>8. (\A i \in Node : schema[i].depth > 0 => schema[i].parent \in 1..(i - 1))'
    BY <1>2, <2>1, <2>2
  <2> QED BY <2>4, <2>5, <2>6, <2>7, <2>8 DEF IInv
<1>3. ASSUME NEW code \in {"schema_reference_expansion_limit", "schema_static_work_limit"}, Throw(code)
      PROVE  IInv'
  BY <1>1, <1>3, ThrowIInv
<1> QED BY <1>2, <1>3 DEF ExpandNode

\* A stuttering step keeps the invariant.
LEMMA StutterIInv == IInv /\ UNCHANGED vars => IInv'
<1> SUFFICES ASSUME IInv, UNCHANGED vars PROVE IInv'
  OBVIOUS
<1>1. UNCHANGED <<schema, ref, phase, at, references, literals, edges, stack, complete, error>>
  BY DEF vars
<1>2. Node' = Node /\ Cyclic' = Cyclic /\ Active' = Active
  BY <1>1, CyclicUnchanged DEF Active
<1>3. \A i, j : Edge(i, j)' = Edge(i, j) /\ Child(i, j)' = Child(i, j)
  BY <1>1 DEF Edge, Child
<1>4. SearchTypeOK' /\ (\A i \in Node : schema[i].depth > 0 => schema[i].parent \in 1..(i - 1))'
  BY <1>1, <1>2 DEF IInv, SearchTypeOK, Frame
<1>5. EdgesBuilt' /\ SearchCovers' /\ ErrorIsFinal'
  BY <1>1, <1>2, <1>3 DEF IInv, EdgesBuilt, SearchCovers, ErrorIsFinal
<1>6. StackIsPath' = StackIsPath /\ CompleteIsAcyclic' = CompleteIsAcyclic
  BY <1>1, SearchUnchanged
<1> QED BY <1>1, <1>4, <1>5, <1>6 DEF IInv

\* Every step of the walk keeps the invariant.
LEMMA NextIInv == IInv /\ [Next]_vars => IInv'
  BY VisitNodeIInv, ResolveReferenceIInv, StartSearchIInv, FollowEdgeIInv, FinishNodeIInv,
     EnterIInv, ExpandNodeIInv, StutterIInv DEF Next

\* The invariant of the walk: the edges built so far are those the schema
\* evaluates, the stack is a path of them, and finished nodes do not loop.
THEOREM Invariant == Spec => []IInv
  BY InitIInv, NextIInv, PTL DEF Spec

\* Once every node is complete, no set of nodes loops.
LEMMA IInvImpliesCyclesFound == IInv => CyclesFound
<1> SUFFICES ASSUME IInv PROVE CyclesFound
  OBVIOUS
<1>1. error = "schema_reference_cycle" => Cyclic
  BY DEF IInv, ErrorIsFinal
<1>2. ASSUME phase \in {"expand", "done"} PROVE ~ Cyclic
  <2>1. complete = Node /\ CompleteIsAcyclic
    BY <1>2 DEF IInv, SearchCovers
  <2>2. \A i, j \in Node : Multiplicity(i, j) > 0 => Edge(i, j)
    BY <1>2, MultiplicityIsEdge DEF IInv, EdgesBuilt
  <2> QED BY <2>1, <2>2 DEF CompleteIsAcyclic, Cyclic, Loops
<1> QED BY <1>1, <1>2 DEF CyclesFound

\* For every schema and all limits: #rejectCycles throws only when the schema
\* evaluates itself, and lets no such schema through.
THEOREM CyclesAreFound == Spec => []CyclesFound
  BY Invariant, IInvImpliesCyclesFound, PTL

-----------------------------------------------------------------------------
(***************************************************************************)
(* Induction up to a number, and sums.                                     *)
(***************************************************************************)
\* A nonempty set of natural numbers has a least member.
LEMMA LeastNat ==
  ASSUME NEW T \in SUBSET Nat, T # {}
  PROVE  \E x \in T : \A y \in T : x <= y
<1> DEFINE R == {p \in Nat \X Nat : p[1] < p[2]}
<1>1. IsWellFoundedOn(R, Nat)
  BY NatLessThanWellFounded DEF OpToRel
<1>2. \E x \in T : \A y \in T : ~ (<<y, x>> \in R)
  BY <1>1, WFMin, Zenon
<1>3. \A x, y \in Nat : ~ (<<y, x>> \in R) => x <= y
  OBVIOUS
<1> HIDE DEF R
<1> QED BY <1>2, <1>3

\* What holds of 0, and of each number up to n if of the one before, holds up to n.
LEMMA UpTo ==
  ASSUME NEW n \in Nat, NEW T, 0 \in T, \A k \in 1..n : k - 1 \in T => k \in T
  PROVE  \A k \in 0..n : k \in T
<1> SUFFICES ASSUME NEW k \in 0..n, k \notin T PROVE FALSE
  OBVIOUS
<1> DEFINE U == {m \in 0..n : m \notin T}
<1>1. PICK x \in U : \A y \in U : x <= y
  <2>1. U \in SUBSET Nat /\ U # {}
    OBVIOUS
  <2> HIDE DEF U
  <2> QED BY <2>1, LeastNat
<1>2. x \in 1..n /\ x - 1 \in 0..n /\ ~ (x <= x - 1)
  BY <1>1
<1> QED BY <1>1, <1>2

\* The sums of amounts: nothing, and then each amount more.
LEMMA SumsStep ==
  ASSUME NEW n \in Nat, NEW amount
  PROVE  /\ SumsOf(n, amount)[0] = 0
         /\ \A k \in 1..n : SumsOf(n, amount)[k] = SumsOf(n, amount)[k - 1] + amount[k]
<1> DEFINE Rec(g, m) == g = [k \in 0..m |-> IF k = 0 THEN 0 ELSE g[k - 1] + amount[k]]
           T == {m \in 0..n : \E g : Rec(g, m)}
<1>1. 0 \in T
  <2>1. Rec([k \in 0..0 |-> 0], 0)
    OBVIOUS
  <2>2. 0 \in 0..n
    OBVIOUS
  <2> HIDE DEF Rec
  <2> QED BY <2>1, <2>2
<1>2. ASSUME NEW m \in 1..n, NEW g, Rec(g, m - 1) PROVE \E h : Rec(h, m)
  <2> DEFINE h == [k \in 0..m |-> IF k = m THEN g[k - 1] + amount[k] ELSE g[k]]
  <2>1. ASSUME NEW k \in 0..(m - 1) PROVE g[k] = IF k = 0 THEN 0 ELSE g[k - 1] + amount[k]
    BY <1>2
  <2>2. ASSUME NEW k \in 0..m PROVE h[k] = IF k = 0 THEN 0 ELSE h[k - 1] + amount[k]
    <3>1. CASE k = m
      <4>1. k - 1 \in 0..m /\ k - 1 # m /\ k # 0
        BY <3>1
      <4> QED BY <3>1, <4>1
    <3>2. CASE k # m
      <4>1. k \in 0..(m - 1) /\ (k # 0 => k - 1 \in 0..m /\ k - 1 # m)
        BY <3>2
      <4> QED BY <2>1, <4>1, <3>2
    <3> QED BY <3>1, <3>2
  <2>3. h = [k \in 0..m |-> IF k = 0 THEN 0 ELSE h[k - 1] + amount[k]]
    BY <2>2
  <2> QED BY <2>3
<1>3. n \in T
  <2>1. \A m \in 1..n : m - 1 \in T => m \in T
    BY <1>2
  <2> HIDE DEF T
  <2>2. \A m \in 0..n : m \in T
    BY <1>1, <2>1, UpTo
  <2> QED BY <2>2
<1>4. \E g : Rec(g, n)
  BY <1>3
<1>5. SumsOf(n, amount) = [k \in 0..n |-> IF k = 0 THEN 0 ELSE SumsOf(n, amount)[k - 1] + amount[k]]
  BY <1>4 DEF SumsOf
<1> QED BY <1>5

\* Sums of natural numbers are natural numbers, ascend, and are above each amount.
LEMMA SumsAscend ==
  ASSUME NEW n \in Nat, NEW amount, \A k \in 1..n : amount[k] \in Nat
  PROVE  /\ \A k \in 0..n : SumsOf(n, amount)[k] \in Nat /\ SumsOf(n, amount)[k] <= SumOf(n, amount)
         /\ \A k \in 1..n : amount[k] <= SumOf(n, amount)
         /\ SumOf(n, amount) \in Nat
<1> DEFINE S(k) == SumsOf(n, amount)[k]
<1>1. S(0) = 0 /\ \A k \in 1..n : S(k) = S(k - 1) + amount[k]
  BY SumsStep
<1>2. S(n) = SumOf(n, amount)
  BY DEF SumOf
<1> HIDE DEF S
<1> DEFINE T == {m \in 0..n : S(m) \in Nat /\ \A k \in 0..m : S(k) \in Nat /\ S(k) <= S(m)}
<1>3. 0 \in T
  BY <1>1
<1>4. ASSUME NEW m \in 1..n, m - 1 \in T PROVE m \in T
  <2>1. S(m - 1) \in Nat /\ S(m) = S(m - 1) + amount[m] /\ amount[m] \in Nat
    BY <1>1, <1>4
  <2>2. ASSUME NEW k \in 0..m PROVE S(k) \in Nat /\ S(k) <= S(m)
    <3>1. k = m \/ k \in 0..(m - 1)
      OBVIOUS
    <3>2. CASE k = m
      BY <2>1, <3>2
    <3>3. CASE k \in 0..(m - 1)
      BY <1>4, <2>1, <3>3
    <3> QED BY <3>1, <3>2, <3>3
  <2> QED BY <2>1, <2>2
<1>5. \A m \in 0..n : m \in T
  <2> HIDE DEF T
  <2> QED BY <1>3, <1>4, UpTo
<1>6. \A k \in 0..n : S(k) \in Nat /\ S(k) <= S(n)
  BY <1>5
<1>7. ASSUME NEW k \in 1..n PROVE amount[k] <= S(n)
  <2>1. k - 1 \in 0..n /\ k \in 0..n
    OBVIOUS
  <2> QED BY <1>1, <1>6, <2>1
<1> QED BY <1>2, <1>6, <1>7 DEF S

\* The sum of nothing is nothing.
LEMMA SumsOfNothing ==
  ASSUME NEW n \in Nat, NEW amount, \A k \in 1..n : amount[k] = 0
  PROVE  SumOf(n, amount) = 0
<1> DEFINE T == {k \in 0..n : SumsOf(n, amount)[k] = 0}
<1>1. 0 \in T
  BY SumsStep
<1>2. ASSUME NEW k \in 1..n, k - 1 \in T PROVE k \in T
  BY <1>2, SumsStep
<1>3. \A k \in 0..n : k \in T
  <2> HIDE DEF T
  <2> QED BY <1>1, <1>2, UpTo
<1> QED BY <1>3 DEF SumOf

\* Sums of the same amounts are the same, also when more of them follow.
LEMMA SumsAgree ==
  ASSUME NEW n \in Nat, NEW m \in Nat, m <= n, NEW a \in [1..n -> Nat], NEW b \in [1..m -> Nat],
         \A k \in 1..m : a[k] = b[k]
  PROVE  \A k \in 0..m : SumsOf(n, a)[k] = SumsOf(m, b)[k]
<1> DEFINE T == {k \in 0..m : SumsOf(n, a)[k] = SumsOf(m, b)[k]}
<1>1. 0 \in T
  BY SumsStep
<1>2. ASSUME NEW k \in 1..m, k - 1 \in T PROVE k \in T
  <2>1. k \in 1..n
    OBVIOUS
  <2>2. SumsOf(n, a)[k] = SumsOf(n, a)[k - 1] + a[k] /\ SumsOf(m, b)[k] = SumsOf(m, b)[k - 1] + b[k]
    BY <2>1, SumsStep
  <2> QED BY <1>2, <2>2
<1>3. \A k \in 0..m : k \in T
  <2> HIDE DEF T
  <2> QED BY <1>1, <1>2, UpTo
<1> QED BY <1>3

\* Sums of what differs at one place differ by as much.
LEMMA SumsDiffer ==
  ASSUME NEW n \in Nat, NEW a \in [1..n -> Nat], NEW b \in [1..n -> Nat], NEW t \in 1..n,
         NEW d \in Nat, b[t] = a[t] + d, \A k \in 1..n : k # t => b[k] = a[k]
  PROVE  SumOf(n, b) = SumOf(n, a) + d
<1>0. \A k \in 1..n : a[k] \in Nat
  OBVIOUS
<1> DEFINE A(k) == SumsOf(n, a)[k]
           B(k) == SumsOf(n, b)[k]
<1>1. /\ A(0) = 0 /\ B(0) = 0
      /\ \A k \in 1..n : A(k) = A(k - 1) + a[k] /\ B(k) = B(k - 1) + b[k]
  BY SumsStep
<1>2. \A k \in 0..n : A(k) \in Nat
  BY <1>0, SumsAscend
<1>3. A(n) = SumOf(n, a) /\ B(n) = SumOf(n, b)
  BY DEF SumOf
<1> HIDE DEF A, B
<1> DEFINE T == {k \in 0..n : B(k) = IF k < t THEN A(k) ELSE A(k) + d}
<1>4. 0 \in T
  BY <1>1
<1>5. ASSUME NEW k \in 1..n, k - 1 \in T PROVE k \in T
  <2>1. A(k) = A(k - 1) + a[k] /\ B(k) = B(k - 1) + b[k] /\ A(k - 1) \in Nat /\ a[k] \in Nat
    BY <1>0, <1>1, <1>2
  <2>2. CASE k < t
    BY <1>5, <2>1, <2>2
  <2>3. CASE k = t
    BY <1>5, <2>1, <2>3
  <2>4. CASE k > t
    BY <1>5, <2>1, <2>4
  <2> QED BY <2>2, <2>3, <2>4
<1>6. \A k \in 0..n : k \in T
  <2> HIDE DEF T
  <2> QED BY <1>4, <1>5, UpTo
<1> QED BY <1>3, <1>6

-----------------------------------------------------------------------------
(***************************************************************************)
(* Paths and totals along the evaluations of a schema.                     *)
(***************************************************************************)
\* What spreads from the nodes a node evaluates is nothing only if nothing is
\* at any of them.
LEMMA SpreadType ==
  ASSUME Len(schema) \in Nat, NEW f \in [Node -> Nat], NEW i
  PROVE  /\ Spread(f, i) \in Nat
         /\ \A j \in Node : Multiplicity(i, j) > 0 => f[j] <= Spread(f, i)
         /\ (\A j \in Node : Multiplicity(i, j) > 0 => f[j] = 0) => Spread(f, i) = 0
<1> DEFINE n == Len(schema)
           a == [j \in Node |-> Multiplicity(i, j) * f[j]]
<1>1. \A j : Multiplicity(i, j) \in {0, 1, 2}
  BY DEF Multiplicity
<1>2. \A j \in Node : f[j] \in Nat
  OBVIOUS
<1>3. \A j \in Node : /\ a[j] \in Nat
                      /\ Multiplicity(i, j) > 0 => f[j] <= a[j]
                      /\ ~ (Multiplicity(i, j) > 0) => a[j] = 0
                      /\ f[j] = 0 => a[j] = 0
  BY <1>1, <1>2
<1>4. Node = 1..n
  BY DEF Node
<1>5. Spread(f, i) = SumOf(n, a)
  BY DEF Spread
<1> HIDE DEF a, n
<1>6. n \in Nat
  BY DEF n
<1>7. SumOf(n, a) \in Nat /\ \A j \in 1..n : a[j] <= SumOf(n, a)
  BY <1>3, <1>4, <1>6, SumsAscend
<1>8. ASSUME NEW j \in Node, Multiplicity(i, j) > 0 PROVE f[j] <= Spread(f, i)
  <2>1. f[j] \in Nat /\ a[j] \in Nat /\ f[j] <= a[j] /\ a[j] <= SumOf(n, a)
    BY <1>2, <1>3, <1>4, <1>7, <1>8
  <2> QED BY <1>5, <1>7, <2>1
<1>9. ASSUME \A j \in Node : Multiplicity(i, j) > 0 => f[j] = 0 PROVE Spread(f, i) = 0
  <2>1. \A j \in 1..n : a[j] = 0
    BY <1>3, <1>4, <1>9
  <2> QED BY <1>5, <1>6, <2>1, SumsOfNothing
<1> QED BY <1>5, <1>7, <1>8, <1>9

\* Spreading depends only on what is at the nodes that are evaluated.
LEMMA SpreadAgrees ==
  ASSUME Len(schema) \in Nat, NEW f \in [Node -> Nat], NEW g \in [Node -> Nat], NEW i,
         \A j \in Node : Multiplicity(i, j) > 0 => f[j] = g[j]
  PROVE  Spread(f, i) = Spread(g, i)
<1> DEFINE n == Len(schema)
           a == [j \in Node |-> Multiplicity(i, j) * f[j]]
           b == [j \in Node |-> Multiplicity(i, j) * g[j]]
<1>1. \A j : Multiplicity(i, j) \in {0, 1, 2}
  BY DEF Multiplicity
<1>2. \A j \in Node : f[j] \in Nat /\ g[j] \in Nat
  OBVIOUS
<1>3. \A j \in Node : a[j] = b[j]
  BY <1>1, <1>2
<1>4. Spread(f, i) = SumOf(n, a) /\ Spread(g, i) = SumOf(n, b) /\ Node = 1..n
  BY DEF Spread, Node
<1>5. a = b
  BY <1>3
<1> QED BY <1>4, <1>5

\* Paths are as many as the definition says.
LEMMA PathsStep ==
  ASSUME Len(schema) \in Nat
  PROVE  /\ Paths[0] = [i \in Node |-> 1]
         /\ \A k \in 1..Len(schema) : Paths[k] = [i \in Node |-> Spread(Paths[k - 1], i)]
<1> DEFINE Rec(g, m) == g = [k \in 0..m |-> IF k = 0 THEN [i \in Node |-> 1] ELSE [i \in Node |-> Spread(g[k - 1], i)]]
           T == {m \in 0..Len(schema) : \E g : Rec(g, m)}
<1>1. 0 \in T
  <2>1. Rec([k \in 0..0 |-> [i \in Node |-> 1]], 0)
    OBVIOUS
  <2>2. 0 \in 0..Len(schema)
    OBVIOUS
  <2> HIDE DEF Rec
  <2> QED BY <2>1, <2>2
<1>2. ASSUME NEW m \in 1..Len(schema), NEW g, Rec(g, m - 1) PROVE \E h : Rec(h, m)
  <2> DEFINE h == [k \in 0..m |-> IF k = m THEN [i \in Node |-> Spread(g[k - 1], i)] ELSE g[k]]
  <2>1. ASSUME NEW k \in 0..(m - 1)
        PROVE  g[k] = IF k = 0 THEN [i \in Node |-> 1] ELSE [i \in Node |-> Spread(g[k - 1], i)]
    BY <1>2
  <2>2. ASSUME NEW k \in 0..m
        PROVE  h[k] = IF k = 0 THEN [i \in Node |-> 1] ELSE [i \in Node |-> Spread(h[k - 1], i)]
    <3>1. CASE k = m
      <4>1. k - 1 \in 0..m /\ k - 1 # m /\ k # 0
        BY <3>1
      <4> QED BY <3>1, <4>1
    <3>2. CASE k # m
      <4>1. k \in 0..(m - 1) /\ (k # 0 => k - 1 \in 0..m /\ k - 1 # m)
        BY <3>2
      <4> QED BY <2>1, <4>1, <3>2
    <3> QED BY <3>1, <3>2
  <2>3. h = [k \in 0..m |-> IF k = 0 THEN [i \in Node |-> 1] ELSE [i \in Node |-> Spread(h[k - 1], i)]]
    BY <2>2
  <2> QED BY <2>3
<1>3. Len(schema) \in T
  <2>1. \A m \in 1..Len(schema) : m - 1 \in T => m \in T
    BY <1>2
  <2> HIDE DEF T
  <2>2. \A m \in 0..Len(schema) : m \in T
    BY <1>1, <2>1, UpTo
  <2> QED BY <2>2
<1>4. \E g : Rec(g, Len(schema))
  BY <1>3
<1>5. Paths = [k \in 0..Len(schema) |-> IF k = 0 THEN [i \in Node |-> 1]
                                         ELSE [i \in Node |-> Spread(Paths[k - 1], i)]]
  BY <1>4 DEF Paths
<1>6. \A k \in 0..Len(schema) :
        Paths[k] = IF k = 0 THEN [i \in Node |-> 1] ELSE [i \in Node |-> Spread(Paths[k - 1], i)]
  BY <1>5
<1>7. 0 \in 0..Len(schema) /\ \A k \in 1..Len(schema) : k \in 0..Len(schema) /\ k # 0
  OBVIOUS
<1> QED BY <1>6, <1>7, Zenon

\* And so are totals.
LEMMA TotalsStep ==
  ASSUME Len(schema) \in Nat, NEW amount
  PROVE  /\ Totals(amount)[0] = amount
         /\ \A k \in 1..Len(schema) :
              Totals(amount)[k] = [i \in Node |-> amount[i] + Spread(Totals(amount)[k - 1], i)]
<1> DEFINE Rec(g, m) == g = [k \in 0..m |-> IF k = 0 THEN amount ELSE [i \in Node |-> amount[i] + Spread(g[k - 1], i)]]
           T == {m \in 0..Len(schema) : \E g : Rec(g, m)}
<1>1. 0 \in T
  <2>1. Rec([k \in 0..0 |-> amount], 0)
    OBVIOUS
  <2>2. 0 \in 0..Len(schema)
    OBVIOUS
  <2> HIDE DEF Rec
  <2> QED BY <2>1, <2>2
<1>2. ASSUME NEW m \in 1..Len(schema), NEW g, Rec(g, m - 1) PROVE \E h : Rec(h, m)
  <2> DEFINE h == [k \in 0..m |-> IF k = m THEN [i \in Node |-> amount[i] + Spread(g[k - 1], i)] ELSE g[k]]
  <2>1. ASSUME NEW k \in 0..(m - 1)
        PROVE  g[k] = IF k = 0 THEN amount ELSE [i \in Node |-> amount[i] + Spread(g[k - 1], i)]
    BY <1>2
  <2>2. ASSUME NEW k \in 0..m
        PROVE  h[k] = IF k = 0 THEN amount ELSE [i \in Node |-> amount[i] + Spread(h[k - 1], i)]
    <3>1. CASE k = m
      <4>1. k - 1 \in 0..m /\ k - 1 # m /\ k # 0
        BY <3>1
      <4> QED BY <3>1, <4>1
    <3>2. CASE k # m
      <4>1. k \in 0..(m - 1) /\ (k # 0 => k - 1 \in 0..m /\ k - 1 # m)
        BY <3>2
      <4> QED BY <2>1, <4>1, <3>2
    <3> QED BY <3>1, <3>2
  <2>3. h = [k \in 0..m |-> IF k = 0 THEN amount ELSE [i \in Node |-> amount[i] + Spread(h[k - 1], i)]]
    BY <2>2
  <2> QED BY <2>3
<1>3. Len(schema) \in T
  <2>1. \A m \in 1..Len(schema) : m - 1 \in T => m \in T
    BY <1>2
  <2> HIDE DEF T
  <2>2. \A m \in 0..Len(schema) : m \in T
    BY <1>1, <2>1, UpTo
  <2> QED BY <2>2
<1>4. \E g : Rec(g, Len(schema))
  BY <1>3
<1>5. Totals(amount) = [k \in 0..Len(schema) |->
                         IF k = 0 THEN amount
                         ELSE [i \in Node |-> amount[i] + Spread(Totals(amount)[k - 1], i)]]
  BY <1>4 DEF Totals
<1>6. \A k \in 0..Len(schema) :
        Totals(amount)[k] = IF k = 0 THEN amount
                            ELSE [i \in Node |-> amount[i] + Spread(Totals(amount)[k - 1], i)]
  BY <1>5
<1>7. 0 \in 0..Len(schema) /\ \A k \in 1..Len(schema) : k \in 0..Len(schema) /\ k # 0
  OBVIOUS
<1> QED BY <1>6, <1>7, Zenon

\* Both are numbers.
LEMMA PathsType ==
  ASSUME Len(schema) \in Nat
  PROVE  \A k \in 0..Len(schema) : Paths[k] \in [Node -> Nat]
<1> DEFINE T == {k \in 0..Len(schema) : Paths[k] \in [Node -> Nat]}
<1>1. 0 \in T
  BY PathsStep
<1>2. ASSUME NEW k \in 1..Len(schema), k - 1 \in T PROVE k \in T
  <2>1. \A i \in Node : Spread(Paths[k - 1], i) \in Nat
    BY <1>2, SpreadType
  <2>2. Paths[k] = [i \in Node |-> Spread(Paths[k - 1], i)]
    BY PathsStep
  <2>3. Paths[k] \in [Node -> Nat]
    BY <2>1, <2>2
  <2> QED BY <2>3
<1>3. \A k \in 0..Len(schema) : k \in T
  <2> HIDE DEF T
  <2> QED BY <1>1, <1>2, UpTo
<1> QED BY <1>3

LEMMA TotalsType ==
  ASSUME Len(schema) \in Nat, NEW amount \in [Node -> Nat]
  PROVE  \A k \in 0..Len(schema) : Totals(amount)[k] \in [Node -> Nat]
<1> DEFINE T == {k \in 0..Len(schema) : Totals(amount)[k] \in [Node -> Nat]}
<1>1. 0 \in T
  BY TotalsStep
<1>2. ASSUME NEW k \in 1..Len(schema), k - 1 \in T PROVE k \in T
  <2>1. \A i \in Node : amount[i] + Spread(Totals(amount)[k - 1], i) \in Nat
    BY <1>2, SpreadType
  <2>2. Totals(amount)[k] = [i \in Node |-> amount[i] + Spread(Totals(amount)[k - 1], i)]
    BY TotalsStep
  <2>3. Totals(amount)[k] \in [Node -> Nat]
    BY <2>1, <2>2
  <2> QED BY <2>3
<1>3. \A k \in 0..Len(schema) : k \in T
  <2> HIDE DEF T
  <2> QED BY <1>1, <1>2, UpTo
<1> QED BY <1>3

\* Where k + 1 steps can be made, k can.
LEMMA PathsShrink ==
  ASSUME Len(schema) \in Nat
  PROVE  \A k \in 1..Len(schema), i \in Node : Paths[k][i] > 0 => Paths[k - 1][i] > 0
<1> DEFINE P(k, i) == k > 0 /\ Paths[k][i] > 0 => Paths[k - 1][i] > 0
           T == {k \in 0..Len(schema) : \A i \in Node : P(k, i)}
<1>1. 0 \in T
  OBVIOUS
<1>2. ASSUME NEW k \in 1..Len(schema), k - 1 \in T PROVE k \in T
  <2> SUFFICES ASSUME NEW i \in Node, Paths[k][i] > 0 PROVE Paths[k - 1][i] > 0
    OBVIOUS
  <2>1. Paths[k - 1] \in [Node -> Nat] /\ Paths[k] = [x \in Node |-> Spread(Paths[k - 1], x)]
    BY PathsType, PathsStep
  <2>2. PICK j \in Node : Multiplicity(i, j) > 0 /\ Paths[k - 1][j] > 0
    <3>1. Spread(Paths[k - 1], i) # 0
      BY <2>1
    <3>2. (\A j \in Node : Multiplicity(i, j) > 0 => Paths[k - 1][j] = 0) => Spread(Paths[k - 1], i) = 0
      BY <2>1, SpreadType
    <3>3. PICK j \in Node : Multiplicity(i, j) > 0 /\ Paths[k - 1][j] # 0
      BY <3>1, <3>2
    <3>4. Paths[k - 1][j] \in Nat
      BY <2>1
    <3> QED BY <3>3, <3>4
  <2>3. CASE k = 1
    BY <2>3, PathsStep
  <2>4. CASE k # 1
    <3>1. k - 1 \in 1..Len(schema) /\ k - 2 \in 0..Len(schema) /\ k - 1 - 1 = k - 2
      BY <2>4
    <3>2. Paths[k - 2][j] > 0
      BY <1>2, <2>2, <3>1
    <3>3. Paths[k - 2] \in [Node -> Nat] /\ Paths[k - 1] = [x \in Node |-> Spread(Paths[k - 2], x)]
      BY <3>1, PathsType, PathsStep
    <3>4. Paths[k - 2][j] <= Spread(Paths[k - 2], i) /\ Spread(Paths[k - 2], i) \in Nat
      BY <2>2, <3>3, SpreadType
    <3>5. Paths[k - 2][j] \in Nat /\ Paths[k - 1][i] = Spread(Paths[k - 2], i)
      BY <3>3
    <3> QED BY <3>2, <3>4, <3>5
  <2> QED BY <2>3, <2>4
<1>3. \A k \in 0..Len(schema) : k \in T
  <2> HIDE DEF T
  <2> QED BY <1>1, <1>2, UpTo
<1> QED BY <1>3

\* So no path is longer than one that cannot be continued.
LEMMA PathsEnd ==
  ASSUME Len(schema) \in Nat, NEW k \in 0..Len(schema), NEW i \in Node, Paths[k][i] = 0
  PROVE  \A l \in 0..Len(schema) : l >= k => Paths[l][i] = 0
<1> DEFINE T == {l \in 0..Len(schema) : l >= k => Paths[l][i] = 0}
<1>1. 0 \in T
  <2>1. 0 >= k => k = 0
    OBVIOUS
  <2> QED BY <2>1
<1>2. ASSUME NEW l \in 1..Len(schema), l - 1 \in T PROVE l \in T
  <2>1. CASE l = k
    BY <2>1
  <2>2. CASE l > k
    <3>1. Paths[l - 1][i] = 0
      BY <1>2, <2>2
    <3>2. Paths[l][i] \in Nat
      <4>1. Paths[l] \in [Node -> Nat]
        BY PathsType
      <4> QED BY <4>1
    <3>3. Paths[l][i] > 0 => Paths[l - 1][i] > 0
      BY PathsShrink
    <3> QED BY <3>1, <3>2, <3>3
  <2>3. CASE l < k
    BY <2>3
  <2> QED BY <2>1, <2>2, <2>3
<1>3. \A l \in 0..Len(schema) : l \in T
  <2> HIDE DEF T
  <2> QED BY <1>1, <1>2, UpTo
<1> QED BY <1>3

\* Without a loop there are ever fewer nodes from which k steps can be made, and
\* none from which as many can be made as there are nodes.
LEMMA AcyclicPathsEnd ==
  ASSUME Len(schema) \in Nat, ~ Cyclic
  PROVE  \A i \in Node : Paths[Len(schema)][i] = 0
<1> DEFINE S(k) == {i \in Node : Paths[k][i] > 0}
           T == {k \in 0..Len(schema) : Cardinality(S(k)) <= Len(schema) - k}
<1>1. IsFiniteSet(Node) /\ Cardinality(Node) = Len(schema)
  <2>1. IsFiniteSet(1..Len(schema)) /\ Cardinality(1..Len(schema)) = IF 1 > Len(schema) THEN 0 ELSE Len(schema) - 1 + 1
    BY FS_Interval
  <2> QED BY <2>1 DEF Node
<1>2. \A k \in 0..Len(schema) : IsFiniteSet(S(k)) /\ Cardinality(S(k)) \in Nat
                                /\ Cardinality(S(k)) <= Len(schema)
  <2> TAKE k \in 0..Len(schema)
  <2>1. S(k) \subseteq Node
    OBVIOUS
  <2> HIDE DEF S
  <2>2. IsFiniteSet(S(k)) /\ Cardinality(S(k)) <= Cardinality(Node)
    BY <1>1, <2>1, FS_Subset
  <2> QED BY <1>1, <2>2, FS_CardinalityType
<1>3. \A k \in 1..Len(schema) : S(k) \subseteq S(k - 1)
  BY PathsShrink
<1>4. ASSUME NEW k \in 1..Len(schema), S(k) = S(k - 1) PROVE S(k) = {}
  <2>1. Paths[k - 1] \in [Node -> Nat] /\ Paths[k] = [x \in Node |-> Spread(Paths[k - 1], x)]
    BY PathsType, PathsStep
  <2>2. ASSUME NEW i \in S(k) PROVE \E j \in S(k) : Multiplicity(i, j) > 0
    <3>1. i \in Node /\ Spread(Paths[k - 1], i) # 0
      BY <2>1, <2>2
    <3>2. (\A j \in Node : Multiplicity(i, j) > 0 => Paths[k - 1][j] = 0) => Spread(Paths[k - 1], i) = 0
      BY <2>1, SpreadType
    <3>3. PICK j \in Node : Multiplicity(i, j) > 0 /\ Paths[k - 1][j] # 0
      BY <3>1, <3>2
    <3>4. Paths[k - 1][j] \in Nat
      BY <2>1
    <3>5. j \in S(k - 1)
      BY <3>3, <3>4
    <3> QED BY <1>4, <3>3, <3>5
  <2>3. Loops(S(k)) /\ S(k) \in SUBSET Node
    BY <2>2 DEF Loops
  <2> HIDE DEF S
  <2> QED BY <2>3 DEF Cyclic
<1>5. 0 \in T
  <2>1. 0 \in 0..Len(schema) /\ Len(schema) - 0 = Len(schema)
    OBVIOUS
  <2>2. Cardinality(S(0)) <= Len(schema)
    BY <1>2, <2>1
  <2> HIDE DEF S
  <2> QED BY <2>1, <2>2
<1>6. ASSUME NEW k \in 1..Len(schema), k - 1 \in T PROVE k \in T
  <2>1. k - 1 \in 0..Len(schema) /\ k \in 0..Len(schema)
    OBVIOUS
  <2>2. Cardinality(S(k - 1)) <= Len(schema) - (k - 1)
    BY <1>6
  <2>3. S(k) \subseteq S(k - 1)
    BY <1>3
  <2>4. S(k) = S(k - 1) => S(k) = {}
    BY <1>4
  <2>5. /\ IsFiniteSet(S(k - 1)) /\ Cardinality(S(k - 1)) \in Nat
        /\ IsFiniteSet(S(k)) /\ Cardinality(S(k)) \in Nat
    BY <1>2, <2>1
  <2> HIDE DEF S
  <2>6. CASE S(k) = S(k - 1)
    <3>1. Cardinality(S(k)) = 0
      BY <2>4, <2>6, FS_EmptySet
    <3> QED BY <2>1, <3>1
  <2>7. CASE S(k) # S(k - 1)
    <3>1. Cardinality(S(k)) < Cardinality(S(k - 1))
      <4>1. Cardinality(S(k)) <= Cardinality(S(k - 1))
            /\ (Cardinality(S(k)) = Cardinality(S(k - 1)) => S(k) = S(k - 1))
        BY <2>3, <2>5, FS_Subset
      <4> QED BY <2>5, <2>7, <4>1
    <3> QED BY <2>1, <2>2, <2>5, <3>1
  <2> QED BY <2>6, <2>7
<1>7. \A k \in 0..Len(schema) : k \in T
  <2> HIDE DEF T
  <2> QED BY <1>5, <1>6, UpTo
<1>8. Len(schema) \in 0..Len(schema)
  OBVIOUS
<1>9. S(Len(schema)) = {}
  <2>1. Cardinality(S(Len(schema))) <= 0 /\ Cardinality(S(Len(schema))) \in Nat /\ IsFiniteSet(S(Len(schema)))
    BY <1>2, <1>7, <1>8
  <2> HIDE DEF S
  <2> QED BY <2>1, FS_EmptySet
<1>10. Paths[Len(schema)] \in [Node -> Nat]
  BY <1>8, PathsType
<1> QED BY <1>9, <1>10

\* A node from which k steps cannot be made adds nothing after k - 1 steps.
LEMMA TotalsSettle ==
  ASSUME Len(schema) \in Nat, NEW amount \in [Node -> Nat]
  PROVE  \A k \in 1..Len(schema), i \in Node :
           Paths[k][i] = 0 => Totals(amount)[k][i] = Totals(amount)[k - 1][i]
<1> DEFINE P(k, i) == k > 0 /\ Paths[k][i] = 0 => Totals(amount)[k][i] = Totals(amount)[k - 1][i]
           T == {k \in 0..Len(schema) : \A i \in Node : P(k, i)}
<1>1. 0 \in T
  OBVIOUS
<1>2. ASSUME NEW k \in 1..Len(schema), k - 1 \in T PROVE k \in T
  <2> SUFFICES ASSUME NEW i \in Node, Paths[k][i] = 0
               PROVE  Totals(amount)[k][i] = Totals(amount)[k - 1][i]
    OBVIOUS
  <2>1. Paths[k - 1] \in [Node -> Nat] /\ Paths[k] = [x \in Node |-> Spread(Paths[k - 1], x)]
    BY PathsType, PathsStep
  <2>2. \A j \in Node : Multiplicity(i, j) > 0 => Paths[k - 1][j] = 0
    <3>1. Spread(Paths[k - 1], i) = 0
      BY <2>1
    <3>2. \A j \in Node : Multiplicity(i, j) > 0 => Paths[k - 1][j] <= Spread(Paths[k - 1], i)
      BY <2>1, SpreadType
    <3>3. \A j \in Node : Paths[k - 1][j] \in Nat
      BY <2>1
    <3> QED BY <3>1, <3>2, <3>3
  <2>3. Totals(amount)[k - 1] \in [Node -> Nat]
        /\ Totals(amount)[k] = [x \in Node |-> amount[x] + Spread(Totals(amount)[k - 1], x)]
    BY TotalsType, TotalsStep
  <2>4. CASE k = 1
    <3>1. Totals(amount)[0] = amount /\ Paths[0] = [x \in Node |-> 1]
      BY PathsStep, TotalsStep
    <3>2. \A j \in Node : ~ (Multiplicity(i, j) > 0)
      BY <2>2, <2>4, <3>1
    <3>3. Spread(Totals(amount)[k - 1], i) = 0
      BY <2>3, <3>2, SpreadType
    <3> QED BY <2>3, <2>4, <3>1, <3>3
  <2>5. CASE k # 1
    <3>1. k - 1 \in 1..Len(schema) /\ k - 2 \in 0..Len(schema) /\ k - 1 - 1 = k - 2
      BY <2>5
    <3>2. \A j \in Node : Multiplicity(i, j) > 0 => Totals(amount)[k - 1][j] = Totals(amount)[k - 2][j]
      BY <1>2, <2>2, <3>1
    <3>3. Totals(amount)[k - 2] \in [Node -> Nat]
      BY <3>1, TotalsType
    <3>4. Totals(amount)[k - 1] = [x \in Node |-> amount[x] + Spread(Totals(amount)[k - 1 - 1], x)]
      BY <3>1, TotalsStep
    <3>5. Totals(amount)[k - 1] = [x \in Node |-> amount[x] + Spread(Totals(amount)[k - 2], x)]
      BY <3>1, <3>4
    <3> DEFINE f == Totals(amount)[k - 1]
               g == Totals(amount)[k - 2]
    <3>6. f \in [Node -> Nat] /\ g \in [Node -> Nat]
          /\ \A j \in Node : Multiplicity(i, j) > 0 => f[j] = g[j]
      BY <2>3, <3>2, <3>3
    <3>7. Spread(f, i) = Spread(g, i)
      <4> HIDE DEF f, g
      <4> QED BY <3>6, SpreadAgrees
    <3> QED BY <2>3, <3>5, <3>7
  <2> QED BY <2>4, <2>5
<1>3. \A k \in 0..Len(schema) : k \in T
  <2> HIDE DEF T
  <2> QED BY <1>1, <1>2, UpTo
<1> QED BY <1>3

\* Without a loop, the total of a node is its own amount and the totals of what
\* it evaluates.
LEMMA TotalIsFixpoint ==
  ASSUME Len(schema) \in Nat, Len(schema) > 0, ~ Cyclic, NEW amount \in [Node -> Nat]
  PROVE  /\ Total(amount) \in [Node -> Nat]
         /\ \A i \in Node : Total(amount)[i] = amount[i] + Spread(Total(amount), i)
<1>1. Len(schema) \in 1..Len(schema) /\ Len(schema) \in 0..Len(schema) /\ Len(schema) - 1 \in 0..Len(schema)
  OBVIOUS
<1>2. /\ Totals(amount)[Len(schema)] \in [Node -> Nat]
      /\ Totals(amount)[Len(schema) - 1] \in [Node -> Nat]
      /\ Totals(amount)[Len(schema)]
           = [i \in Node |-> amount[i] + Spread(Totals(amount)[Len(schema) - 1], i)]
  BY <1>1, TotalsType, TotalsStep
<1>3. \A i \in Node : Totals(amount)[Len(schema)][i] = Totals(amount)[Len(schema) - 1][i]
  BY <1>1, AcyclicPathsEnd, TotalsSettle
<1>4. Totals(amount)[Len(schema)] = Totals(amount)[Len(schema) - 1]
  BY <1>2, <1>3
<1> QED BY <1>2, <1>4 DEF Total

-----------------------------------------------------------------------------
(***************************************************************************)
(* What #expansion returns, and when it gives up.                          *)
(***************************************************************************)
\* An amount along the edges of a node.
Along(f, i) == [k \in DOMAIN edges[i] |-> f[edges[i][k]]]

EdgeSum(f, i) == SumOf(Len(edges[i]), Along(f, i))

\* What expansion may rely on: no schema that loops, and edges that are exactly
\* the evaluations of each node, as often as it makes them.
Expandable ==
  /\ schema \in Seq(Item) /\ Len(schema) \in Nat /\ Len(schema) > 0
  /\ ~ Cyclic
  /\ edges \in [Node -> Seq(Node)]
  /\ \A i, j \in Node : Multiplicity(i, j) > 0 <=> Edge(i, j)
  /\ \A f \in [Node -> Nat], i \in Node : EdgeSum(f, i) = Spread(f, i)

TooLong == "schema_reference_expansion_limit"
TooHeavy == "schema_static_work_limit"

\* A call for n with so many levels left gives up only if the schema is too large.
GivesUpRightly(e, n, left) ==
  /\ e.error \in {"none", TooLong, TooHeavy}
  /\ e.error = TooHeavy => \E i \in Node : Weights[i] > MaxWeight
  /\ e.error = TooLong =>
       \/ \E i \in Node : Visits[i] > MaxExpansion
       \/ left <= Len(schema) /\ Paths[left][n] > 0

\* And returns only totals within the limits, of paths within the depth.
ReturnsTotals(e, n, left) ==
  e.error = "none" =>
    /\ e.visits = Visits[n] /\ Visits[n] <= MaxExpansion
    /\ e.weight = Weights[n] /\ Weights[n] <= MaxWeight
    /\ left <= Len(schema) => Paths[left][n] = 0

\* The loop has added up the first k edges of n, and none of their calls gave up.
AddsUp(sum, children, n, k) ==
  sum.error = "none" =>
    /\ sum.visits = 1 + SumsOf(Len(edges[n]), Along(Visits, n))[k]
    /\ sum.weight = schema[n].weight + SumsOf(Len(edges[n]), Along(Weights, n))[k]
    /\ sum.visits <= MaxExpansion /\ sum.weight <= MaxWeight
    /\ \A m \in 1..k : children[edges[n][m]].error = "none"

\* The loop starts with the node alone and adds one edge after the other.
LEMMA LoopStep ==
  ASSUME NEW n, NEW children, Len(edges[n]) \in Nat
  PROVE  /\ Sums(n, children)[0] = Alone(n)
         /\ \A k \in 1..Len(edges[n]) :
              Sums(n, children)[k] = Add(Sums(n, children)[k - 1], children[edges[n][k]])
<1> DEFINE L == Len(edges[n])
           Rec(g, m) == g = [k \in 0..m |-> IF k = 0 THEN Alone(n) ELSE Add(g[k - 1], children[edges[n][k]])]
           T == {m \in 0..L : \E g : Rec(g, m)}
<1>1. 0 \in T
  <2>1. Rec([k \in 0..0 |-> Alone(n)], 0)
    OBVIOUS
  <2>2. 0 \in 0..L
    OBVIOUS
  <2> HIDE DEF Rec
  <2> QED BY <2>1, <2>2
<1>2. ASSUME NEW m \in 1..L, NEW g, Rec(g, m - 1) PROVE \E h : Rec(h, m)
  <2> DEFINE h == [k \in 0..m |-> IF k = m THEN Add(g[k - 1], children[edges[n][k]]) ELSE g[k]]
  <2>1. ASSUME NEW k \in 0..(m - 1)
        PROVE  g[k] = IF k = 0 THEN Alone(n) ELSE Add(g[k - 1], children[edges[n][k]])
    BY <1>2
  <2>2. ASSUME NEW k \in 0..m
        PROVE  h[k] = IF k = 0 THEN Alone(n) ELSE Add(h[k - 1], children[edges[n][k]])
    <3>1. CASE k = m
      <4>1. k - 1 \in 0..m /\ k - 1 # m /\ k # 0
        BY <3>1
      <4> QED BY <3>1, <4>1
    <3>2. CASE k # m
      <4>1. k \in 0..(m - 1) /\ (k # 0 => k - 1 \in 0..m /\ k - 1 # m)
        BY <3>2
      <4> QED BY <2>1, <4>1, <3>2
    <3> QED BY <3>1, <3>2
  <2>3. h = [k \in 0..m |-> IF k = 0 THEN Alone(n) ELSE Add(h[k - 1], children[edges[n][k]])]
    BY <2>2
  <2> QED BY <2>3
<1>3. L \in T
  <2>0. \A m \in 1..L : (\E g : Rec(g, m - 1)) => \E h : Rec(h, m)
    BY <1>2
  <2>1. \A m \in 1..L : m - 1 \in T => m \in T
    <3> HIDE DEF Rec
    <3> QED BY <2>0
  <2> HIDE DEF T
  <2>2. \A m \in 0..L : m \in T
    BY <1>1, <2>1, UpTo
  <2> QED BY <2>2
<1>4. \E g : Rec(g, L)
  BY <1>3
<1>5. Sums(n, children) = [k \in 0..L |-> IF k = 0 THEN Alone(n)
                                          ELSE Add(Sums(n, children)[k - 1], children[edges[n][k]])]
  BY <1>4 DEF Sums
<1>6. \A k \in 0..L : Sums(n, children)[k] = IF k = 0 THEN Alone(n)
                                             ELSE Add(Sums(n, children)[k - 1], children[edges[n][k]])
  BY <1>5
<1>7. 0 \in 0..L /\ \A k \in 1..L : k \in 0..L /\ k # 0
  OBVIOUS
<1> QED BY <1>6, <1>7, Zenon

NoCall == [n \in Node |-> [visits |-> 0, weight |-> 0, error |-> TooLong]]

\* Calls without levels left give up, and all others run the loop on their callees.
LEMMA CallsStep ==
  /\ Calls[0] = NoCall
  /\ \A left \in 1..(MaxEvaluationDepth + 1) :
       Calls[left] = [n \in Node |-> Sums(n, Calls[left - 1])[Len(edges[n])]]
<1> DEFINE L == MaxEvaluationDepth + 1
           Turn(c) == [n \in Node |-> Sums(n, c)[Len(edges[n])]]
           Rec(g, m) == g = [k \in 0..m |-> IF k = 0 THEN NoCall ELSE Turn(g[k - 1])]
           T == {m \in 0..L : \E g : Rec(g, m)}
<1>0. L \in Nat
  BY ConstantsAssumption
<1> HIDE DEF L
<1>1. 0 \in T
  <2>1. Rec([k \in 0..0 |-> NoCall], 0)
    OBVIOUS
  <2>2. 0 \in 0..L
    BY <1>0
  <2> HIDE DEF Rec
  <2> QED BY <2>1, <2>2
<1>2. ASSUME NEW m \in 1..L, NEW g, Rec(g, m - 1) PROVE \E h : Rec(h, m)
  <2> HIDE DEF Turn
  <2> DEFINE h == [k \in 0..m |-> IF k = m THEN Turn(g[k - 1]) ELSE g[k]]
  <2>1. ASSUME NEW k \in 0..(m - 1) PROVE g[k] = IF k = 0 THEN NoCall ELSE Turn(g[k - 1])
    BY <1>2
  <2>2. ASSUME NEW k \in 0..m PROVE h[k] = IF k = 0 THEN NoCall ELSE Turn(h[k - 1])
    <3>1. CASE k = m
      <4>1. k - 1 \in 0..m /\ k - 1 # m /\ k # 0
        BY <3>1, <1>0
      <4> QED BY <3>1, <4>1
    <3>2. CASE k # m
      <4>1. k \in 0..(m - 1) /\ (k # 0 => k - 1 \in 0..m /\ k - 1 # m)
        BY <3>2, <1>0
      <4> QED BY <2>1, <4>1, <3>2
    <3> QED BY <3>1, <3>2
  <2>3. h = [k \in 0..m |-> IF k = 0 THEN NoCall ELSE Turn(h[k - 1])]
    BY <2>2
  <2> QED BY <2>3
<1>3. L \in T
  <2>0. \A m \in 1..L : (\E g : Rec(g, m - 1)) => \E h : Rec(h, m)
    BY <1>2
  <2>1. \A m \in 1..L : m - 1 \in T => m \in T
    <3> HIDE DEF Rec
    <3> QED BY <2>0
  <2> HIDE DEF T
  <2>2. \A m \in 0..L : m \in T
    BY <1>0, <1>1, <2>1, UpTo
  <2> QED BY <1>0, <2>2
<1>4. \E g : Rec(g, L)
  BY <1>3
<1>5. Calls = [k \in 0..L |-> IF k = 0 THEN NoCall ELSE Turn(Calls[k - 1])]
  BY <1>4 DEF Calls, NoCall, TooLong, L
<1>6. \A k \in 0..L : Calls[k] = IF k = 0 THEN NoCall ELSE Turn(Calls[k - 1])
  <2> HIDE DEF Turn
  <2> QED BY <1>5
<1>7. 0 \in 0..L /\ \A k \in 1..L : k \in 0..L /\ k # 0
  BY <1>0
<1> QED BY <1>6, <1>7, Zenon DEF L

\* What the limits and an expandable schema give to the arithmetic of the loop.
LEMMA ExpandableTotals ==
  ASSUME Expandable
  PROVE  /\ Visits \in [Node -> Nat] /\ Weights \in [Node -> Nat]
         /\ \A n \in Node :
              /\ schema[n].weight \in Nat
              /\ Visits[n] = 1 + SumOf(Len(edges[n]), Along(Visits, n))
              /\ Weights[n] = schema[n].weight + SumOf(Len(edges[n]), Along(Weights, n))
<1> DEFINE one == [i \in Node |-> 1]
           own == [i \in Node |-> schema[i].weight]
<1>1. \A n \in Node : schema[n].weight \in Nat
  <2>1. \A n \in Node : schema[n] \in Item
    BY ElementOfSeq DEF Expandable, Node
  <2> QED BY <2>1 DEF Item
<1>2. one \in [Node -> Nat] /\ own \in [Node -> Nat]
  BY <1>1
<1>3. \A n \in Node : one[n] = 1 /\ own[n] = schema[n].weight
  OBVIOUS
<1>4. Visits = Total(one) /\ Weights = Total(own)
  BY DEF Visits, Weights
<1>5. Len(schema) \in Nat /\ Len(schema) > 0 /\ ~ Cyclic
      /\ \A f \in [Node -> Nat], i \in Node : EdgeSum(f, i) = Spread(f, i)
  BY DEF Expandable
<1> HIDE DEF one, own
<1>6. Visits \in [Node -> Nat] /\ \A n \in Node : Visits[n] = one[n] + Spread(Visits, n)
  BY <1>2, <1>4, <1>5, TotalIsFixpoint
<1>7. Weights \in [Node -> Nat] /\ \A n \in Node : Weights[n] = own[n] + Spread(Weights, n)
  BY <1>2, <1>4, <1>5, TotalIsFixpoint
<1>8. \A n \in Node : EdgeSum(Visits, n) = Spread(Visits, n) /\ EdgeSum(Weights, n) = Spread(Weights, n)
  BY <1>5, <1>6, <1>7
<1> QED BY <1>1, <1>3, <1>6, <1>7, <1>8 DEF EdgeSum

\* The edges of a node lead to nodes, with numbers along them.
LEMMA EdgesLead ==
  ASSUME Expandable, NEW n \in Node, NEW f \in [Node -> Nat]
  PROVE  /\ Len(edges[n]) \in Nat /\ DOMAIN edges[n] = 1..Len(edges[n])
         /\ \A k \in 1..Len(edges[n]) :
              /\ edges[n][k] \in Node /\ Multiplicity(n, edges[n][k]) > 0
              /\ Along(f, n)[k] = f[edges[n][k]] /\ Along(f, n)[k] \in Nat
<1>1. edges[n] \in Seq(Node)
  BY DEF Expandable
<1>2. Len(edges[n]) \in Nat /\ DOMAIN edges[n] = 1..Len(edges[n])
      /\ \A k \in 1..Len(edges[n]) : edges[n][k] \in Node
  BY <1>1, ElementOfSeq
<1>3. \A k \in 1..Len(edges[n]) : Multiplicity(n, edges[n][k]) > 0
  BY <1>2 DEF Expandable, Edge
<1>4. \A k \in 1..Len(edges[n]) : Along(f, n)[k] = f[edges[n][k]]
  BY <1>2 DEF Along
<1> QED BY <1>2, <1>3, <1>4

\* Giving up on a callee is right for its caller, who is one level above.
LEMMA GiveUpForCaller ==
  ASSUME Expandable, NEW n \in Node, NEW j \in Node, Multiplicity(n, j) > 0, NEW left \in Nat \ {0},
         NEW e, GivesUpRightly(e, j, left - 1)
  PROVE  GivesUpRightly(e, n, left)
<1> SUFFICES ASSUME left - 1 <= Len(schema), Paths[left - 1][j] > 0
             PROVE  left <= Len(schema) /\ Paths[left][n] > 0
  BY DEF GivesUpRightly
<1>1. Len(schema) \in Nat /\ ~ Cyclic
  BY DEF Expandable
<1>2. left - 1 # Len(schema)
  <2>1. Paths[Len(schema)][j] = 0
    BY <1>1, AcyclicPathsEnd
  <2> QED BY <2>1
<1>3. left \in 1..Len(schema) /\ left - 1 \in 0..Len(schema)
  BY <1>1, <1>2
<1>4. Paths[left - 1] \in [Node -> Nat] /\ Paths[left] = [i \in Node |-> Spread(Paths[left - 1], i)]
  BY <1>1, <1>3, PathsType, PathsStep
<1>5. Paths[left - 1][j] <= Spread(Paths[left - 1], n) /\ Spread(Paths[left - 1], n) \in Nat
      /\ Paths[left - 1][j] \in Nat /\ Paths[left][n] = Spread(Paths[left - 1], n)
  BY <1>1, <1>4, SpreadType
<1> QED BY <1>3, <1>5

\* A partial sum is at most the whole one.
LEMMA PartialSums ==
  ASSUME Expandable, NEW n \in Node, NEW k \in 0..Len(edges[n])
  PROVE  /\ SumsOf(Len(edges[n]), Along(Visits, n))[k] \in Nat
         /\ SumsOf(Len(edges[n]), Along(Weights, n))[k] \in Nat
         /\ 1 + SumsOf(Len(edges[n]), Along(Visits, n))[k] <= Visits[n]
         /\ schema[n].weight + SumsOf(Len(edges[n]), Along(Weights, n))[k] <= Weights[n]
<1> DEFINE L == Len(edges[n])
           v == Along(Visits, n)
           w == Along(Weights, n)
<1>1. L \in Nat /\ \A m \in 1..L : v[m] \in Nat /\ w[m] \in Nat
  BY ExpandableTotals, EdgesLead
<1>2. schema[n].weight \in Nat /\ Visits[n] = 1 + SumOf(L, v) /\ Weights[n] = schema[n].weight + SumOf(L, w)
  BY ExpandableTotals
<1> HIDE DEF v, w, L
<1>3. /\ SumsOf(L, v)[k] \in Nat /\ SumsOf(L, v)[k] <= SumOf(L, v) /\ SumOf(L, v) \in Nat
      /\ SumsOf(L, w)[k] \in Nat /\ SumsOf(L, w)[k] <= SumOf(L, w) /\ SumOf(L, w) \in Nat
  <2>1. k \in 0..L
    BY DEF L
  <2> QED BY <1>1, <2>1, SumsAscend
<1>4. /\ SumsOf(L, v)[k] \in Nat /\ SumsOf(L, w)[k] \in Nat
      /\ 1 + SumsOf(L, v)[k] <= Visits[n] /\ schema[n].weight + SumsOf(L, w)[k] <= Weights[n]
  BY <1>2, <1>3
<1> QED BY <1>4 DEF v, w, L

\* The loop adds up, edge by edge, or gives up rightly.
LEMMA LoopAddsUp ==
  ASSUME Expandable, NEW n \in Node, NEW left \in Nat \ {0}, NEW children,
         \A j \in Node : GivesUpRightly(children[j], j, left - 1) /\ ReturnsTotals(children[j], j, left - 1)
  PROVE  \A k \in 0..Len(edges[n]) :
           /\ GivesUpRightly(Sums(n, children)[k], n, left)
           /\ AddsUp(Sums(n, children)[k], children, n, k)
<1> DEFINE L == Len(edges[n])
           s(k) == Sums(n, children)[k]
           v(k) == SumsOf(L, Along(Visits, n))[k]
           w(k) == SumsOf(L, Along(Weights, n))[k]
           T == {k \in 0..L : GivesUpRightly(s(k), n, left) /\ AddsUp(s(k), children, n, k)}
<1>1. /\ MaxExpansion \in Nat /\ MaxExpansion > 0 /\ MaxWeight \in Nat
      /\ L \in Nat /\ schema[n].weight \in Nat /\ Visits[n] \in Nat /\ Weights[n] \in Nat
  BY ConstantsAssumption, ExpandableTotals, EdgesLead
<1>2. \A k \in 0..L : /\ v(k) \in Nat /\ w(k) \in Nat
                      /\ 1 + v(k) <= Visits[n] /\ schema[n].weight + w(k) <= Weights[n]
  BY PartialSums
<1>3. /\ v(0) = 0 /\ w(0) = 0
      /\ \A k \in 1..L : v(k) = v(k - 1) + Visits[edges[n][k]] /\ w(k) = w(k - 1) + Weights[edges[n][k]]
  <2>1. \A k \in 1..L : Along(Visits, n)[k] = Visits[edges[n][k]]
    BY ExpandableTotals, EdgesLead
  <2>2. \A k \in 1..L : Along(Weights, n)[k] = Weights[edges[n][k]]
    BY ExpandableTotals, EdgesLead
  <2> QED BY <1>1, <2>1, <2>2, SumsStep
<1>4. s(0) = Alone(n) /\ \A k \in 1..L : s(k) = Add(s(k - 1), children[edges[n][k]])
  BY <1>1, LoopStep
<1>5. \A k \in 1..L : edges[n][k] \in Node /\ Multiplicity(n, edges[n][k]) > 0
                      /\ Visits[edges[n][k]] \in Nat /\ Weights[edges[n][k]] \in Nat
  BY ExpandableTotals, EdgesLead
<1>6. 0 \in T
  <2>1. 0 \in 0..L /\ 1..0 = {}
    BY <1>1
  <2>2. schema[n].weight <= Weights[n]
    BY <1>1, <1>2, <1>3, <2>1
  <2>3. s(0).error \in {"none", TooHeavy} /\ (s(0).error = TooHeavy <=> schema[n].weight > MaxWeight)
        /\ s(0).visits = 1 /\ s(0).weight = schema[n].weight
    BY <1>4 DEF Alone, TooHeavy
  <2> HIDE DEF s, v, w
  <2>4. GivesUpRightly(s(0), n, left)
    BY <1>1, <2>2, <2>3 DEF GivesUpRightly, TooHeavy, TooLong
  <2>5. s(0).error = "none" => /\ s(0).visits = 1 + v(0) /\ s(0).weight = schema[n].weight + w(0)
                               /\ s(0).visits <= MaxExpansion /\ s(0).weight <= MaxWeight
    BY <1>1, <1>3, <2>3 DEF TooHeavy
  <2>6. AddsUp(s(0), children, n, 0)
    BY <2>1, <2>5 DEF AddsUp, v, w
  <2> QED BY <2>1, <2>4, <2>6
<1>7. ASSUME NEW k \in 1..L, k - 1 \in T PROVE k \in T
  <2> DEFINE j == edges[n][k]
  <2>1. GivesUpRightly(s(k - 1), n, left) /\ AddsUp(s(k - 1), children, n, k - 1)
    BY <1>7
  <2>2. GivesUpRightly(children[j], n, left) /\ ReturnsTotals(children[j], j, left - 1)
    BY <1>5, GiveUpForCaller
  <2>3. s(k) = Add(s(k - 1), children[j]) /\ k \in 0..L /\ k - 1 \in 0..L
    BY <1>1, <1>4
  <2>4. v(k) = v(k - 1) + Visits[j] /\ w(k) = w(k - 1) + Weights[j]
        /\ Visits[j] \in Nat /\ Weights[j] \in Nat
    BY <1>3, <1>5
  <2>5. v(k - 1) \in Nat /\ w(k - 1) \in Nat /\ v(k) \in Nat /\ w(k) \in Nat
        /\ 1 + v(k) <= Visits[n] /\ schema[n].weight + w(k) <= Weights[n]
    BY <1>2, <2>3
  <2>6. s(k - 1).error = "none" =>
          /\ s(k - 1).visits = 1 + v(k - 1) /\ s(k - 1).weight = schema[n].weight + w(k - 1)
          /\ \A m \in 1..(k - 1) : children[edges[n][m]].error = "none"
    BY <2>1 DEF AddsUp
  <2>7. children[j].error = "none" => children[j].visits = Visits[j] /\ children[j].weight = Weights[j]
    BY <2>2 DEF ReturnsTotals
  <2> HIDE DEF s, v, w
  <2>8. CASE s(k - 1).error # "none"
    <3>1. s(k) = s(k - 1)
      BY <2>3, <2>8 DEF Add
    <3> QED BY <2>1, <2>3, <2>8, <3>1 DEF AddsUp
  <2>9. CASE s(k - 1).error = "none" /\ children[j].error # "none"
    <3>1. s(k) = children[j]
      BY <2>3, <2>9 DEF Add
    <3> QED BY <2>2, <2>3, <2>9, <3>1 DEF AddsUp
  <2>10. CASE s(k - 1).error = "none" /\ children[j].error = "none"
    <3> DEFINE x == s(k - 1).visits + children[j].visits
               y == s(k - 1).weight + children[j].weight
    <3>1. s(k) = [visits |-> x, weight |-> y, error |-> Overrun(x, y)]
      BY <2>3, <2>10 DEF Add
    <3>2. x = 1 + v(k) /\ y = schema[n].weight + w(k)
      <4>1. s(k - 1).visits = 1 + v(k - 1) /\ s(k - 1).weight = schema[n].weight + w(k - 1)
        BY <2>6, <2>10
      <4>2. children[j].visits = Visits[j] /\ children[j].weight = Weights[j]
        BY <2>7, <2>10
      <4>3. schema[n].weight \in Nat
        BY <1>1
      <4>4. x = (1 + v(k - 1)) + Visits[j] /\ y = (schema[n].weight + w(k - 1)) + Weights[j]
        BY <4>1, <4>2
      <4>5. \A a, b, c \in Nat : (a + b) + c = a + (b + c)
        OBVIOUS
      <4>6. 1 \in Nat
        OBVIOUS
      <4>7. v(k - 1) \in Nat /\ w(k - 1) \in Nat /\ Visits[j] \in Nat /\ Weights[j] \in Nat
        BY <2>4, <2>5
      <4>8. (1 + v(k - 1)) + Visits[j] = 1 + (v(k - 1) + Visits[j])
        BY <4>5, <4>6, <4>7, Zenon
      <4>9. (schema[n].weight + w(k - 1)) + Weights[j] = schema[n].weight + (w(k - 1) + Weights[j])
        BY <4>3, <4>5, <4>7, Zenon
      <4> QED BY <2>4, <4>4, <4>8, <4>9, Zenon
    <3>3. s(k).visits = x /\ s(k).weight = y /\ s(k).error = Overrun(x, y)
      BY <3>1
    <3> HIDE DEF x, y, j
    <3>4. /\ s(k).error \in {"none", TooLong, TooHeavy}
          /\ s(k).error = TooLong => x > MaxExpansion
          /\ s(k).error = TooHeavy => y > MaxWeight
          /\ s(k).error = "none" => ~ (x > MaxExpansion) /\ ~ (y > MaxWeight)
      BY <3>3 DEF Overrun, TooLong, TooHeavy
    <3>5. GivesUpRightly(s(k), n, left)
      <4>1. x > MaxExpansion => Visits[n] > MaxExpansion
        BY <1>1, <2>5, <3>2
      <4>2. y > MaxWeight => Weights[n] > MaxWeight
        BY <1>1, <2>5, <3>2
      <4> QED BY <3>4, <4>1, <4>2 DEF GivesUpRightly, TooLong, TooHeavy
    <3>6. \A m \in 1..k : m \in 1..(k - 1) \/ m = k
      BY <2>3
    <3>7. \A m \in 1..k : children[edges[n][m]].error = "none"
      BY <2>6, <2>10, <3>6 DEF j
    <3>8. s(k).error = "none" => s(k).visits <= MaxExpansion /\ s(k).weight <= MaxWeight
      <4>0. v(k) \in Nat /\ w(k) \in Nat /\ schema[n].weight \in Nat
        BY <1>1, <2>5
      <4>1. x \in Nat /\ y \in Nat
        <5>1. \A a, b \in Nat : 1 + a \in Nat /\ b + a \in Nat
          OBVIOUS
        <5>2. 1 + v(k) \in Nat /\ schema[n].weight + w(k) \in Nat
          BY <4>0, <5>1, Zenon
        <5> QED BY <3>2, <5>2, Zenon
      <4> QED BY <1>1, <3>3, <3>4, <4>1
    <3>9. AddsUp(s(k), children, n, k)
      BY <3>2, <3>3, <3>7, <3>8 DEF AddsUp, v, w
    <3> QED BY <2>3, <3>5, <3>9
  <2> QED BY <2>8, <2>9, <2>10
<1>8. \A k \in 0..L : k \in T
  <2> HIDE DEF T
  <2> QED BY <1>1, <1>6, <1>7, UpTo
<1> QED BY <1>8

\* A call that returns has found no path as long as the levels it had left.
LEMMA ReturnIsShallow ==
  ASSUME Expandable, NEW n \in Node, NEW left \in Nat \ {0}, left <= Len(schema), NEW children,
         \A j \in Node : ReturnsTotals(children[j], j, left - 1),
         \A m \in 1..Len(edges[n]) : children[edges[n][m]].error = "none"
  PROVE  Paths[left][n] = 0
<1>1. Len(schema) \in Nat /\ edges[n] \in Seq(Node)
      /\ \A j \in Node : Multiplicity(n, j) > 0 => Edge(n, j)
  BY DEF Expandable
<1>2. left \in 1..Len(schema) /\ left - 1 \in 0..Len(schema)
  BY <1>1
<1>3. Paths[left - 1] \in [Node -> Nat] /\ Paths[left] = [i \in Node |-> Spread(Paths[left - 1], i)]
  BY <1>1, <1>2, PathsType, PathsStep
<1>4. \A j \in Node : Multiplicity(n, j) > 0 => children[j].error = "none"
  BY <1>1 DEF Edge
<1>5. \A j \in Node : Multiplicity(n, j) > 0 => Paths[left - 1][j] = 0
  BY <1>2, <1>4 DEF ReturnsTotals
<1>6. Spread(Paths[left - 1], n) = 0
  BY <1>1, <1>3, <1>5, SpreadType
<1> QED BY <1>3, <1>6

\* For every number of levels left: a call returns the totals, or gives up rightly.
LEMMA CallsAddUp ==
  ASSUME Expandable
  PROVE  \A left \in 0..(MaxEvaluationDepth + 1) : \A n \in Node :
           GivesUpRightly(Calls[left][n], n, left) /\ ReturnsTotals(Calls[left][n], n, left)
<1> DEFINE C(left) == \A n \in Node : GivesUpRightly(Calls[left][n], n, left)
                                      /\ ReturnsTotals(Calls[left][n], n, left)
           T == {left \in 0..(MaxEvaluationDepth + 1) : C(left)}
<1>1. MaxEvaluationDepth + 1 \in Nat /\ Len(schema) \in Nat /\ Len(schema) > 0
  BY ConstantsAssumption DEF Expandable
<1>2. 0 \in T
  <2> SUFFICES ASSUME NEW n \in Node
               PROVE  GivesUpRightly(Calls[0][n], n, 0) /\ ReturnsTotals(Calls[0][n], n, 0)
    BY <1>1
  <2>1. Calls[0][n].error = TooLong
    BY CallsStep DEF NoCall
  <2>2. Paths[0][n] = 1
    BY <1>1, PathsStep
  <2> QED BY <1>1, <2>1, <2>2 DEF GivesUpRightly, ReturnsTotals, TooLong, TooHeavy
<1>3. ASSUME NEW left \in 1..(MaxEvaluationDepth + 1), left - 1 \in T PROVE left \in T
  <2> SUFFICES ASSUME NEW n \in Node
               PROVE  GivesUpRightly(Calls[left][n], n, left) /\ ReturnsTotals(Calls[left][n], n, left)
    BY <1>1
  <2> DEFINE children == Calls[left - 1]
             L == Len(edges[n])
             e == Sums(n, children)[L]
  <2>1. Calls[left][n] = e
    BY CallsStep
  <2>2. \A j \in Node : GivesUpRightly(children[j], j, left - 1) /\ ReturnsTotals(children[j], j, left - 1)
    BY <1>3
  <2>3. left \in Nat \ {0} /\ L \in Nat /\ L \in 0..L
    BY <1>1, ExpandableTotals, EdgesLead
  <2> HIDE DEF children
  <2>4. GivesUpRightly(e, n, left) /\ AddsUp(e, children, n, L)
    BY <2>2, <2>3, LoopAddsUp
  <2> HIDE DEF e
  <2>5. ReturnsTotals(e, n, left)
    <3> SUFFICES ASSUME e.error = "none"
                 PROVE  /\ e.visits = Visits[n] /\ Visits[n] <= MaxExpansion
                        /\ e.weight = Weights[n] /\ Weights[n] <= MaxWeight
                        /\ left <= Len(schema) => Paths[left][n] = 0
      BY DEF ReturnsTotals
    <3>1. /\ e.visits = 1 + SumsOf(L, Along(Visits, n))[L] /\ e.visits <= MaxExpansion
          /\ e.weight = schema[n].weight + SumsOf(L, Along(Weights, n))[L] /\ e.weight <= MaxWeight
          /\ \A m \in 1..L : children[edges[n][m]].error = "none"
      BY <2>4 DEF AddsUp
    <3>2. e.visits = Visits[n] /\ e.weight = Weights[n]
      BY <3>1, ExpandableTotals DEF SumOf
    <3>3. left <= Len(schema) => Paths[left][n] = 0
      BY <2>2, <2>3, <3>1, ReturnIsShallow
    <3> QED BY <3>1, <3>2, <3>3
  <2> QED BY <2>1, <2>4, <2>5
<1>4. \A left \in 0..(MaxEvaluationDepth + 1) : left \in T
  <2> HIDE DEF T
  <2> QED BY <1>1, <1>2, <1>3, UpTo
<1> QED BY <1>4

\* So the expansion of a node returns its totals if they and its depth keep the
\* limits, and gives up only if something passes one of them.
LEMMA ExpansionIsExact ==
  ASSUME Expandable, NEW n \in Node
  PROVE  /\ Expansion(n).error = "none" =>
              /\ Expansion(n).weight = Weights[n]
              /\ Visits[n] <= MaxExpansion /\ Weights[n] <= MaxWeight /\ ~ TooDeep(n)
         /\ Expansion(n).error = TooHeavy => \E i \in Node : Weights[i] > MaxWeight
         /\ Expansion(n).error = TooLong => \E i \in Node : Visits[i] > MaxExpansion \/ TooDeep(i)
<1> DEFINE e == Expansion(n)
           top == MaxEvaluationDepth + 1
<1>1. MaxEvaluationDepth \in Nat /\ Len(schema) \in Nat /\ top \in 0..top
  BY ConstantsAssumption DEF Expandable
<1>2. GivesUpRightly(e, n, top) /\ ReturnsTotals(e, n, top)
  BY <1>1, CallsAddUp DEF Expansion
<1> HIDE DEF e
<1>3. ASSUME e.error = "none" PROVE ~ TooDeep(n)
  <2> SUFFICES ASSUME NEW k \in 0..Len(schema), k > MaxEvaluationDepth PROVE ~ (Paths[k][n] > 0)
    BY DEF TooDeep
  <2>1. top \in 0..Len(schema) /\ k >= top
    BY <1>1
  <2>2. Paths[top][n] = 0
    BY <1>2, <1>3, <2>1 DEF ReturnsTotals
  <2>3. Paths[k][n] = 0
    BY <1>1, <2>1, <2>2, PathsEnd
  <2> QED BY <2>3
<1>4. ASSUME top <= Len(schema), Paths[top][n] > 0 PROVE TooDeep(n)
  BY <1>1, <1>4 DEF TooDeep
<1> QED BY <1>2, <1>3, <1>4 DEF e, GivesUpRightly, ReturnsTotals

-----------------------------------------------------------------------------
(***************************************************************************)
(* The walk makes the schema expandable, and keeps the limits on its way.  *)
(***************************************************************************)
\* How many edges from i to j the walk has made so far.
Built(i, j) ==
  (IF Child(i, j) /\ (phase = "visit" => j < at) THEN 1 ELSE 0)
  + (IF ref[i] = j /\ phase # "visit" /\ (phase = "resolve" => i < at) THEN 1 ELSE 0)

\* Edges are counted, not only there: a child that is also the target of the
\* reference is evaluated twice.
EdgesCounted ==
  phase # "failed" =>
    \A f \in [Node -> Nat], i \in Node :
      EdgeSum(f, i) = SumOf(Len(schema), [j \in Node |-> Built(i, j) * f[j]])

\* The subschemas that were visited.
Progress == IF phase = "visit" THEN at - 1 ELSE Len(schema)

VisitedWithinLimits ==
  phase # "failed" =>
    /\ Progress <= MaxNodes
    /\ references = Cardinality({i \in 1..Progress : ref[i] # NoRef}) /\ references <= MaxReferences
    /\ literals = SumsOf(Len(schema), [i \in Node |-> schema[i].literals])[Progress]
    /\ literals <= MaxLiteralUnits
    /\ \A i \in 1..Progress : schema[i].form \in {"boolean", "object"} /\ schema[i].depth <= MaxDepth

\* The nodes that were expanded returned, and the root left its weight.
ExpandedWithinLimits ==
  /\ phase = "expand" =>
       /\ \A i \in 1..(at - 1) : Expansion(i).error = "none"
       /\ at > 1 => weight = Expansion(1).weight
  /\ phase = "done" => weight = Expansion(1).weight /\ \A i \in Node : Expansion(i).error = "none"

LimitsInv ==
  /\ IInv /\ Len(schema) > 0
  /\ EdgesCounted /\ VisitedWithinLimits /\ ExpandedWithinLimits /\ RejectionsJustified

\* One edge more adds what is at its target, at its source only.
LEMMA EdgeAdds ==
  ASSUME edges \in [Node -> Seq(Node)], NEW p \in Node, NEW t \in Node,
         edges' = [edges EXCEPT ![p] = Append(edges[p], t)],
         NEW f \in [Node -> Nat], NEW i \in Node
  PROVE  EdgeSum(f, i)' = EdgeSum(f, i) + (IF i = p THEN f[t] ELSE 0)
<1>1. edges[i] \in Seq(Node) /\ Len(edges[i]) \in Nat /\ DOMAIN edges[i] = 1..Len(edges[i])
      /\ \A k \in 1..Len(edges[i]) : edges[i][k] \in Node
  <2>1. edges[i] \in Seq(Node)
    OBVIOUS
  <2> QED BY <2>1, ElementOfSeq
<1>2. \A k \in 1..Len(edges[i]) : Along(f, i)[k] = f[edges[i][k]] /\ Along(f, i)[k] \in Nat
  BY <1>1 DEF Along
<1>3. SumOf(Len(edges[i]), Along(f, i)) \in Nat
  BY <1>1, <1>2, SumsAscend
<1>4. CASE i # p
  <2>1. edges'[i] = edges[i]
    BY <1>4
  <2>2. EdgeSum(f, i)' = EdgeSum(f, i)
    BY <2>1 DEF EdgeSum, Along
  <2> QED BY <1>3, <1>4, <2>2 DEF EdgeSum
<1>5. CASE i = p
  <2> DEFINE L == Len(edges[i])
             new == Append(edges[i], t)
             old == Along(f, i)
             now == [k \in DOMAIN new |-> f[new[k]]]
  <2>1. new = edges'[i]
    BY <1>5
  <2>2. Len(new) = L + 1 /\ DOMAIN new = 1..(L + 1) /\ new[L + 1] = t
        /\ \A k \in 1..L : new[k] = edges[i][k]
    <3>1. new \in Seq(Node)
      BY <1>1, AppendProperties
    <3> QED BY <1>1, <3>1, AppendProperties, LenProperties
  <2>3. \A k \in 1..L : k \in 1..(L + 1) /\ now[k] = old[k]
    BY <1>1, <1>2, <2>2
  <2>4. L + 1 \in 1..(L + 1) /\ now[L + 1] = f[t]
    BY <1>1, <2>2
  <2>5. old \in [1..L -> Nat] /\ now \in [1..(L + 1) -> Nat]
    <3>1. \A k \in 1..(L + 1) : k \in 1..L \/ k = L + 1
      BY <1>1
    <3>2. \A k \in 1..(L + 1) : new[k] \in Node
      BY <1>1, <2>2, <3>1
    <3>3. \A k \in 1..(L + 1) : f[new[k]] \in Nat
      BY <3>2
    <3>4. now \in [1..(L + 1) -> Nat]
      BY <2>2, <3>3
    <3>5. old = [k \in 1..L |-> f[edges[i][k]]]
      BY <1>1 DEF Along
    <3>6. \A k \in 1..L : f[edges[i][k]] \in Nat
      BY <1>1
    <3> QED BY <3>4, <3>5, <3>6
  <2>6. EdgeSum(f, i)' = SumOf(L + 1, now)
    BY <2>1, <2>2 DEF EdgeSum, Along
  <2>7. EdgeSum(f, i) = SumOf(L, old)
    BY DEF EdgeSum
  <2> HIDE DEF now, old, new, L
  <2>8. L \in Nat /\ L + 1 \in Nat /\ L <= L + 1 /\ (L + 1) - 1 = L /\ L \in 0..L
    BY <1>1 DEF L
  <2>9. SumsOf(L + 1, now)[L] = SumsOf(L, old)[L]
    <3>1. \A k \in 1..L : now[k] = old[k]
      BY <2>3
    <3>2. \A k \in 0..L : SumsOf(L + 1, now)[k] = SumsOf(L, old)[k]
      <4> DEFINE M == L + 1
      <4>1. M \in Nat /\ L <= M
        BY <2>8
      <4>2. old \in [1..L -> Nat] /\ now \in [1..M -> Nat]
        BY <2>5 DEF M
      <4> HIDE DEF M
      <4>3. \A k \in 0..L : SumsOf(M, now)[k] = SumsOf(L, old)[k]
        BY <2>8, <3>1, <4>1, <4>2, SumsAgree
      <4> QED BY <4>3 DEF M
    <3> QED BY <2>8, <3>2
  <2>10. SumsOf(L + 1, now)[L + 1] = SumsOf(L + 1, now)[(L + 1) - 1] + now[L + 1]
    BY <2>4, <2>8, SumsStep
  <2>11. EdgeSum(f, i)' = EdgeSum(f, i) + f[t]
    BY <2>4, <2>6, <2>7, <2>8, <2>9, <2>10 DEF SumOf
  <2> QED BY <1>5, <2>11
<1> QED BY <1>4, <1>5

\* An edge is counted at most twice.
LEMMA BuiltType == \A i, j : Built(i, j) \in {0, 1, 2}
<1> TAKE i, j
<1> DEFINE A == Child(i, j) /\ (phase = "visit" => j < at)
           B == ref[i] = j /\ phase # "visit" /\ (phase = "resolve" => i < at)
<1>1. Built(i, j) = (IF A THEN 1 ELSE 0) + (IF B THEN 1 ELSE 0)
  BY Zenon DEF Built
<1> HIDE DEF A, B
<1> QED BY <1>1

\* The step makes one edge that had not been counted, and now is.
Makes(p, t) ==
  /\ edges' = [edges EXCEPT ![p] = Append(edges[p], t)]
  /\ \A i, j \in Node : Built(i, j)' = Built(i, j) + (IF i = p /\ j = t THEN 1 ELSE 0)

\* The count is kept when one edge is made that had not been counted.
LEMMA CountsOneMore ==
  ASSUME Len(schema) \in Nat, edges \in [Node -> Seq(Node)], EdgesCounted, phase # "failed",
         UNCHANGED <<schema, ref, phase>>, NEW p \in Node, NEW t \in Node, Makes(p, t)
  PROVE  EdgesCounted'
<1>0. /\ edges' = [edges EXCEPT ![p] = Append(edges[p], t)]
      /\ \A i, j \in Node : Built(i, j)' = Built(i, j) + (IF i = p /\ j = t THEN 1 ELSE 0)
  BY DEF Makes
<1>1. Node' = Node /\ Node = 1..Len(schema) /\ Len(schema)' = Len(schema)
  BY DEF Node
<1> SUFFICES ASSUME NEW f \in [Node -> Nat], NEW i \in Node
             PROVE  EdgeSum(f, i)' = SumOf(Len(schema), [j \in Node |-> Built(i, j)' * f[j]])
  BY <1>1 DEF EdgesCounted
<1> DEFINE old == [j \in Node |-> Built(i, j) * f[j]]
           now == [j \in Node |-> Built(i, j)' * f[j]]
           d == IF i = p THEN f[t] ELSE 0
<1>2. EdgeSum(f, i)' = EdgeSum(f, i) + d
  BY <1>0, EdgeAdds
<1>3. EdgeSum(f, i) = SumOf(Len(schema), old)
  BY DEF EdgesCounted
<1>4. \A j \in Node : Built(i, j) \in {0, 1, 2} /\ f[j] \in Nat
  BY BuiltType
<1>5. \A j \in Node : old[j] \in Nat /\ old[j] = Built(i, j) * f[j] /\ now[j] = Built(i, j)' * f[j]
  <2>1. \A j \in Node : old[j] = Built(i, j) * f[j] /\ now[j] = Built(i, j)' * f[j]
    OBVIOUS
  <2>2. \A x \in {0, 1, 2}, y \in Nat : x * y \in Nat
    OBVIOUS
  <2>3. \A j \in Node : Built(i, j) * f[j] \in Nat
    BY <1>4, <2>2, Zenon
  <2> QED BY <2>1, <2>3, Zenon
<1>6. d \in Nat
  BY <1>4
<1>7. now[t] = old[t] + d
  <2>1. Built(i, t)' = Built(i, t) + (IF i = p THEN 1 ELSE 0)
    BY <1>0
  <2>2. Built(i, t) \in {0, 1, 2} /\ f[t] \in Nat
    BY <1>4
  <2>3. old[t] = Built(i, t) * f[t] /\ now[t] = Built(i, t)' * f[t]
    BY <1>5
  <2> HIDE DEF old, now
  <2> QED BY <2>1, <2>2, <2>3
<1>8. \A j \in Node : j # t => now[j] = old[j]
  <2> SUFFICES ASSUME NEW j \in Node, j # t PROVE now[j] = old[j]
    OBVIOUS
  <2>1. Built(i, j)' = Built(i, j) + 0
    BY <1>0
  <2>2. Built(i, j)' = Built(i, j)
    <3>1. Built(i, j) \in {0, 1, 2}
      BY BuiltType
    <3>2. \A x \in {0, 1, 2} : x + 0 = x
      OBVIOUS
    <3> QED BY <2>1, <3>1, <3>2, Zenon
  <2> QED BY <1>5, <2>2
<1> HIDE DEF old, now, d
<1>9. SumOf(Len(schema), now) = SumOf(Len(schema), old) + d
  <2> DEFINE n == Len(schema)
  <2>1. /\ n \in Nat /\ t \in 1..n /\ d \in Nat
        /\ old \in [1..n -> Nat] /\ now \in [1..n -> Nat]
        /\ now[t] = old[t] + d
        /\ \A k \in 1..n : k # t => now[k] = old[k]
    <3>1. n \in Nat /\ t \in 1..n /\ d \in Nat
      BY <1>1, <1>6
    <3>2. old \in [Node -> Nat]
      BY <1>5 DEF old
    <3>3. \A j \in Node : now[j] \in Nat
      <4> SUFFICES ASSUME NEW j \in Node PROVE now[j] \in Nat
        OBVIOUS
      <4>1. old[j] \in Nat
        BY <1>5
      <4>2. CASE j = t
        BY <1>6, <1>7, <4>1, <4>2
      <4>3. CASE j # t
        BY <1>8, <4>1, <4>3
      <4> QED BY <4>2, <4>3
    <3>4. now \in [Node -> Nat]
      BY <3>3 DEF now
    <3> QED BY <1>1, <1>7, <1>8, <3>1, <3>2, <3>4
  <2> HIDE DEF n
  <2>2. SumOf(n, now) = SumOf(n, old) + d
    BY <2>1, SumsDiffer
  <2> QED BY <2>2 DEF n
<1> QED BY <1>2, <1>3, <1>9 DEF now

\* And when nothing is made or counted.
LEMMA CountsTheSame ==
  ASSUME EdgesCounted, phase # "failed", UNCHANGED <<schema, ref, edges>>,
         \A i, j \in Node : Built(i, j)' = Built(i, j)
  PROVE  EdgesCounted'
<1>1. Node' = Node /\ Len(schema)' = Len(schema)
  BY DEF Node
<1>2. \A f, i : EdgeSum(f, i)' = EdgeSum(f, i)
  BY DEF EdgeSum, Along
<1> SUFFICES ASSUME NEW f \in [Node -> Nat], NEW i \in Node
             PROVE  EdgeSum(f, i) = SumOf(Len(schema), [j \in Node |-> Built(i, j)' * f[j]])
  BY <1>1, <1>2 DEF EdgesCounted
<1>3. [j \in Node |-> Built(i, j)' * f[j]] = [j \in Node |-> Built(i, j) * f[j]]
  OBVIOUS
<1> QED BY <1>3 DEF EdgesCounted

\* Nothing is made, and nothing is to be counted, at the start.
LEMMA InitCounted == Init => EdgesCounted
<1> SUFFICES ASSUME Init, NEW f \in [Node -> Nat], NEW i \in Node
             PROVE  EdgeSum(f, i) = SumOf(Len(schema), [j \in Node |-> Built(i, j) * f[j]])
  BY DEF EdgesCounted
<1> DEFINE a == [j \in Node |-> Built(i, j) * f[j]]
<1>1. Len(schema) \in Nat /\ Node = 1..Len(schema)
  BY NodesExist DEF Init, Node
<1>2. edges[i] = <<>> /\ Len(edges[i]) = 0
  BY EmptySeq DEF Init
<1>3. EdgeSum(f, i) = 0
  BY <1>2, SumsStep DEF EdgeSum, SumOf
<1>4. \A j \in Node : Built(i, j) = 0 /\ f[j] \in Nat
  <2>1. phase = "visit" /\ at = 1 /\ \A j \in Node : ~ (j < 1)
    BY <1>1 DEF Init
  <2> QED BY <2>1 DEF Built
<1>5. \A j \in 1..Len(schema) : a[j] = 0
  BY <1>1, <1>4
<1> HIDE DEF a
<1>6. SumOf(Len(schema), a) = 0
  BY <1>1, <1>5, SumsOfNothing
<1> QED BY <1>3, <1>6 DEF a

\* An edge that is made is one that had not been counted, and then is.
LEMMA NextCounted == IInv /\ EdgesCounted /\ [Next]_vars => EdgesCounted'
<1> SUFFICES ASSUME IInv, EdgesCounted, phase # "failed", phase' # "failed", [Next]_vars
             PROVE  EdgesCounted'
  BY DEF EdgesCounted, Next, vars, VisitNode, ResolveReference, StartSearch, FollowEdge, FinishNode,
         ExpandNode, Enter
<1>1. /\ edges \in [Node -> Seq(Node)] /\ Len(schema) \in Nat /\ at \in 1..(Len(schema) + 1)
      /\ Node = 1..Len(schema)
      /\ \A i \in Node : schema[i].depth > 0 => schema[i].parent \in 1..(i - 1)
  BY DEF IInv, SearchTypeOK, Node
<1>2. \A i, j : Child(i, j) \in BOOLEAN
  BY DEF Child
<1>3. CASE VisitNode
  <2>1. /\ phase = "visit" /\ phase' = "visit" /\ at \in Node /\ at' = at + 1
        /\ edges' = IF Evaluates(at)
                    THEN [edges EXCEPT ![schema[at].parent] = Append(@, at)] ELSE edges
        /\ UNCHANGED <<schema, ref, phase>>
    BY <1>1, <1>3 DEF VisitNode, Throw
  <2>2. \A i, j : Child(i, j)' = Child(i, j)
    BY <2>1 DEF Child
  <2>3. \A i, j : Built(i, j) = (IF Child(i, j) /\ j < at THEN 1 ELSE 0) + 0
                  /\ Built(i, j)' = (IF Child(i, j) /\ j < at + 1 THEN 1 ELSE 0) + 0
    BY <2>1, <2>2 DEF Built
  <2>4. \A j \in Node : j < at + 1 <=> j < at \/ j = at
    BY <1>1, <2>1
  <2>5. CASE Evaluates(at)
    <3>1. schema[at].parent \in Node /\ \A i \in Node : Child(i, at) <=> i = schema[at].parent
      BY <1>1, <2>1, <2>5 DEF Evaluates, Child
    <3> DEFINE p == schema[at].parent
    <3>2. edges' = [edges EXCEPT ![p] = Append(edges[p], at)]
      BY <2>1, <2>5
    <3> HIDE DEF p
    <3>3. \A i, j \in Node : Built(i, j)' = Built(i, j) + (IF i = p /\ j = at THEN 1 ELSE 0)
      <4> SUFFICES ASSUME NEW i \in Node, NEW j \in Node
                   PROVE  Built(i, j)' = Built(i, j) + (IF i = p /\ j = at THEN 1 ELSE 0)
        OBVIOUS
      <4>1. Child(i, at) <=> i = p
        BY <3>1 DEF p
      <4>2. /\ Built(i, j) = (IF Child(i, j) /\ j < at THEN 1 ELSE 0) + 0
            /\ Built(i, j)' = (IF Child(i, j) /\ j < at + 1 THEN 1 ELSE 0) + 0
        BY <2>3
      <4>3. ~ (at < at) /\ (j < at + 1 <=> j < at \/ j = at)
        BY <1>1, <2>1, <2>4
      <4>4. CASE j = at
        BY <4>1, <4>2, <4>3, <4>4
      <4>5. CASE j # at
        BY <4>2, <4>3, <4>5
      <4> QED BY <4>4, <4>5
    <3>4. p \in Node /\ at \in Node
      BY <2>1, <3>1 DEF p
    <3>5. Makes(p, at)
      BY <3>2, <3>3 DEF Makes
    <3> QED BY <1>1, <2>1, <3>4, <3>5, CountsOneMore
  <2>6. CASE ~ Evaluates(at)
    <3>1. \A i : ~ Child(i, at)
      BY <2>6 DEF Evaluates, Child
    <3>2. \A i, j \in Node : Built(i, j)' = Built(i, j)
      BY <2>3, <2>4, <3>1
    <3> QED BY <2>1, <2>6, <3>2, CountsTheSame
  <2> QED BY <2>5, <2>6
<1>4. CASE ResolveReference
  <2>1. /\ phase = "resolve" /\ phase' = "resolve" /\ at \in Node /\ at' = at + 1
        /\ ~ (ref[at] > Len(schema))
        /\ edges' = IF ref[at] = NoRef THEN edges ELSE [edges EXCEPT ![at] = Append(@, ref[at])]
        /\ UNCHANGED <<schema, ref, phase>>
    BY <1>1, <1>4 DEF ResolveReference, Throw
  <2>2. \A i, j : Child(i, j)' = Child(i, j)
    BY <2>1 DEF Child
  <2>3. \A i, j : /\ Built(i, j) = (IF Child(i, j) THEN 1 ELSE 0) + (IF ref[i] = j /\ i < at THEN 1 ELSE 0)
                  /\ Built(i, j)' = (IF Child(i, j) THEN 1 ELSE 0)
                                     + (IF ref[i] = j /\ i < at + 1 THEN 1 ELSE 0)
    BY <2>1, <2>2 DEF Built
  <2>4. \A i \in Node : i < at + 1 <=> i < at \/ i = at
    BY <1>1, <2>1
  <2>5. ref[at] \in 0..Len(schema)
    <3>1. ref[at] \in 0..(Len(schema) + 1)
      BY <2>1 DEF IInv, SearchTypeOK
    <3> QED BY <1>1, <2>1, <3>1
  <2>6. CASE ref[at] # NoRef
    <3>1. ref[at] \in Node
      BY <1>1, <2>5, <2>6 DEF NoRef
    <3>2. \A i, j \in Node : Built(i, j)' = Built(i, j) + (IF i = at /\ j = ref[at] THEN 1 ELSE 0)
      <4> SUFFICES ASSUME NEW i \in Node, NEW j \in Node
                   PROVE  Built(i, j)' = Built(i, j) + (IF i = at /\ j = ref[at] THEN 1 ELSE 0)
        OBVIOUS
      <4>1. at \in Node /\ ~ (at < at)
        BY <1>1, <2>1
      <4> DEFINE c == IF Child(i, j) THEN 1 ELSE 0
      <4>2. c \in Nat
        OBVIOUS
      <4>3. /\ Built(i, j) = c + (IF ref[i] = j /\ i < at THEN 1 ELSE 0)
            /\ Built(i, j)' = c + (IF ref[i] = j /\ i < at + 1 THEN 1 ELSE 0)
        BY <2>3
      <4> HIDE DEF c
      <4> QED BY <2>4, <4>1, <4>2, <4>3
    <3>3. edges' = [edges EXCEPT ![at] = Append(edges[at], ref[at])]
      BY <2>1, <2>6
    <3> DEFINE t == ref[at]
    <3>4. t \in Node /\ Makes(at, t)
      BY <3>1, <3>2, <3>3 DEF Makes
    <3> HIDE DEF t
    <3> QED BY <1>1, <2>1, <3>4, CountsOneMore
  <2>7. CASE ref[at] = NoRef
    <3>1. ref[at] \notin Node
      BY <1>1, <2>7 DEF NoRef
    <3>2. \A i, j \in Node : Built(i, j)' = Built(i, j)
      BY <2>3, <2>4, <3>1
    <3> QED BY <2>1, <2>7, <3>2, CountsTheSame
  <2> QED BY <2>6, <2>7
<1>5. CASE Enter("visit", "resolve")
  <2>1. /\ phase = "visit" /\ phase' = "resolve" /\ at > Len(schema) /\ at' = 1
        /\ UNCHANGED <<schema, ref, edges>>
    BY <1>5 DEF Enter
  <2>2. \A i \in Node : i < at /\ ~ (i < 1)
    BY <1>1, <2>1
  <2>3. \A i, j \in Node : Child(i, j)' = Child(i, j)
    BY <2>1 DEF Child
  <2>4. \A i, j \in Node : Built(i, j) = (IF Child(i, j) THEN 1 ELSE 0) + 0
                           /\ Built(i, j)' = (IF Child(i, j) THEN 1 ELSE 0) + 0
    BY <2>1, <2>2, <2>3 DEF Built
  <2> QED BY <2>1, <2>4, CountsTheSame
<1>6. ASSUME UNCHANGED <<schema, ref, edges>>, \/ phase \notin {"visit", "resolve"} /\ phase' \notin {"visit", "resolve"}
                                               \/ phase = "resolve" /\ at > Len(schema) /\ phase' = "cycles"
                                               \/ UNCHANGED <<phase, at>>
      PROVE  EdgesCounted'
  <2>1. \A i \in Node : at > Len(schema) => i < at
    BY <1>1
  <2>2. \A i, j \in Node : Child(i, j)' = Child(i, j)
    BY <1>6 DEF Child
  <2>3. \A i, j \in Node : Built(i, j)' = Built(i, j)
    BY <1>6, <2>1, <2>2 DEF Built
  <2> QED BY <1>6, <2>3, CountsTheSame
<1>7. CASE Enter("resolve", "cycles")
  BY <1>6, <1>7 DEF Enter
<1>8. CASE StartSearch \/ FollowEdge \/ FinishNode
  BY <1>6, <1>8 DEF StartSearch, FollowEdge, FinishNode, Throw
<1>9. CASE stack = <<>> /\ Enter("cycles", "expand")
  BY <1>6, <1>9 DEF Enter
<1>10. CASE ExpandNode
  BY <1>6, <1>10 DEF ExpandNode, Throw
<1>11. CASE Enter("expand", "done")
  BY <1>6, <1>11 DEF Enter
<1>12. CASE UNCHANGED vars
  BY <1>6, <1>12 DEF vars
<1> QED BY <1>3, <1>4, <1>5, <1>7, <1>8, <1>9, <1>10, <1>11, <1>12 DEF Next

\* The verdicts are about the schema, not about the progress of the walk.
LEMMA MeasuresUnchanged ==
  ASSUME UNCHANGED <<schema, ref>>
  PROVE  /\ Node' = Node /\ Visits' = Visits /\ Weights' = Weights
         /\ \A i : TooDeep(i)' = TooDeep(i)
  BY DEF Node, Visits, Weights, Total, Totals, TooDeep, Paths, Spread, SumOf, SumsOf, Multiplicity, Child

\* An expansion is about the schema and the finished edges.
LEMMA ExpansionUnchanged ==
  ASSUME UNCHANGED <<schema, edges>>
  PROVE  \A n : Expansion(n)' = Expansion(n)
  BY DEF Expansion, Calls, Sums, Add, Alone, Overrun, Node

\* When the walk comes to expand the nodes, it may.
LEMMA WalkIsExpandable ==
  ASSUME IInv, EdgesCounted, Len(schema) > 0, phase \in {"expand", "done"}
  PROVE  Expandable
<1>1. /\ schema \in Seq(Item) /\ Len(schema) \in Nat /\ edges \in [Node -> Seq(Node)] /\ ~ Cyclic
  BY IInvImpliesCyclesFound DEF IInv, SearchTypeOK, CyclesFound
<1>2. \A i, j \in Node : Multiplicity(i, j) > 0 <=> Edge(i, j)
  BY MultiplicityIsEdge DEF IInv, EdgesBuilt
<1>3. \A i, j \in Node : Built(i, j) = Multiplicity(i, j)
  BY DEF Built, Multiplicity
<1>4. ASSUME NEW f \in [Node -> Nat], NEW i \in Node PROVE EdgeSum(f, i) = Spread(f, i)
  <2>1. EdgeSum(f, i) = SumOf(Len(schema), [j \in Node |-> Built(i, j) * f[j]])
    BY DEF EdgesCounted
  <2>2. [j \in Node |-> Built(i, j) * f[j]] = [j \in Node |-> Multiplicity(i, j) * f[j]]
    BY <1>3
  <2> QED BY <2>1, <2>2 DEF Spread
<1> QED BY <1>1, <1>2, <1>4 DEF Expandable

\* What was visited is as it was when neither it nor the counters change.
LEMMA VisitedUnchanged ==
  ASSUME VisitedWithinLimits, phase # "failed", Progress' = Progress,
         UNCHANGED <<schema, ref, references, literals>>
  PROVE  VisitedWithinLimits'
  BY DEF VisitedWithinLimits, Node

\* No rejection is left to justify while nothing is thrown.
LEMMA NothingRejected ==
  ASSUME IInv, phase # "failed"
  PROVE  error = "none" /\ RejectionsJustified
  BY DEF IInv, ErrorIsFinal, RejectionsJustified

\* A walk that throws leaves only its verdict to justify.
LEMMA ThrowKeepsLimits ==
  ASSUME LimitsInv, IInv', NEW code, Throw(code),
         code = TooHeavy => \E i \in Node : Weights[i] > MaxWeight,
         code = TooLong => \E i \in Node : Visits[i] > MaxExpansion \/ TooDeep(i)
  PROVE  LimitsInv'
<1>1. phase' = "failed" /\ error' = code /\ UNCHANGED <<schema, ref>>
  BY DEF Throw
<1>2. EdgesCounted' /\ VisitedWithinLimits' /\ ExpandedWithinLimits' /\ (Len(schema) > 0)'
  BY <1>1 DEF LimitsInv, EdgesCounted, VisitedWithinLimits, ExpandedWithinLimits
<1>3. RejectionsJustified'
  BY <1>1, MeasuresUnchanged DEF RejectionsJustified, TooHeavy, TooLong
<1> QED BY <1>2, <1>3 DEF LimitsInv

\* Before the first subschema nothing is counted.
LEMMA InitLimits == Init => LimitsInv
<1> SUFFICES ASSUME Init PROVE LimitsInv
  OBVIOUS
<1>1. Len(schema) \in Nat /\ Len(schema) > 0
  BY NodesExist DEF Init
<1>2. IInv /\ EdgesCounted
  BY InitIInv, InitCounted
<1>3. phase = "visit" /\ at = 1 /\ references = 0 /\ literals = 0
  BY DEF Init
<1>4. Progress = 0 /\ 1..0 = {}
  BY <1>3 DEF Progress
<1>5. VisitedWithinLimits
  <2>1. {i \in 1..Progress : ref[i] # NoRef} = {}
    BY <1>4
  <2>2. Cardinality({i \in 1..Progress : ref[i] # NoRef}) = 0
    BY <2>1, FS_EmptySet
  <2>3. SumsOf(Len(schema), [i \in Node |-> schema[i].literals])[Progress] = 0
    BY <1>1, <1>4, SumsStep
  <2>4. MaxNodes \in Nat /\ MaxReferences \in Nat /\ MaxLiteralUnits \in Nat
    BY ConstantsAssumption
  <2> QED BY <1>3, <1>4, <2>2, <2>3, <2>4 DEF VisitedWithinLimits
<1>6. ExpandedWithinLimits /\ RejectionsJustified
  BY <1>2, <1>3, NothingRejected DEF ExpandedWithinLimits
<1> QED BY <1>1, <1>2, <1>5, <1>6 DEF LimitsInv

\* A subschema that passes its checks keeps the limits with all before it.
LEMMA VisitNodeLimits ==
  ASSUME LimitsInv, IInv', EdgesCounted', VisitNode
  PROVE  LimitsInv'
<1>1. CASE VisitError(at) # "none"
  <2>1. Throw(VisitError(at))
    BY <1>1 DEF VisitNode
  <2>2. VisitError(at) # TooHeavy /\ VisitError(at) # TooLong
    BY Zenon DEF VisitError, TooHeavy, TooLong
  <2> DEFINE code == VisitError(at)
  <2> HIDE DEF code
  <2>3. Throw(code) /\ code # TooHeavy /\ code # TooLong
    BY <2>1, <2>2 DEF code
  <2> QED BY <2>3, ThrowKeepsLimits
<1>2. CASE VisitError(at) = "none"
  <2>1. /\ phase = "visit" /\ phase' = "visit" /\ at' = at + 1
        /\ references' = References(at) /\ literals' = Literals(at)
        /\ UNCHANGED <<schema, ref, error>>
    BY <1>2 DEF VisitNode
  <2>2. /\ at \in 1..Len(schema) /\ Len(schema) \in Nat /\ schema \in Seq(Item) /\ schema[at] \in Item
    <3>1. at \in 1..Len(schema) /\ Len(schema) \in Nat /\ schema \in Seq(Item)
      BY DEF LimitsInv, IInv, SearchTypeOK, VisitNode
    <3> QED BY <3>1, ElementOfSeq
  <2>3. Progress = at - 1 /\ Progress' = at /\ at - 1 \in Nat /\ at - 1 + 1 = at
    BY <2>1, <2>2 DEF Progress
  <2>4. VisitedWithinLimits
    BY DEF LimitsInv
  <2> DEFINE R(n) == {i \in 1..n : ref[i] # NoRef}
             lit == [i \in Node |-> schema[i].literals]
  <2>5. /\ at - 1 <= MaxNodes
        /\ references = Cardinality(R(at - 1)) /\ references <= MaxReferences
        /\ literals = SumsOf(Len(schema), lit)[at - 1] /\ literals <= MaxLiteralUnits
        /\ \A i \in 1..(at - 1) : schema[i].form \in {"boolean", "object"} /\ schema[i].depth <= MaxDepth
    BY <2>1, <2>3, <2>4 DEF VisitedWithinLimits
  <2>6. /\ ~ (schema[at].depth > MaxDepth) /\ schema[at].form \notin {"invalid", "unsupported"}
        /\ ~ (at - 1 >= MaxNodes) /\ ~ (Literals(at) > MaxLiteralUnits) /\ ~ (References(at) > MaxReferences)
    BY <1>2, Zenon DEF VisitError
  <2>7. /\ MaxNodes \in Nat /\ MaxReferences \in Nat /\ MaxLiteralUnits \in Nat /\ MaxDepth \in Nat
        /\ references \in Nat /\ literals \in Nat
        /\ schema[at].depth \in Nat /\ schema[at].literals \in Nat
        /\ schema[at].form \in {"boolean", "object", "invalid", "unsupported"}
    <3>1. references \in Nat /\ literals \in Nat
      BY DEF LimitsInv, IInv, SearchTypeOK
    <3> QED BY <2>2, <3>1, ConstantsAssumption DEF Item
  <2>8. References(at) = Cardinality(R(at))
    <3>1. IsFiniteSet(R(at - 1))
      <4>1. IsFiniteSet(1..(at - 1))
        BY <2>3, FS_Interval
      <4>2. R(at - 1) \subseteq 1..(at - 1)
        OBVIOUS
      <4> HIDE DEF R
      <4> QED BY <4>1, <4>2, FS_Subset
    <3>2. CASE ref[at] = NoRef
      <4>1. R(at) = R(at - 1)
        BY <2>2, <3>2
      <4> HIDE DEF R
      <4>2. References(at) = references + 0
        BY <3>2 DEF References
      <4>3. References(at) = references
        BY <2>7, <4>2
      <4> QED BY <2>5, <4>1, <4>3
    <3>3. CASE ref[at] # NoRef
      <4>1. R(at) = R(at - 1) \cup {at} /\ at \notin R(at - 1)
        BY <2>2, <3>3
      <4> HIDE DEF R
      <4>2. Cardinality(R(at)) = Cardinality(R(at - 1)) + 1
        BY <3>1, <4>1, FS_AddElement
      <4> QED BY <2>5, <3>3, <4>2 DEF References
    <3> QED BY <3>2, <3>3
  <2>9. Literals(at) = SumsOf(Len(schema), lit)[at]
    <3>1. lit[at] = schema[at].literals
      BY <2>2 DEF Node
    <3>2. SumsOf(Len(schema), lit)[at] = SumsOf(Len(schema), lit)[at - 1] + lit[at]
      BY <2>2, SumsStep
    <3> QED BY <2>5, <3>1, <3>2 DEF Literals
  <2>10. \A i \in 1..at : schema[i].form \in {"boolean", "object"} /\ schema[i].depth <= MaxDepth
    <3>1. schema[at].form \in {"boolean", "object"} /\ schema[at].depth <= MaxDepth
      BY <2>6, <2>7
    <3>2. \A i \in 1..at : i \in 1..(at - 1) \/ i = at
      BY <2>2
    <3> QED BY <2>5, <3>1, <3>2
  <2>11. References(at) \in Nat /\ Literals(at) \in Nat
    BY <2>7 DEF References, Literals
  <2>12. at <= MaxNodes /\ References(at) <= MaxReferences /\ Literals(at) <= MaxLiteralUnits
    BY <2>2, <2>6, <2>7, <2>11
  <2>13. Node' = Node /\ Len(schema)' = Len(schema)
    BY <2>1 DEF Node
  <2>14. VisitedWithinLimits'
    <3>1. {i \in 1..Progress : ref[i] # NoRef}' = R(at)
      BY <2>1, <2>3
    <3>2. (SumsOf(Len(schema), [i \in Node |-> schema[i].literals])[Progress])' = SumsOf(Len(schema), lit)[at]
      BY <2>1, <2>3, <2>13 DEF SumsOf
    <3> HIDE DEF R, lit
    <3> QED BY <2>1, <2>3, <2>8, <2>9, <2>10, <2>12, <3>1, <3>2 DEF VisitedWithinLimits
  <2>15. ExpandedWithinLimits' /\ RejectionsJustified'
    <3>1. RejectionsJustified'
      BY <2>1 DEF LimitsInv, IInv, ErrorIsFinal, RejectionsJustified
    <3> QED BY <2>1, <3>1 DEF ExpandedWithinLimits
  <2> QED BY <2>13, <2>14, <2>15 DEF LimitsInv
<1> QED BY <1>1, <1>2

\* An expansion that returns leaves the node within the limits, one that gives up
\* does so rightly.
LEMMA ExpandNodeLimits ==
  ASSUME LimitsInv, IInv', EdgesCounted', ExpandNode
  PROVE  LimitsInv'
<1>1. /\ phase = "expand" /\ at \in Node /\ Len(schema) \in Nat /\ Node = 1..Len(schema)
  BY DEF ExpandNode, LimitsInv, IInv, SearchTypeOK, Node
<1>2. Expandable
  BY <1>1, WalkIsExpandable DEF LimitsInv
<1> DEFINE e == Expansion(at)
<1>3. CASE /\ e.error = "none" /\ at' = at + 1
           /\ weight' = IF at = 1 THEN e.weight ELSE weight
           /\ UNCHANGED <<schema, ref, phase, references, literals, edges, stack, complete, error>>
  <2>1. Progress' = Progress
    BY <1>1, <1>3 DEF Progress
  <2>2. VisitedWithinLimits'
    BY <1>1, <1>3, <2>1, VisitedUnchanged DEF LimitsInv
  <2>3. \A n : Expansion(n)' = Expansion(n)
    BY <1>3, ExpansionUnchanged
  <2>4. /\ \A i \in 1..(at - 1) : Expansion(i).error = "none"
        /\ at > 1 => weight = Expansion(1).weight
    BY <1>1 DEF LimitsInv, ExpandedWithinLimits
  <2>5. \A i \in 1..at : i \in 1..(at - 1) \/ i = at
    BY <1>1
  <2>6. \A i \in 1..at : Expansion(i).error = "none"
    BY <1>3, <2>4, <2>5
  <2>7. weight' = Expansion(1).weight
    <3>1. at = 1 \/ at > 1
      BY <1>1
    <3> QED BY <1>3, <2>4, <3>1
  <2>8. at + 1 - 1 = at
    BY <1>1
  <2>9. ExpandedWithinLimits'
    BY <1>1, <1>3, <2>3, <2>6, <2>7, <2>8 DEF ExpandedWithinLimits
  <2>10. RejectionsJustified'
    BY <1>1, <1>3 DEF LimitsInv, IInv, ErrorIsFinal, RejectionsJustified
  <2> QED BY <1>3, <2>2, <2>9, <2>10 DEF LimitsInv
<1>4. CASE \E code \in {TooLong, TooHeavy} : e.error = code /\ Throw(code)
  <2>1. PICK code \in {TooLong, TooHeavy} : e.error = code /\ Throw(code)
    BY <1>4
  <2>2. /\ code = TooHeavy => \E i \in Node : Weights[i] > MaxWeight
        /\ code = TooLong => \E i \in Node : Visits[i] > MaxExpansion \/ TooDeep(i)
    BY <1>1, <1>2, <2>1, ExpansionIsExact
  <2> QED BY <2>1, <2>2, ThrowKeepsLimits
<1> QED BY <1>3, <1>4 DEF ExpandNode, Expanded, TooLong, TooHeavy

\* The steps in between change neither what was visited nor what was expanded.
LEMMA OtherLimits ==
  ASSUME LimitsInv, IInv', EdgesCounted',
         \/ Enter("visit", "resolve") \/ ResolveReference \/ Enter("resolve", "cycles")
         \/ StartSearch \/ FollowEdge \/ FinishNode
         \/ Enter("cycles", "expand") \/ Enter("expand", "done")
  PROVE  LimitsInv'
<1>1. /\ at \in 1..(Len(schema) + 1) /\ Len(schema) \in Nat /\ Len(schema) > 0
  BY DEF LimitsInv, IInv, SearchTypeOK
<1>2. ASSUME UNCHANGED <<schema, ref, references, literals>>, phase # "failed", phase' # "failed",
             Progress' = Progress, ExpandedWithinLimits'
      PROVE  LimitsInv'
  <2>1. VisitedWithinLimits'
    BY <1>2, VisitedUnchanged DEF LimitsInv
  <2>2. RejectionsJustified'
    BY <1>2 DEF IInv, ErrorIsFinal, RejectionsJustified
  <2> QED BY <1>2, <2>1, <2>2 DEF LimitsInv
<1>3. ASSUME NEW code, Throw(code), code # TooHeavy, code # TooLong PROVE LimitsInv'
  BY <1>3, ThrowKeepsLimits
<1>4. CASE Enter("visit", "resolve")
  BY <1>1, <1>2, <1>4 DEF Enter, Progress, ExpandedWithinLimits
<1>5. CASE ResolveReference
  <2>1. CASE ref[at] > Len(schema)
    BY <1>3, <1>5, <2>1 DEF ResolveReference, TooHeavy, TooLong
  <2>2. CASE ~ (ref[at] > Len(schema))
    BY <1>2, <1>5, <2>2 DEF ResolveReference, Progress, ExpandedWithinLimits
  <2> QED BY <2>1, <2>2
<1>6. CASE Enter("resolve", "cycles")
  BY <1>2, <1>6 DEF Enter, Progress, ExpandedWithinLimits
<1>7. CASE StartSearch \/ FinishNode
  BY <1>2, <1>7 DEF StartSearch, FinishNode, Progress, ExpandedWithinLimits
<1>8. CASE FollowEdge
  <2>1. CASE Target \in Active
    BY <1>3, <1>8, <2>1 DEF FollowEdge, TooHeavy, TooLong
  <2>2. CASE Target \notin Active
    BY <1>2, <1>8, <2>2 DEF FollowEdge, Progress, ExpandedWithinLimits
  <2> QED BY <2>1, <2>2
<1>9. CASE Enter("cycles", "expand")
  <2>1. /\ phase = "cycles" /\ phase' = "expand" /\ at' = 1
        /\ UNCHANGED <<schema, ref, references, literals>>
    BY <1>9 DEF Enter
  <2>2. ExpandedWithinLimits'
    BY <2>1 DEF ExpandedWithinLimits
  <2> QED BY <1>2, <2>1, <2>2 DEF Progress
<1>10. CASE Enter("expand", "done")
  <2>1. /\ phase = "expand" /\ phase' = "done" /\ at > Len(schema)
        /\ UNCHANGED <<schema, ref, references, literals, edges, weight>>
    BY <1>10 DEF Enter
  <2>2. \A n : Expansion(n)' = Expansion(n)
    BY <2>1, ExpansionUnchanged
  <2>3. at > 1 /\ \A i \in Node : i \in 1..(at - 1)
    BY <1>1, <2>1 DEF Node
  <2>4. weight = Expansion(1).weight /\ \A i \in Node : Expansion(i).error = "none"
    BY <2>1, <2>3 DEF LimitsInv, ExpandedWithinLimits
  <2>5. Node' = Node
    BY <2>1 DEF Node
  <2>6. ExpandedWithinLimits'
    BY <2>1, <2>2, <2>4, <2>5 DEF ExpandedWithinLimits
  <2> QED BY <1>2, <2>1, <2>6 DEF Progress
<1> QED BY <1>4, <1>5, <1>6, <1>7, <1>8, <1>9, <1>10

\* A step that changes nothing keeps everything.
LEMMA StutterLimits ==
  ASSUME LimitsInv, IInv', EdgesCounted', UNCHANGED vars
  PROVE  LimitsInv'
<1>1. UNCHANGED <<schema, ref, phase, at, references, literals, edges, error, weight>>
  BY DEF vars
<1>2. Progress' = Progress /\ Node' = Node /\ \A n : Expansion(n)' = Expansion(n)
  BY <1>1, ExpansionUnchanged DEF Progress, Node
<1>3. VisitedWithinLimits'
  BY <1>1, <1>2, VisitedUnchanged DEF LimitsInv, VisitedWithinLimits
<1>4. ExpandedWithinLimits'
  BY <1>1, <1>2 DEF LimitsInv, ExpandedWithinLimits
<1>5. RejectionsJustified'
  BY <1>1, MeasuresUnchanged DEF LimitsInv, RejectionsJustified
<1> QED BY <1>1, <1>3, <1>4, <1>5 DEF LimitsInv

\* The walk keeps, in every state, the limits of all that it has passed.
LEMMA LimitsHold == Spec => []LimitsInv
<1>1. LimitsInv /\ [Next]_vars => LimitsInv'
  <2> SUFFICES ASSUME LimitsInv, [Next]_vars PROVE LimitsInv'
    OBVIOUS
  <2>1. IInv' /\ EdgesCounted'
    BY NextIInv, NextCounted DEF LimitsInv
  <2> QED BY <2>1, VisitNodeLimits, ExpandNodeLimits, OtherLimits, StutterLimits DEF Next
<1> QED BY InitLimits, <1>1, PTL DEF Spec

\* The weight of an admitted schema is the root's total.
LEMMA LimitsInvImpliesWeightIsTotal == LimitsInv => WeightIsTotal
<1> SUFFICES ASSUME LimitsInv, phase = "done" PROVE weight = Weights[1]
  BY DEF WeightIsTotal
<1>1. Expandable
  BY WalkIsExpandable DEF LimitsInv
<1>2. weight = Expansion(1).weight /\ 1 \in Node /\ Expansion(1).error = "none"
  BY <1>1 DEF LimitsInv, ExpandedWithinLimits, Expandable, Node
<1> QED BY <1>1, <1>2, ExpansionIsExact

\* An admitted schema keeps every limit, and a rejected one does not.
LEMMA LimitsInvImpliesLimitsAreExact == LimitsInv => LimitsAreExact
<1> SUFFICES ASSUME LimitsInv PROVE AdmittedWithinLimits
  BY DEF LimitsInv, LimitsAreExact
<1> SUFFICES ASSUME phase = "done"
             PROVE  /\ Len(schema) <= MaxNodes
                    /\ Cardinality({i \in Node : ref[i] # NoRef}) <= MaxReferences
                    /\ SumOf(Len(schema), [i \in Node |-> schema[i].literals]) <= MaxLiteralUnits
                    /\ \A i \in Node :
                         /\ schema[i].form \in {"boolean", "object"} /\ schema[i].depth <= MaxDepth
                         /\ Visits[i] <= MaxExpansion /\ Weights[i] <= MaxWeight /\ ~ TooDeep(i)
  BY DEF AdmittedWithinLimits
<1>1. Expandable
  BY WalkIsExpandable DEF LimitsInv
<1>2. Progress = Len(schema) /\ Node = 1..Len(schema)
  BY DEF Progress, Node
<1>3. /\ Len(schema) <= MaxNodes
      /\ Cardinality({i \in Node : ref[i] # NoRef}) <= MaxReferences
      /\ SumOf(Len(schema), [i \in Node |-> schema[i].literals]) <= MaxLiteralUnits
      /\ \A i \in Node : schema[i].form \in {"boolean", "object"} /\ schema[i].depth <= MaxDepth
  BY <1>2 DEF LimitsInv, VisitedWithinLimits, SumOf
<1>4. \A i \in Node : Visits[i] <= MaxExpansion /\ Weights[i] <= MaxWeight /\ ~ TooDeep(i)
  BY <1>1, ExpansionIsExact DEF LimitsInv, ExpandedWithinLimits
<1> QED BY <1>3, <1>4

\* For every schema and all limits: the weight that qualification returns, by
\* which the work of an instance is bounded, is the sum over all evaluation paths
\* from the root.
THEOREM WeightAddsUp == Spec => []WeightIsTotal
  BY LimitsHold, LimitsInvImpliesWeightIsTotal, PTL

\* For every schema and all limits: qualification admits only schemas within every
\* limit, in every part, and #expansion gives up only on a schema that passes one.
THEOREM LimitsAreKept == Spec => []LimitsAreExact
  BY LimitsHold, LimitsInvImpliesLimitsAreExact, PTL
=============================================================================
