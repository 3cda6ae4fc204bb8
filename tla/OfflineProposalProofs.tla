------------------------ MODULE OfflineProposalProofs ------------------------
(***************************************************************************)
(* Proofs about OfflineProposal and the resource sets below it, for any    *)
(* limits, lists of resources, manifests, documents and expectations; and, *)
(* in the last section, about the data classes and exposures that manifest *)
(* code reads through ManifestExposureDeclarations.                        *)
(*                                                                         *)
(* prepare() of a resource set is a loop over a list, Instant reads digits *)
(* one after the other, and a name is encoded point after point: all are   *)
(* recursive functions, about which induction is done with sets of numbers *)
(* (LeastNat and Induction below).                                         *)
(***************************************************************************)
EXTENDS OfflineProposal, ActionCatalog, WellFoundedInduction, FunctionTheorems, FiniteSetTheorems,
        SequenceTheorems, TLAPS

-----------------------------------------------------------------------------
(***************************************************************************)
(* Induction over data. The natural numbers are well founded, so that      *)
(* every nonempty set of them has a least member; a set that holds 0 and   *)
(* is closed under successors is all of them.                              *)
(***************************************************************************)
\* A nonempty set of natural numbers has a least member.
LEMMA LeastNat ==
  ASSUME NEW T \in SUBSET Nat, T # {}
  PROVE  \E x \in T : \A y \in T : x <= y
<1> DEFINE R == {p \in Nat \X Nat : p[1] < p[2]}
<1>1. IsWellFoundedOn(R, Nat)
  BY NatLessThanWellFounded DEF OpToRel
<1>2. \E x \in T : \A y \in T : ~ (<<y, x>> \in R)
  BY <1>1, WFMin, Zenon
<1>3. \A x, y \in Nat : ~ (<<y, x>> \in R) => x <= y
  OBVIOUS
<1> HIDE DEF R
<1> QED BY <1>2, <1>3

\* A set that holds 0 and every successor of a member is Nat.
LEMMA Induction ==
  ASSUME NEW T \in SUBSET Nat, 0 \in T, \A n \in T : n + 1 \in T
  PROVE  T = Nat
<1> SUFFICES ASSUME T # Nat PROVE FALSE
  OBVIOUS
<1>1. PICK x \in Nat \ T : \A y \in Nat \ T : x <= y
  BY LeastNat
<1> QED BY <1>1

-----------------------------------------------------------------------------
(***************************************************************************)
(* The first test that fails decides.                                      *)
(***************************************************************************)
\* Either no test fails, or what is thrown is the error of one that does.
LEMMA FirstErrorDecides ==
  ASSUME NEW tests, DOMAIN tests \subseteq Nat
  PROVE  \/ FirstError(tests) = "none" /\ \A i \in DOMAIN tests : ~ tests[i][1]
         \/ \E i \in DOMAIN tests : tests[i][1] /\ tests[i][2] = FirstError(tests)
<1> DEFINE failing == {i \in DOMAIN tests : tests[i][1]}
<1>1. CASE failing = {}
  BY <1>1, Zenon DEF FirstError
<1>2. CASE failing # {}
  <2>1. FirstError(tests) = tests[FSX!Min(failing)][2]
    BY <1>2, Zenon DEF FirstError
  <2>2. failing \in SUBSET Nat
    OBVIOUS
  <2>3. FSX!Min(failing) \in failing
    <3> HIDE DEF failing
    <3> QED BY <1>2, <2>2, LeastNat DEF FSX!Min
  <2>4. FSX!Min(failing) \in DOMAIN tests /\ tests[FSX!Min(failing)][1]
    BY <2>3, Zenon
  <2> QED BY <2>1, <2>4, Zenon
<1> QED BY <1>1, <1>2

\* If every test names its error, then "none" says that all of them passed.
LEMMA FirstErrorNone ==
  ASSUME NEW tests, DOMAIN tests \subseteq Nat,
         \A i \in DOMAIN tests : tests[i][1] => tests[i][2] # "none",
         FirstError(tests) = "none"
  PROVE  \A i \in DOMAIN tests : ~ tests[i][1]
  BY FirstErrorDecides

\* Where no test fails, there is no error.
LEMMA FirstErrorPasses ==
  ASSUME NEW tests, DOMAIN tests \subseteq Nat, \A i \in DOMAIN tests : ~ tests[i][1]
  PROVE  FirstError(tests) = "none"
  BY FirstErrorDecides

\* If every test names its error, there is none just when all of them pass.
LEMMA FirstErrorJudges ==
  ASSUME NEW tests, DOMAIN tests \subseteq Nat,
         \A i \in DOMAIN tests : tests[i][1] => tests[i][2] # "none"
  PROVE  FirstError(tests) = "none" <=> \A i \in DOMAIN tests : ~ tests[i][1]
  BY FirstErrorNone, FirstErrorPasses

\* A resource that passes is fine by itself and fits with those before it.
LEMMA ResourcePasses ==
  ASSUME NEW sum, NEW r, ResourceError(sum, r) = "none", r.document.form # "none"
  PROVE  /\ r.uri \in Uri /\ r.uri \notin DOMAIN sum.staged
         /\ ~ (r.document.bytes > MaxResourceBytes)
         /\ ~ (sum.bytes + r.document.bytes > MaxAggregateBytes)
         /\ r.document.form = "schema" /\ r.document.id \subseteq {r.uri}
         /\ r.document.qualification = "none"
         /\ ~ (sum.nodes + r.document.nodes > MaxAggregateNodes)
         /\ ~ (sum.references + r.document.references > MaxAggregateReferences)
         /\ r.document.compiles
<1> DEFINE tests == ResourceTests(sum, r)
<1>1. FirstError(tests) = "none"
  BY DEF ResourceError
<1>2. DOMAIN tests = 1..11
  BY DEF ResourceTests
<1>3. \A i \in 1..11 : tests[i][1] => tests[i][2] # "none"
  <2> DEFINE Named(i) == tests[i][1] => tests[i][2] # "none"
  <2>1. Named(1) /\ Named(2) /\ Named(3) /\ Named(4) /\ Named(5) /\ Named(6) /\ Named(7)
          /\ Named(8) /\ Named(9) /\ Named(10) /\ Named(11)
    BY DEF ResourceTests
  <2> HIDE DEF Named
  <2>2. \A i \in 1..11 : Named(i)
    BY <2>1
  <2> QED BY <2>2 DEF Named
<1>4. \A i \in 1..11 : ~ tests[i][1]
  BY <1>1, <1>2, <1>3, FirstErrorNone
<1>5. /\ ~ tests[2][1] /\ ~ tests[3][1] /\ ~ tests[4][1] /\ ~ tests[5][1] /\ ~ tests[6][1]
      /\ ~ tests[7][1] /\ ~ tests[8][1] /\ ~ tests[9][1] /\ ~ tests[10][1] /\ ~ tests[11][1]
  <2> HIDE DEF tests
  <2> QED BY <1>4
<1> QED BY <1>5 DEF ResourceTests

\* A resource that is refused breaks one of the conditions.
LEMMA ResourceRefused ==
  ASSUME NEW sum, NEW r, ResourceError(sum, r) # "none"
  PROVE  \/ r.uri \notin Uri \/ r.uri \in DOMAIN sum.staged
         \/ r.document.bytes > MaxResourceBytes
         \/ sum.bytes + r.document.bytes > MaxAggregateBytes
         \/ r.document.form # "schema" \/ ~ (r.document.id \subseteq {r.uri})
         \/ r.document.qualification # "none"
         \/ sum.nodes + r.document.nodes > MaxAggregateNodes
         \/ sum.references + r.document.references > MaxAggregateReferences
         \/ ~ r.document.compiles
<1> DEFINE tests == ResourceTests(sum, r)
<1>1. FirstError(tests) # "none"
  BY DEF ResourceError
<1>2. PICK i \in 1..11 : tests[i][1]
  <2>1. DOMAIN tests = 1..11
    BY DEF ResourceTests
  <2> HIDE DEF tests
  <2> QED BY <1>1, <2>1, FirstErrorDecides
<1>3. \/ tests[1][1] \/ tests[2][1] \/ tests[3][1] \/ tests[4][1] \/ tests[5][1] \/ tests[6][1]
      \/ tests[7][1] \/ tests[8][1] \/ tests[9][1] \/ tests[10][1] \/ tests[11][1]
  <2> HIDE DEF tests
  <2> QED BY <1>2
<1> QED BY <1>3 DEF ResourceTests

-----------------------------------------------------------------------------
(***************************************************************************)
(* The loops of prepare(), and the totals they are judged by: a function   *)
(* that is defined by its own earlier values satisfies its definition.     *)
(***************************************************************************)
\* The running sums of a sequence: nothing, and then each amount more.
LEMMA UpToStep ==
  ASSUME NEW amounts, Len(amounts) \in Nat
  PROVE  /\ UpTo(amounts)[0] = 0
         /\ \A i \in 1..Len(amounts) : UpTo(amounts)[i] = UpTo(amounts)[i-1] + amounts[i]
<1> DEFINE n == Len(amounts)
           Rec(g, k) == g = [i \in 0..k |-> IF i = 0 THEN 0 ELSE g[i-1] + amounts[i]]
           T == {k \in Nat : \E g : Rec(g, k)}
<1>1. 0 \in T
  <2>1. Rec([i \in 0..0 |-> 0], 0)
    OBVIOUS
  <2> QED BY <2>1
<1>2. ASSUME NEW k \in Nat, NEW g, Rec(g, k) PROVE \E h : Rec(h, k+1)
  <2> DEFINE h == [i \in 0..(k+1) |-> IF i = k+1 THEN g[k] + amounts[i] ELSE g[i]]
  <2>1. ASSUME NEW i \in 0..k PROVE g[i] = IF i = 0 THEN 0 ELSE g[i-1] + amounts[i]
    BY <1>2
  <2>2. ASSUME NEW i \in 0..(k+1) PROVE h[i] = IF i = 0 THEN 0 ELSE h[i-1] + amounts[i]
    <3>1. CASE i = k+1
      BY <3>1
    <3>2. CASE i # k+1
      <4>1. i \in 0..k /\ (i # 0 => i-1 \in 0..(k+1) /\ i-1 # k+1)
        BY <3>2
      <4> QED BY <2>1, <4>1, <3>2
    <3> QED BY <3>1, <3>2
  <2>3. h = [i \in 0..(k+1) |-> IF i = 0 THEN 0 ELSE h[i-1] + amounts[i]]
    BY <2>2
  <2> QED BY <2>3
<1>3. n \in T
  <2>1. \A k \in T : k+1 \in T
    BY <1>2
  <2> HIDE DEF T
  <2> QED BY <1>1, <2>1, Induction DEF T
<1>4. \E g : Rec(g, n)
  BY <1>3
<1>5. UpTo(amounts) = [i \in 0..n |-> IF i = 0 THEN 0 ELSE UpTo(amounts)[i-1] + amounts[i]]
  BY <1>4 DEF UpTo
<1> HIDE DEF n
<1> QED BY <1>5 DEF n

\* The stages of prepare(): nothing, and then each resource in turn.
LEMMA StagesStep ==
  ASSUME NEW list, Len(list) \in Nat
  PROVE  /\ Stages(list)[0] = Empty
         /\ \A i \in 1..Len(list) : Stages(list)[i] = Stage(Stages(list)[i-1], list[i])
<1> DEFINE n == Len(list)
           Rec(g, k) == g = [i \in 0..k |-> IF i = 0 THEN Empty ELSE Stage(g[i-1], list[i])]
           T == {k \in Nat : \E g : Rec(g, k)}
<1>1. 0 \in T
  <2>1. Rec([i \in 0..0 |-> Empty], 0)
    OBVIOUS
  <2> QED BY <2>1
<1>2. ASSUME NEW k \in Nat, NEW g, Rec(g, k) PROVE \E h : Rec(h, k+1)
  <2> DEFINE h == [i \in 0..(k+1) |-> IF i = k+1 THEN Stage(g[k], list[i]) ELSE g[i]]
  <2>1. ASSUME NEW i \in 0..k PROVE g[i] = IF i = 0 THEN Empty ELSE Stage(g[i-1], list[i])
    BY <1>2
  <2>2. ASSUME NEW i \in 0..(k+1) PROVE h[i] = IF i = 0 THEN Empty ELSE Stage(h[i-1], list[i])
    <3>1. CASE i = k+1
      BY <3>1
    <3>2. CASE i # k+1
      <4>1. i \in 0..k /\ (i # 0 => i-1 \in 0..(k+1) /\ i-1 # k+1)
        BY <3>2
      <4> QED BY <2>1, <4>1, <3>2
    <3> QED BY <3>1, <3>2
  <2>3. h = [i \in 0..(k+1) |-> IF i = 0 THEN Empty ELSE Stage(h[i-1], list[i])]
    BY <2>2
  <2> QED BY <2>3
<1>3. n \in T
  <2>1. \A k \in T : k+1 \in T
    BY <1>2
  <2> HIDE DEF T
  <2> QED BY <1>1, <2>1, Induction DEF T
<1>4. \E g : Rec(g, n)
  BY <1>3
<1>5. Stages(list) = [i \in 0..n |-> IF i = 0 THEN Empty ELSE Stage(Stages(list)[i-1], list[i])]
  BY <1>4 DEF Stages
<1> HIDE DEF n
<1> QED BY <1>5 DEF n

\* Running sums of numbers are numbers, and none is above the total.
LEMMA UpToBounds ==
  ASSUME NEW amounts, Len(amounts) \in Nat, \A i \in 1..Len(amounts) : amounts[i] \in Nat
  PROVE  \A i \in 0..Len(amounts) : UpTo(amounts)[i] \in Nat /\ UpTo(amounts)[i] <= Total(amounts)
<1> DEFINE n == Len(amounts)
           U(i) == UpTo(amounts)[i]
<1>1. U(0) = 0 /\ \A i \in 1..n : U(i) = U(i-1) + amounts[i]
  BY UpToStep
<1> HIDE DEF U
<1>2. \A i \in 0..n : U(i) \in Nat
  <2> DEFINE T == {k \in Nat : k <= n => U(k) \in Nat}
  <2>1. 0 \in T
    BY <1>1
  <2>2. \A k \in T : k+1 \in T
    <3> SUFFICES ASSUME NEW k \in Nat, k <= n => U(k) \in Nat, k+1 <= n PROVE U(k+1) \in Nat
      OBVIOUS
    <3>1. k+1 \in 1..n /\ (k+1)-1 = k
      OBVIOUS
    <3>2. U(k+1) = U(k) + amounts[k+1]
      BY <1>1, <3>1
    <3> QED BY <3>1, <3>2
  <2>3. T = Nat
    <3> HIDE DEF T
    <3> QED BY <2>1, <2>2, Induction DEF T
  <2> QED BY <2>3
<1>3. \A i \in 0..n : U(i) <= U(n)
  <2> DEFINE T == {k \in Nat : k <= n => U(n-k) <= U(n)}
  <2>1. 0 \in T
    BY <1>2
  <2>2. \A k \in T : k+1 \in T
    <3> SUFFICES ASSUME NEW k \in Nat, k <= n => U(n-k) <= U(n), k+1 <= n PROVE U(n-(k+1)) <= U(n)
      OBVIOUS
    <3>1. n-k \in 1..n /\ (n-k)-1 = n-(k+1) /\ n-k \in 0..n /\ n-(k+1) \in 0..n
      OBVIOUS
    <3>2. U(n-k) = U(n-(k+1)) + amounts[n-k] /\ amounts[n-k] \in Nat
      BY <1>1, <3>1
    <3>3. U(n-k) \in Nat /\ U(n-(k+1)) \in Nat /\ U(n) \in Nat /\ U(n-k) <= U(n)
      BY <1>2, <3>1
    <3> QED BY <3>2, <3>3
  <2>3. T = Nat
    <3> HIDE DEF T
    <3> QED BY <2>1, <2>2, Induction DEF T
  <2>4. ASSUME NEW i \in 0..n PROVE U(i) <= U(n)
    <3>1. n-i \in Nat /\ n-i <= n /\ n-(n-i) = i
      OBVIOUS
    <3>2. \A k \in Nat : k <= n => U(n-k) <= U(n)
      BY <2>3
    <3> QED BY <3>1, <3>2
  <2> QED BY <2>4
<1>4. Total(amounts) = U(n)
  BY DEF Total, U
<1> QED BY <1>2, <1>3, <1>4 DEF U

\* A measured list has three sequences of numbers, as long as it is.
LEMMA MeasuredLists ==
  ASSUME NEW list, Measured(list)
  PROVE  /\ Len(list) \in Nat /\ DOMAIN list = 1..Len(list)
         /\ \A amounts \in {BytesOf(list), NodesOf(list), ReferencesOf(list)} :
              /\ Len(amounts) = Len(list)
              /\ \A i \in 1..Len(list) : amounts[i] \in Nat
<1>1. list \in Seq({list[i] : i \in DOMAIN list})
  BY DEF Measured
<1>2. Len(list) \in Nat /\ DOMAIN list = 1..Len(list)
  BY <1>1
<1>3. \A i \in 1..Len(list) :
        /\ BytesOf(list)[i] = list[i].document.bytes /\ NodesOf(list)[i] = list[i].document.nodes
        /\ ReferencesOf(list)[i] = list[i].document.references
        /\ BytesOf(list)[i] \in Nat /\ NodesOf(list)[i] \in Nat /\ ReferencesOf(list)[i] \in Nat
  BY <1>2 DEF BytesOf, NodesOf, ReferencesOf, Measured, MeasuredDocument
<1>4. BytesOf(list) \in Seq(Nat) /\ NodesOf(list) \in Seq(Nat) /\ ReferencesOf(list) \in Seq(Nat)
  BY <1>2, <1>3 DEF BytesOf, NodesOf, ReferencesOf
<1>5. /\ DOMAIN BytesOf(list) = 1..Len(list) /\ DOMAIN NodesOf(list) = 1..Len(list)
      /\ DOMAIN ReferencesOf(list) = 1..Len(list)
  BY <1>2 DEF BytesOf, NodesOf, ReferencesOf
<1>6. Len(BytesOf(list)) = Len(list) /\ Len(NodesOf(list)) = Len(list) /\ Len(ReferencesOf(list)) = Len(list)
  BY <1>2, <1>4, <1>5
<1> QED BY <1>2, <1>3, <1>6

\* The limits, one by one.
LEMMA LimitsAreNumbers ==
  /\ MaxResources \in Nat /\ MaxResourceBytes \in Nat /\ MaxAggregateBytes \in Nat
  /\ MaxAggregateNodes \in Nat /\ MaxAggregateReferences \in Nat /\ MaxInstanceBytes \in Nat
  /\ MaxInstanceNodes \in Nat /\ MaxInstanceDepth \in Nat /\ MaxInstanceWork \in Nat
  BY ResourcesAssumption

\* What prepare() knows after k resources that passed: the view of these k, each
\* of them fine by itself, and sums that keep the limits.
Judged(list, k, s) ==
  /\ DOMAIN s = DOMAIN Empty
  /\ s.staged = [uri \in DOMAIN s.staged |-> s.staged[uri]]
  /\ DOMAIN s.staged = {list[i].uri : i \in 1..k}
  /\ \A i \in 1..k : LET d == list[i].document IN
       /\ s.staged[list[i].uri] = d
       /\ list[i].uri \in Uri /\ d.form = "schema" /\ d.id \subseteq {list[i].uri}
       /\ d.qualification = "none" /\ d.compiles /\ d.bytes <= MaxResourceBytes
       /\ \A j \in 1..k : list[j].uri = list[i].uri => j = i
  /\ s.bytes = UpTo(BytesOf(list))[k] /\ s.bytes <= MaxAggregateBytes
  /\ s.nodes = UpTo(NodesOf(list))[k] /\ s.nodes <= MaxAggregateNodes
  /\ s.references = UpTo(ReferencesOf(list))[k] /\ s.references <= MaxAggregateReferences

\* Whatever resource the loop gives up at, the list as a whole is inadmissible.
LEMMA GivesUpJustly ==
  ASSUME NEW list, Measured(list), NEW k \in 1..Len(list), NEW s, Judged(list, k-1, s),
         ResourceError(s, list[k]) # "none"
  PROVE  ~ Admissible(list)
<1> SUFFICES ASSUME Admissible(list) PROVE FALSE
  OBVIOUS
<1>1. DOMAIN list = 1..Len(list) /\ Len(list) \in Nat
  BY MeasuredLists
<1>2. /\ UpTo(BytesOf(list))[k] <= MaxAggregateBytes
      /\ UpTo(NodesOf(list))[k] <= MaxAggregateNodes
      /\ UpTo(ReferencesOf(list))[k] <= MaxAggregateReferences
      /\ UpTo(BytesOf(list))[k] \in Nat /\ UpTo(NodesOf(list))[k] \in Nat
      /\ UpTo(ReferencesOf(list))[k] \in Nat
  <2>1. ASSUME NEW amounts \in {BytesOf(list), NodesOf(list), ReferencesOf(list)}
        PROVE  UpTo(amounts)[k] \in Nat /\ UpTo(amounts)[k] <= Total(amounts)
               /\ Total(amounts) \in Nat
    <3>1. Len(amounts) = Len(list) /\ \A i \in 1..Len(amounts) : amounts[i] \in Nat
      BY MeasuredLists
    <3>2. \A i \in 0..Len(amounts) : UpTo(amounts)[i] \in Nat /\ UpTo(amounts)[i] <= Total(amounts)
      BY <1>1, <3>1, UpToBounds
    <3> QED BY <1>1, <3>1, <3>2 DEF Total
  <2>2. /\ Total(BytesOf(list)) <= MaxAggregateBytes /\ Total(NodesOf(list)) <= MaxAggregateNodes
        /\ Total(ReferencesOf(list)) <= MaxAggregateReferences
    BY DEF Admissible
  <2> QED BY <2>1, <2>2, LimitsAreNumbers
<1>3. \A amounts \in {BytesOf(list), NodesOf(list), ReferencesOf(list)} :
        UpTo(amounts)[k] = UpTo(amounts)[k-1] + amounts[k]
  BY <1>1, MeasuredLists, UpToStep
<1>4. /\ s.bytes + list[k].document.bytes = UpTo(BytesOf(list))[k]
      /\ s.nodes + list[k].document.nodes = UpTo(NodesOf(list))[k]
      /\ s.references + list[k].document.references = UpTo(ReferencesOf(list))[k]
  BY <1>1, <1>3 DEF Judged, BytesOf, NodesOf, ReferencesOf
<1>5. list[k].uri \notin DOMAIN s.staged
  <2> SUFFICES ASSUME NEW i \in 1..(k-1), list[i].uri = list[k].uri PROVE FALSE
    BY DEF Judged
  <2> QED BY <1>1 DEF Admissible
<1>6. LET d == list[k].document IN
      /\ list[k].uri \in Uri /\ d.form = "schema" /\ d.id \subseteq {list[k].uri}
      /\ d.qualification = "none" /\ d.compiles /\ d.bytes <= MaxResourceBytes
  BY <1>1 DEF Admissible
<1>7. list[k].document.bytes \in Nat
  BY <1>1 DEF Measured, MeasuredDocument
<1>8. /\ ~ (list[k].document.bytes > MaxResourceBytes)
      /\ ~ (s.bytes + list[k].document.bytes > MaxAggregateBytes)
      /\ ~ (s.nodes + list[k].document.nodes > MaxAggregateNodes)
      /\ ~ (s.references + list[k].document.references > MaxAggregateReferences)
  BY <1>2, <1>4, <1>6, <1>7, LimitsAreNumbers
<1> QED BY <1>5, <1>6, <1>8, ResourceRefused, Zenon

\* A resource that passes is staged, and the sums go on.
LEMMA PassesOn ==
  ASSUME NEW list, Measured(list), NEW k \in 1..Len(list), NEW s, Judged(list, k-1, s),
         s.error = "none", ResourceError(s, list[k]) = "none"
  PROVE  Judged(list, k, Stage(s, list[k])) /\ Stage(s, list[k]).error = "none"
<1> DEFINE r == list[k]
           d == r.document
           t == Stage(s, r)
<1>1. DOMAIN list = 1..Len(list) /\ Len(list) \in Nat
  BY MeasuredLists
<1>2. /\ d.bytes \in Nat /\ d.nodes \in Nat /\ d.references \in Nat /\ d.form # "none"
  BY <1>1 DEF Measured, MeasuredDocument
<1>3. t = [error |-> "none",
           staged |-> [uri \in DOMAIN s.staged \cup {r.uri} |-> IF uri = r.uri THEN d ELSE s.staged[uri]],
           bytes |-> s.bytes + d.bytes, nodes |-> s.nodes + d.nodes,
           references |-> s.references + d.references]
  BY DEF Stage
<1>4. /\ r.uri \in Uri /\ r.uri \notin DOMAIN s.staged
      /\ ~ (d.bytes > MaxResourceBytes)
      /\ ~ (s.bytes + d.bytes > MaxAggregateBytes)
      /\ d.form = "schema" /\ d.id \subseteq {r.uri} /\ d.qualification = "none"
      /\ ~ (s.nodes + d.nodes > MaxAggregateNodes)
      /\ ~ (s.references + d.references > MaxAggregateReferences)
      /\ d.compiles
  BY <1>2, ResourcePasses
<1>5. \A amounts \in {BytesOf(list), NodesOf(list), ReferencesOf(list)} :
        UpTo(amounts)[k] = UpTo(amounts)[k-1] + amounts[k] /\ UpTo(amounts)[k] \in Nat
  <2> TAKE amounts \in {BytesOf(list), NodesOf(list), ReferencesOf(list)}
  <2>1. Len(amounts) = Len(list) /\ \A i \in 1..Len(amounts) : amounts[i] \in Nat
    BY MeasuredLists
  <2> QED BY <1>1, <2>1, UpToStep, UpToBounds
<1>6. /\ BytesOf(list)[k] = d.bytes /\ NodesOf(list)[k] = d.nodes /\ ReferencesOf(list)[k] = d.references
  BY <1>1 DEF BytesOf, NodesOf, ReferencesOf
<1>7. /\ t.bytes = UpTo(BytesOf(list))[k] /\ t.nodes = UpTo(NodesOf(list))[k]
      /\ t.references = UpTo(ReferencesOf(list))[k]
  BY <1>3, <1>5, <1>6 DEF Judged
<1>8. /\ t.bytes <= MaxAggregateBytes /\ t.nodes <= MaxAggregateNodes
      /\ t.references <= MaxAggregateReferences /\ d.bytes <= MaxResourceBytes
  <2>1. t.bytes = s.bytes + d.bytes /\ t.nodes = s.nodes + d.nodes
        /\ t.references = s.references + d.references
    BY <1>3
  <2>2. t.bytes \in Nat /\ t.nodes \in Nat /\ t.references \in Nat
    BY <1>5, <1>7
  <2>3. /\ ~ (t.bytes > MaxAggregateBytes) /\ ~ (t.nodes > MaxAggregateNodes)
        /\ ~ (t.references > MaxAggregateReferences) /\ ~ (d.bytes > MaxResourceBytes)
    <3> HIDE DEF t, d
    <3> QED BY <1>4, <2>1, Zenon
  <2>4. d.bytes \in Nat
    BY <1>2
  <2> HIDE DEF t, d
  <2> QED BY <2>2, <2>3, <2>4, LimitsAreNumbers
<1>9. /\ t.staged = [uri \in DOMAIN t.staged |-> t.staged[uri]]
      /\ DOMAIN t.staged = {list[i].uri : i \in 1..k}
  <2>1. DOMAIN t.staged = DOMAIN s.staged \cup {r.uri}
        /\ t.staged = [uri \in DOMAIN t.staged |-> t.staged[uri]]
    BY <1>3
  <2>2. DOMAIN s.staged = {list[i].uri : i \in 1..(k-1)}
    BY DEF Judged
  <2>3. 1..k = 1..(k-1) \cup {k}
    BY <1>1
  <2> HIDE DEF t
  <2> QED BY <2>1, <2>2, <2>3
<1>10. \A i \in 1..(k-1) : list[i].uri # r.uri
  BY <1>4 DEF Judged
<1>11. ASSUME NEW i \in 1..k
       PROVE  /\ t.staged[list[i].uri] = list[i].document
              /\ list[i].uri \in Uri /\ list[i].document.form = "schema"
              /\ list[i].document.id \subseteq {list[i].uri}
              /\ list[i].document.qualification = "none" /\ list[i].document.compiles
              /\ list[i].document.bytes <= MaxResourceBytes
              /\ \A j \in 1..k : list[j].uri = list[i].uri => j = i
  <2>1. CASE i = k
    <3>1. t.staged[r.uri] = d
      BY <1>3
    <3>2. \A j \in 1..k : j # k => j \in 1..(k-1)
      BY <1>1
    <3> HIDE DEF t
    <3> QED BY <2>1, <1>4, <1>8, <1>10, <3>1, <3>2
  <2>2. CASE i # k
    <3>1. i \in 1..(k-1) /\ \A j \in 1..k : j # k => j \in 1..(k-1)
      BY <1>1, <2>2
    <3>2. list[i].uri \in DOMAIN s.staged /\ list[i].uri # r.uri
      BY <3>1, <1>10 DEF Judged
    <3>3. t.staged[list[i].uri] = s.staged[list[i].uri]
      BY <1>3, <3>2
    <3> HIDE DEF t
    <3>4. /\ s.staged[list[i].uri] = list[i].document
          /\ list[i].uri \in Uri /\ list[i].document.form = "schema"
          /\ list[i].document.id \subseteq {list[i].uri}
          /\ list[i].document.qualification = "none" /\ list[i].document.compiles
          /\ list[i].document.bytes <= MaxResourceBytes
          /\ \A j \in 1..(k-1) : list[j].uri = list[i].uri => j = i
      BY <3>1 DEF Judged
    <3> QED BY <3>1, <3>2, <3>3, <3>4
  <2> QED BY <2>1, <2>2
<1>12. t.error = "none" /\ DOMAIN t = DOMAIN Empty
  BY <1>3 DEF Empty
<1>13. Judged(list, k, t)
  <2> HIDE DEF t
  <2> QED BY <1>7, <1>8, <1>9, <1>11, <1>12 DEF Judged
<1> QED BY <1>12, <1>13

\* After any number of turns, prepare() either holds what it has judged, or has
\* given up on a list that is inadmissible.
LEMMA LoopJudges ==
  ASSUME NEW list, Measured(list)
  PROVE  \A k \in 0..Len(list) :
           /\ Stages(list)[k].error = "none" => Judged(list, k, Stages(list)[k])
           /\ Stages(list)[k].error # "none" => ~ Admissible(list)
<1>1. Len(list) \in Nat
  BY MeasuredLists
<1> DEFINE Sound1(k) ==
             /\ Stages(list)[k].error = "none" => Judged(list, k, Stages(list)[k])
             /\ Stages(list)[k].error # "none" => ~ Admissible(list)
           T == {k \in Nat : k <= Len(list) => Sound1(k)}
<1>2. Sound1(0)
  <2>1. Stages(list)[0] = Empty
    BY <1>1, StagesStep
  <2>2. \A amounts \in {BytesOf(list), NodesOf(list), ReferencesOf(list)} : UpTo(amounts)[0] = 0
    BY <1>1, MeasuredLists, UpToStep
  <2>3. Judged(list, 0, Empty)
    BY <2>2, LimitsAreNumbers DEF Judged, Empty
  <2> QED BY <2>1, <2>3 DEF Empty
<1>3. ASSUME NEW k \in Nat, k + 1 <= Len(list), Sound1(k) PROVE Sound1(k+1)
  <2> DEFINE s == Stages(list)[k]
  <2>1. Stages(list)[k+1] = Stage(s, list[k+1])
    <3>1. k+1 \in 1..Len(list) /\ (k+1)-1 = k
      BY <1>1, <1>3
    <3> QED BY <1>1, <3>1, StagesStep
  <2>2. k+1 \in 1..Len(list) /\ (k+1)-1 = k
    BY <1>1, <1>3
  <2>3. CASE s.error # "none"
    BY <1>3, <2>1, <2>3 DEF Stage
  <2>4. CASE s.error = "none" /\ ResourceError(s, list[k+1]) # "none"
    <3>1. ~ Admissible(list)
      BY <1>3, <2>2, <2>4, GivesUpJustly
    <3>2. Stage(s, list[k+1]).error # "none"
      <4>1. Stage(s, list[k+1]) = [s EXCEPT !.error = ResourceError(s, list[k+1])]
        BY <2>4 DEF Stage
      <4>2. "error" \in DOMAIN s
        BY <1>3, <2>4 DEF Judged, Empty
      <4> HIDE DEF s
      <4> QED BY <2>4, <4>1, <4>2
    <3> QED BY <2>1, <3>1, <3>2
  <2>5. CASE s.error = "none" /\ ResourceError(s, list[k+1]) = "none"
    <3>1. Judged(list, k+1, Stage(s, list[k+1])) /\ Stage(s, list[k+1]).error = "none"
      BY <1>3, <2>2, <2>5, PassesOn
    <3> QED BY <2>1, <3>1
  <2> QED BY <2>3, <2>4, <2>5
<1>4. T = Nat
  <2>1. 0 \in T
    BY <1>2
  <2>2. \A k \in T : k+1 \in T
    <3> HIDE DEF Sound1
    <3> QED BY <1>1, <1>3
  <2> HIDE DEF T
  <2> QED BY <2>1, <2>2, Induction DEF T
<1> HIDE DEF Sound1
<1>5. \A k \in 0..Len(list) : Sound1(k)
  BY <1>1, <1>4
<1> QED BY <1>5 DEF Sound1

\* The view of a list holds its documents under their names.
LEMMA ViewMembers ==
  ASSUME NEW list
  PROVE  /\ DOMAIN View(list) = {list[i].uri : i \in DOMAIN list}
         /\ \A uri \in DOMAIN View(list) : \E i \in DOMAIN list :
              list[i].uri = uri /\ View(list)[uri] = list[i].document
  BY DEF View, Member

\* prepare() answers the whole view of a list that keeps every limit in total,
\* and refuses every other list.
LEMMA PreparationIsExact ==
  ASSUME NEW list, Measured(list)
  PROVE  /\ Preparation(list).error = "none" =>
              Admissible(list) /\ Preparation(list).staged = View(list)
         /\ Preparation(list).error # "none" => ~ Admissible(list)
<1>1. Len(list) \in Nat /\ DOMAIN list = 1..Len(list)
  BY MeasuredLists
<1>2. CASE Len(list) > MaxResources
  <2>1. Preparation(list).error = "schema_resource_count_limit"
    BY <1>2 DEF Preparation, Empty
  <2>2. ~ Admissible(list)
    BY <1>1, <1>2, LimitsAreNumbers DEF Admissible
  <2> QED BY <2>1, <2>2
<1>3. CASE ~ (Len(list) > MaxResources)
  <2> DEFINE s == Stages(list)[Len(list)]
  <2>1. Preparation(list) = s
    BY <1>3 DEF Preparation
  <2>2. /\ s.error = "none" => Judged(list, Len(list), s)
        /\ s.error # "none" => ~ Admissible(list)
    BY <1>1, LoopJudges
  <2> HIDE DEF s
  <2>3. ASSUME Judged(list, Len(list), s) PROVE Admissible(list)
    <3>1. Len(list) <= MaxResources
      BY <1>1, <1>3, LimitsAreNumbers
    <3>2. /\ Total(BytesOf(list)) <= MaxAggregateBytes /\ Total(NodesOf(list)) <= MaxAggregateNodes
          /\ Total(ReferencesOf(list)) <= MaxAggregateReferences
      BY <2>3, MeasuredLists DEF Judged, Total
    <3>3. \A i \in DOMAIN list : LET r == list[i] d == list[i].document IN
            /\ r.uri \in Uri /\ d.form = "schema" /\ d.id \subseteq {r.uri}
            /\ d.qualification = "none" /\ d.compiles
            /\ d.bytes <= MaxResourceBytes
            /\ \A j \in DOMAIN list : list[j].uri = r.uri => j = i
      BY <1>1, <2>3 DEF Judged
    <3> QED BY <3>1, <3>2, <3>3 DEF Admissible
  <2>4. ASSUME Judged(list, Len(list), s) PROVE s.staged = View(list)
    <3>1. /\ s.staged = [uri \in DOMAIN s.staged |-> s.staged[uri]]
          /\ DOMAIN s.staged = {list[i].uri : i \in DOMAIN list}
          /\ \A i \in DOMAIN list : s.staged[list[i].uri] = list[i].document
      BY <1>1, <2>4 DEF Judged
    <3>2. /\ DOMAIN View(list) = {list[i].uri : i \in DOMAIN list}
          /\ \A uri \in DOMAIN View(list) : \E i \in DOMAIN list :
               list[i].uri = uri /\ View(list)[uri] = list[i].document
          /\ View(list) = [uri \in DOMAIN View(list) |-> View(list)[uri]]
      <4>1. View(list) = [uri \in DOMAIN View(list) |-> View(list)[uri]]
        BY DEF View
      <4> QED BY <4>1, ViewMembers
    <3>3. \A uri \in DOMAIN View(list) : s.staged[uri] = View(list)[uri]
      BY <3>1, <3>2
    <3> QED BY <3>1, <3>2, <3>3
  <2> QED BY <2>1, <2>2, <2>3, <2>4
<1> QED BY <1>2, <1>3

\* The documents of a prepared set weigh something.
LEMMA PreparedWeigh ==
  ASSUME NEW list, Measured(list), Admissible(list), NEW uri \in DOMAIN View(list)
  PROVE  View(list)[uri].weight \in Nat \ {0} /\ uri \in Uri
<1>1. PICK i \in DOMAIN list : list[i].uri = uri /\ View(list)[uri] = list[i].document
  BY ViewMembers
<1>2. list[i].document.qualification = "none" /\ list[i].uri \in Uri
  BY DEF Admissible
<1> QED BY <1>1, <1>2 DEF Measured, MeasuredDocument

\* The constructor captures what it may measure, and one entry more than it accepts.
LEMMA CaptureMeasured ==
  ASSUME NEW l \in Lists
  PROVE  Measured(Capture(l)) /\ Len(Capture(l)) <= MaxResources + 1
<1> DEFINE n == IF Len(l) > MaxResources THEN MaxResources + 1 ELSE Len(l)
           V == {l[i] : i \in DOMAIN l}
<1>1. l \in Seq(V) /\ Measured(l)
  BY ResourcesAssumption DEF Measured
<1>2. Len(l) \in Nat /\ DOMAIN l = 1..Len(l) /\ MaxResources \in Nat
  BY <1>1, LimitsAreNumbers
<1>3. n \in 0..Len(l) /\ n <= MaxResources + 1
  BY <1>2
<1>4. Capture(l) = SubSeq(l, 1, n)
  BY DEF Capture
<1> HIDE DEF n, V
<1>5. /\ Capture(l) \in Seq(V) /\ Len(Capture(l)) = n
      /\ \A i \in 1..n : Capture(l)[i] = l[i]
  BY <1>1, <1>2, <1>3, <1>4
<1>6. DOMAIN Capture(l) = 1..n /\ 1..n \subseteq DOMAIN l
  BY <1>2, <1>3, <1>5
<1>7. Capture(l) \in Seq({Capture(l)[i] : i \in DOMAIN Capture(l)})
  BY <1>3, <1>5, <1>6
<1> QED BY <1>1, <1>3, <1>5, <1>6, <1>7 DEF Measured, MeasuredDocument

-----------------------------------------------------------------------------
(***************************************************************************)
(* The work bound of one evaluation.                                       *)
(***************************************************************************)

\* The quotient of a product's bound is exact: u times w stays within W just
\* when u is at most the integer part of W / w.
LEMMA QuotientBounds ==
  ASSUME NEW W \in Nat, NEW w \in Nat, w > 0, NEW u \in Nat
  PROVE  u <= W \div w <=> u * w <= W
<1> DEFINE q == W \div w
<1>1. q \in Nat /\ q * w <= W /\ W < (q + 1) * w
  BY Z3
<1>2. ASSUME u <= q PROVE u * w <= W
  <2>1. u * w <= q * w
    BY <1>1, <1>2, Z3
  <2> QED BY <1>1, <2>1
<1>3. ASSUME u > q PROVE u * w > W
  <2>1. u * w >= (q + 1) * w
    BY <1>1, <1>3, Z3
  <2> QED BY <1>1, <2>1
<1> QED BY <1>1, <1>2, <1>3

\* EnginePreparedSchema.validate lets an instance reach the engine just when
\* its units, each at the schema's full weight, stay within the work bound:
\* dividing the bound instead of multiplying loses nothing either way.
THEOREM AffordableIsExact ==
  ASSUME NEW document, document.weight \in Nat, document.weight > 0,
         NEW instance, Units(instance) \in Nat
  PROVE  Affordable(document, instance)
           <=> Units(instance) * document.weight <= MaxInstanceWork
<1>1. MaxInstanceWork \in Nat
  BY ResourcesAssumption
<1> QED BY <1>1, QuotientBounds DEF Affordable

\* What validate answers about a document that weighs something: the engine ran
\* within every bound, or the work would have passed its own.
Bounded(document, instance, code) ==
  LET work == Units(instance) * document.weight IN
  /\ code \in Engine =>
       /\ work <= MaxInstanceWork
       /\ instance.nodes <= MaxInstanceNodes
       /\ instance.depth <= MaxInstanceDepth
       /\ instance.bytes <= MaxInstanceBytes
  /\ code = "schema_instance_work_limit" => work > MaxInstanceWork

\* Every answer of validate keeps within the bounds, or says which one it broke.
LEMMA ValidationBounded ==
  ASSUME NEW document, document.weight \in Nat \ {0}, NEW instance \in Instances,
         NEW code \in ValidationErrors(document, instance)
  PROVE  Bounded(document, instance, code)
<1> DEFINE u == Units(instance)
           w == document.weight
<1>1. /\ instance.bytes \in Nat /\ instance.nodes \in Nat /\ instance.depth \in Nat
      /\ instance.text \in Nat
      /\ instance.form \notin Engine /\ instance.form # "schema_instance_work_limit"
  BY ResourcesAssumption
<1>2. u \in Nat /\ w \in Nat /\ w >= 1
  BY <1>1 DEF Units
<1>3. u * w \in Nat /\ (u > MaxInstanceWork => u * w > MaxInstanceWork)
  <2>1. u * w \in Nat /\ u * w >= u
    <3> HIDE DEF u, w
    <3> QED BY <1>2, Z3
  <2> HIDE DEF u, w
  <2> QED BY <1>2, <2>1, LimitsAreNumbers
<1>4. Affordable(document, instance) <=> u * w <= MaxInstanceWork
  BY <1>2, AffordableIsExact
<1>5. CASE instance.form = "foreign"
  BY <1>5 DEF ValidationErrors, Bounded, Engine
<1>6. CASE instance.form # "foreign" /\ instance.bytes > MaxInstanceBytes
  BY <1>6 DEF ValidationErrors, Bounded, Engine
<1>7. CASE instance.form \notin {"foreign", "json"} /\ ~ (instance.bytes > MaxInstanceBytes)
  <2>1. code = instance.form
    BY <1>7 DEF ValidationErrors
  <2> QED BY <1>1, <2>1 DEF Bounded
<1>8. CASE /\ instance.form = "json" /\ ~ (instance.bytes > MaxInstanceBytes)
           /\ Overruns(instance) # {}
  <2>1. code \in Overruns(instance)
    BY <1>8 DEF ValidationErrors
  <2>2. /\ code \notin Engine
        /\ code = "schema_instance_work_limit" => u > MaxInstanceWork
    BY <2>1 DEF Overruns, Engine
  <2> HIDE DEF w
  <2> QED BY <1>3, <2>2 DEF Bounded, w
<1>9. CASE /\ instance.form = "json" /\ ~ (instance.bytes > MaxInstanceBytes)
           /\ Overruns(instance) = {} /\ ~ Affordable(document, instance)
  <2>1. code = "schema_instance_work_limit"
    BY <1>9 DEF ValidationErrors
  <2>2. u * w > MaxInstanceWork
    BY <1>3, <1>4, <1>9, LimitsAreNumbers
  <2> QED BY <2>1, <2>2 DEF Bounded, Engine
<1>10. CASE /\ instance.form = "json" /\ ~ (instance.bytes > MaxInstanceBytes)
            /\ Overruns(instance) = {} /\ Affordable(document, instance)
  <2>1. code \in Engine
    BY <1>10 DEF ValidationErrors
  <2>2. ~ (instance.nodes > MaxInstanceNodes) /\ ~ (instance.depth > MaxInstanceDepth)
    <3>1. "schema_instance_node_limit" \notin Overruns(instance)
          /\ "schema_instance_depth_limit" \notin Overruns(instance)
      BY <1>10
    <3> QED BY <3>1 DEF Overruns
  <2>3. /\ instance.nodes <= MaxInstanceNodes /\ instance.depth <= MaxInstanceDepth
        /\ instance.bytes <= MaxInstanceBytes
    BY <1>1, <1>10, <2>2, LimitsAreNumbers
  <2> QED BY <1>4, <1>10, <2>1, <2>3 DEF Bounded, Engine
<1> QED BY <1>5, <1>6, <1>7, <1>8, <1>9, <1>10

-----------------------------------------------------------------------------
(***************************************************************************)
(* Resource sets                                                           *)
(***************************************************************************)
\* The invariant of a resource set holds initially.
LEMMA ResourcesInitial == ResourcesInit => ResourcesInv
<1> SUFFICES ASSUME ResourcesInit PROVE ResourcesInv
  OBVIOUS
<1>1. Measured(captured) /\ Len(captured) <= MaxResources + 1
  BY CaptureMeasured DEF ResourcesInit
<1> QED BY <1>1 DEF ResourcesInit, ResourcesInv, ResourcesTypeOK, PreparedWhole, ResolvedInSet,
                    RefusalsJustified, WorkBounded

\* What Retain keeps of a preparation of the captured list.
LEMMA RetainsWhole ==
  ASSUME Measured(captured), RefusalsJustified, Retain(Preparation(captured)), captured' = captured
  PROVE  PreparedWhole' /\ RefusalsJustified'
<1>1. /\ Preparation(captured).error = "none" =>
           Admissible(captured) /\ Preparation(captured).staged = View(captured)
      /\ Preparation(captured).error # "none" => ~ Admissible(captured)
  BY PreparationIsExact
<1>2. PreparedWhole'
  BY <1>1 DEF Retain, PreparedWhole, Views
<1>3. RefusalsJustified'
  BY <1>1 DEF Retain, RefusalsJustified
<1> QED BY <1>2, <1>3

\* Every operation on a resource set keeps it.
LEMMA ResourcesStep == ResourcesInv /\ [ResourcesNext]_resources => ResourcesInv'
<1> SUFFICES ASSUME ResourcesInv, [ResourcesNext]_resources PROVE ResourcesInv'
  OBVIOUS
<1> USE DEF ResourcesInv
<1>1. CASE EditList
  BY <1>1 DEF EditList, ResourcesTypeOK, PreparedWhole, ResolvedInSet, RefusalsJustified, WorkBounded
<1>2. CASE Prepare
  <2>1. PreparedWhole' /\ RefusalsJustified'
    BY <1>2, RetainsWhole DEF Prepare, ResourcesTypeOK
  <2>2. handle = NoHandle /\ handle' = handle
    BY <1>2 DEF Prepare, ResolvedInSet
  <2>3. ResourcesTypeOK' /\ ResolvedInSet' /\ WorkBounded'
    BY <1>2, <2>2 DEF Prepare, ResourcesTypeOK, ResolvedInSet, WorkBounded
  <2> QED BY <2>1, <2>3
<1>3. ASSUME NEW uri \in Uri, Resolve(uri) PROVE ResourcesInv'
  BY <1>3 DEF Resolve, ResourcesTypeOK, PreparedWhole, ResolvedInSet, RefusalsJustified, WorkBounded
<1>4. ASSUME NEW uri \in Uri, NEW hash \in Hashes, ResolveInput(uri, hash) PROVE ResourcesInv'
  BY <1>4 DEF ResolveInput, ResourcesTypeOK, PreparedWhole, ResolvedInSet, RefusalsJustified, WorkBounded
<1>5. ASSUME NEW instance \in Instances, Validate(instance) PROVE ResourcesInv'
  <2>1. PICK code \in ValidationErrors(handle.document, instance) :
          validation' = [document |-> handle.document, instance |-> instance, error |-> code]
    BY <1>5 DEF Validate
  <2>2. handle.document.weight \in Nat \ {0}
    <3>1. /\ prepared = View(captured) /\ Admissible(captured) /\ Measured(captured)
          /\ handle.uri \in DOMAIN prepared /\ handle.document = prepared[handle.uri]
      BY <1>5 DEF Validate, ResolvedInSet, PreparedWhole, Views, ResourcesTypeOK
    <3> QED BY <3>1, PreparedWeigh
  <2>3. Bounded(handle.document, instance, code)
    BY <2>2, ValidationBounded
  <2>4. WorkBounded'
    BY <2>1, <2>3 DEF WorkBounded, Bounded
  <2> QED BY <1>5, <2>4 DEF Validate, ResourcesTypeOK, PreparedWhole, ResolvedInSet, RefusalsJustified
<1>6. CASE UNCHANGED resources
  BY <1>6 DEF resources, ResourcesTypeOK, PreparedWhole, ResolvedInSet, RefusalsJustified, WorkBounded
<1> QED BY <1>1, <1>2, <1>3, <1>4, <1>5, <1>6 DEF ResourcesNext

\* For every list of schemas and all limits: what prepare() answers is the view
\* of the whole list, it never refuses a list that keeps the limits, and the
\* engine only runs within the work bound.
THEOREM ResourcesHold == ResourcesSpec => []ResourcesInv
<1> QED BY ResourcesInitial, ResourcesStep, PTL DEF ResourcesSpec

\* The resource set implements the abstract PrepareOnce: it is retained as a
\* whole, once, for the list that was captured.
THEOREM SetPreparedOnce == ResourcesSpec => PreparesWholeSet
<1>1. ResourcesInit => PO!POInit
  BY DEF ResourcesInit, PO!POInit
<1>2. ResourcesInv /\ ResourcesInv' /\ [ResourcesNext]_resources
        => [PO!POPrepare]_<<captured, prepared>>
  <2> SUFFICES ASSUME ResourcesInv, ResourcesInv', [ResourcesNext]_resources
               PROVE  [PO!POPrepare]_<<captured, prepared>>
    OBVIOUS
  <2>1. CASE Prepare
    BY <2>1 DEF Prepare, PO!POPrepare, ResourcesInv, PreparedWhole
  <2>2. CASE ~ Prepare
    BY <2>2 DEF ResourcesNext, EditList, Resolve, ResolveInput, Validate, resources
  <2> QED BY <2>1, <2>2
<1> QED BY <1>1, <1>2, ResourcesHold, PTL DEF ResourcesSpec, PreparesWholeSet, PO!POSpec

-----------------------------------------------------------------------------
(***************************************************************************)
(* What passes every test.                                                 *)
(***************************************************************************)
\* A manifest that passes is sound by itself.
LEMMA ManifestPasses ==
  ASSUME NEW m, NEW entry, ManifestError(m, entry) = "none",
         "none" \notin {m.form, m.view.head, m.view.body, m.view.exposure}
  PROVE  LET v == m.view IN
         /\ m.form = "object" /\ m.surface_hash = ManifestHash(v)
         /\ v.head = "ok" /\ v.entry = entry /\ v.body = "ok" /\ Deliverable(v)
         /\ Cardinality(Paths(v)) = Cardinality(Endpoint)
         /\ ~ (v.audience.origin = v.issuer /\ v.audience.path \in Paths(v))
         /\ v.action.scope = v.scope /\ v.exposure = "ok"
<1> DEFINE tests == ManifestTests(m, entry)
           Named(i) == tests[i][1] => tests[i][2] # "none"
<1>1. DOMAIN tests = 1..11
  BY DEF ManifestTests
<1>2. Named(1) /\ Named(2) /\ Named(3) /\ Named(4) /\ Named(5) /\ Named(6) /\ Named(7) /\ Named(8)
      /\ Named(9) /\ Named(10) /\ Named(11)
  BY DEF ManifestTests
<1>3. \A i \in 1..11 : Named(i)
  <2> HIDE DEF Named, tests
  <2> QED BY <1>2
<1>4. \A i \in 1..11 : ~ tests[i][1]
  <2>1. FirstError(tests) = "none"
    BY DEF ManifestError
  <2> HIDE DEF tests
  <2> QED BY <1>1, <1>3, <2>1, FirstErrorNone
<1>5. ~ tests[1][1] /\ ~ tests[2][1] /\ ~ tests[3][1] /\ ~ tests[4][1] /\ ~ tests[5][1]
      /\ ~ tests[6][1] /\ ~ tests[7][1] /\ ~ tests[8][1] /\ ~ tests[9][1] /\ ~ tests[10][1]
      /\ ~ tests[11][1]
  <2> HIDE DEF tests
  <2> QED BY <1>4
<1> QED BY <1>5 DEF ManifestTests

\* A request that passes is about the manifest and what the host expects.
LEMMA RequestPasses ==
  ASSUME NEW r, NEW host, NEW view, FirstError(RequestTests(r, host, view)) = "none",
         "none" \notin {r.form, r.fields, r.terms}
  PROVE  /\ r.runtime = host.runtime /\ r.agent = host.agent /\ r.evidence = host.evidence
         /\ r.resource_server = ResourceServer(view) /\ r.location = ActionUrl(view)
         /\ r.action = view.action.id /\ r.scope = view.scope
<1> DEFINE tests == RequestTests(r, host, view)
           Named(i) == tests[i][1] => tests[i][2] # "none"
<1>1. DOMAIN tests = 1..10
  BY DEF RequestTests
<1>2. Named(1) /\ Named(2) /\ Named(3) /\ Named(4) /\ Named(5) /\ Named(6) /\ Named(7) /\ Named(8)
      /\ Named(9) /\ Named(10)
  BY DEF RequestTests
<1>3. \A i \in 1..10 : Named(i)
  <2> HIDE DEF Named, tests
  <2> QED BY <1>2
<1>4. \A i \in 1..10 : ~ tests[i][1]
  <2>1. FirstError(tests) = "none"
    OBVIOUS
  <2> HIDE DEF tests
  <2> QED BY <1>1, <1>3, <2>1, FirstErrorNone
<1>5. ~ tests[3][1] /\ ~ tests[5][1] /\ ~ tests[6][1] /\ ~ tests[7][1] /\ ~ tests[8][1]
      /\ ~ tests[9][1]
  <2> HIDE DEF tests
  <2> QED BY <1>4
<1> QED BY <1>5 DEF RequestTests

\* A grant that passes is about the manifest and what the host expects.
LEMMA GrantPasses ==
  ASSUME NEW g, NEW host, NEW view, FirstError(GrantTests(g, host, view)) = "none",
         "none" \notin {g.fields, g.method, g.terms}
  PROVE  /\ g.subject = host.subject /\ g.runtime = host.runtime /\ g.agent = host.agent
         /\ g.resource_server = ResourceServer(view) /\ view.audience = host.audience
         /\ g.location = ActionUrl(view) /\ g.action = view.action.id /\ g.scope = view.scope
         /\ g.binding.runtime = host.runtime /\ g.binding.agent = host.agent
         /\ g.binding.evidence = host.evidence /\ g.evidence = g.binding.evidence
         /\ g.data_exposure = Projection(view)
<1> DEFINE tests == GrantTests(g, host, view)
           Named(i) == tests[i][1] => tests[i][2] # "none"
<1>1. DOMAIN tests = 1..17
  BY DEF GrantTests
<1>2. Named(1) /\ Named(2) /\ Named(3) /\ Named(4) /\ Named(5) /\ Named(6) /\ Named(7) /\ Named(8)
      /\ Named(9) /\ Named(10) /\ Named(11) /\ Named(12) /\ Named(13) /\ Named(14) /\ Named(15) /\ Named(16)
      /\ Named(17)
  BY DEF GrantTests
<1>3. \A i \in 1..17 : Named(i)
  <2> HIDE DEF Named, tests
  <2> QED BY <1>2
<1>4. \A i \in 1..17 : ~ tests[i][1]
  <2>1. FirstError(tests) = "none"
    OBVIOUS
  <2> HIDE DEF tests
  <2> QED BY <1>1, <1>3, <2>1, FirstErrorNone
<1>5. ~ tests[3][1] /\ ~ tests[4][1] /\ ~ tests[5][1] /\ ~ tests[6][1] /\ ~ tests[7][1]
      /\ ~ tests[8][1] /\ ~ tests[9][1] /\ ~ tests[11][1] /\ ~ tests[14][1] /\ ~ tests[15][1]
      /\ ~ tests[17][1]
  <2> HIDE DEF tests
  <2> QED BY <1>4
<1> QED BY <1>5 DEF GrantTests

\* A composition that passes has a request and a grant that pass.
LEMMA CompositionPasses ==
  ASSUME NEW request, NEW grant, NEW manifest, NEW host, CompositionError(request, grant, manifest, host) = "none",
         "none" \notin {request.text.form, grant.text.form}
  PROVE  /\ RequestError(request.text, manifest, host) = "none"
         /\ GrantError(grant.text, manifest, host) = "none"
         /\ ~ LaterThan(grant.text.view.expires_at, request.text.expires_at)
<1> DEFINE tests == CompositionTests(request, grant, manifest, host)
           Named(i) == tests[i][1] => tests[i][2] # "none"
<1>1. DOMAIN tests = 1..6
  BY DEF CompositionTests, Snapshot
<1>2. Named(1) /\ Named(2) /\ Named(3) /\ Named(4) /\ Named(5) /\ Named(6)
  BY DEF CompositionTests, Snapshot
<1>3. \A i \in 1..6 : Named(i)
  <2> HIDE DEF Named, tests
  <2> QED BY <1>2
<1>4. \A i \in 1..6 : ~ tests[i][1]
  <2>1. FirstError(tests) = "none"
    BY DEF CompositionError
  <2> HIDE DEF tests
  <2> QED BY <1>1, <1>3, <2>1, FirstErrorNone
<1>5. ~ tests[4][1] /\ ~ tests[5][1] /\ ~ tests[6][1]
  <2> HIDE DEF tests
  <2> QED BY <1>4
<1> QED BY <1>5 DEF CompositionTests, Snapshot


-----------------------------------------------------------------------------
(***************************************************************************)
(* Manifests                                                               *)
(***************************************************************************)

\* As many paths as endpoints are pairwise distinct paths.
LEMMA DistinctPaths ==
  ASSUME NEW view, Cardinality(Paths(view)) = Cardinality(Endpoint)
  PROVE  \A e, f \in Endpoint : view.path[e] = view.path[f] => e = f
<1> SUFFICES ASSUME NEW e \in Endpoint, NEW f \in Endpoint, view.path[e] = view.path[f], e # f
             PROVE  FALSE
  OBVIOUS
<1> DEFINE Rest == Endpoint \ {e}
           P == [x \in Rest |-> view.path[x]]
<1>1. IsFiniteSet(Endpoint)
  <2>1. IsFiniteSet({"surface"})
    BY FS_Singleton
  <2>2. \A S, x : IsFiniteSet(S) => IsFiniteSet(S \cup {x})
    BY FS_AddElement
  <2>3. IsFiniteSet((((((({"surface"} \cup {"introspection"}) \cup {"revocation"}) \cup {"action"})
                      \cup {"session"}) \cup {"event"}) \cup {"management"}))
    BY <2>1, <2>2, Zenon
  <2>4. Endpoint = (((((({"surface"} \cup {"introspection"}) \cup {"revocation"}) \cup {"action"})
                      \cup {"session"}) \cup {"event"}) \cup {"management"})
    BY DEF Endpoint
  <2> QED BY <2>3, <2>4
<1>2. IsFiniteSet(Rest) /\ Cardinality(Rest) = Cardinality(Endpoint) - 1
  BY <1>1, FS_RemoveElement
<1>3. Paths(view) = {P[x] : x \in Rest}
  BY DEF Paths
<1>4. Cardinality(Paths(view)) <= Cardinality(Rest)
  <2>1. P \in Surjection(Rest, Paths(view))
    BY <1>3 DEF Surjection
  <2> QED BY <1>2, <2>1, FS_Surjection
<1>5. Cardinality(Endpoint) \in Nat
  BY <1>1, FS_CardinalityType
<1> QED BY <1>2, <1>4, <1>5

\* A manifest that passes, over a list whose view resolves its schemas, is sound.
LEMMA PassesSoundly ==
  ASSUME NEW made, NEW list, Admissible(list),
         "none" \notin {made.document.form, made.document.view.head,
                        made.document.view.body, made.document.view.exposure},
         ManifestError(made.document, made.entry) = "none",
         SchemasResolve(made.document.view, View(list))
  PROVE  /\ Sound(made, list)
         /\ RetainedManifest(made.document, View(list)) \in ManifestValues(<<made, list>>)
<1> DEFINE v == made.document.view
<1>1. /\ made.document.form = "object" /\ made.document.surface_hash = ManifestHash(v)
      /\ v.head = "ok" /\ v.entry = made.entry /\ v.body = "ok" /\ Deliverable(v)
      /\ Cardinality(Paths(v)) = Cardinality(Endpoint)
      /\ ~ (v.audience.origin = v.issuer /\ v.audience.path \in Paths(v))
      /\ v.action.scope = v.scope /\ v.exposure = "ok"
  BY ManifestPasses
<1>2. v.delivery # NoDelivery =>
        v.action.profiled /\ Len(v.delivery) = 1 /\ v.delivery[1] = v.action.id
  <2>1. \A x : Len(<<x>>) = 1 /\ <<x>>[1] = x
    OBVIOUS
  <2>2. v.delivery # NoDelivery => v.action.profiled /\ v.delivery = <<v.action.id>>
    BY <1>1 DEF Deliverable
  <2> HIDE DEF v
  <2> QED BY <2>1, <2>2
<1>3. \A e, f \in Endpoint : v.path[e] = v.path[f] => e = f
  BY <1>1, DistinctPaths
<1>4. v.audience.origin = v.issuer => \A e \in Endpoint : v.audience.path # v.path[e]
  BY <1>1 DEF Paths
<1>5. /\ \A uri \in References(v) : \E i \in DOMAIN list : list[i].uri = uri
      /\ View(list)[v.action.input_schema].hash = v.action.input_schema_hash
  <2>1. /\ References(v) \subseteq DOMAIN View(list)
        /\ View(list)[v.action.input_schema].hash = v.action.input_schema_hash
    BY DEF SchemasResolve
  <2>2. DOMAIN View(list) = {list[i].uri : i \in DOMAIN list}
    BY ViewMembers
  <2> HIDE DEF v
  <2> QED BY <2>1, <2>2
<1>6. Sound(made, list)
  BY <1>1, <1>2, <1>3, <1>4, <1>5 DEF Sound
<1> QED BY <1>6 DEF ManifestValues

\* What may be retained of a manifest is one value, of a sound one.
LEMMA ManifestValueIs ==
  ASSUME NEW made, NEW list, NEW x \in ManifestValues(<<made, list>>)
  PROVE  Sound(made, list) /\ x = RetainedManifest(made.document, View(list))
<1>1. <<made, list>>[1] = made /\ <<made, list>>[2] = list
  OBVIOUS
<1> QED BY <1>1, Zenon DEF ManifestValues

\* The shared set, whoever prepared it, is the whole view of the captured list.
LEMMA SharedSetWhole ==
  ASSUME Measured(captured), PreparedWhole
  PROVE  /\ PreparedResources.error = "none" =>
              Admissible(captured) /\ PreparedResources.staged = View(captured)
         /\ PreparedResources.error # "none" => prepared = NoSet /\ ~ Admissible(captured)
<1>1. CASE prepared # NoSet
  <2>1. PreparedResources.error = "none" /\ PreparedResources.staged = prepared
    BY <1>1 DEF PreparedResources, Empty
  <2>2. Admissible(captured) /\ prepared = View(captured)
    BY <1>1 DEF PreparedWhole, Views
  <2> QED BY <2>1, <2>2
<1>2. CASE prepared = NoSet
  BY <1>2, PreparationIsExact DEF PreparedResources
<1> QED BY <1>1, <1>2

\* What it keeps of that set.
LEMMA SharedSetKept ==
  ASSUME Measured(captured), PreparedWhole, RefusalsJustified, Retain(PreparedResources),
         captured' = captured
  PROVE  /\ PreparedWhole' /\ RefusalsJustified'
         /\ prepared = View(captured) /\ Admissible(captured) => prepared' = View(captured)
         /\ PreparedResources.error = "none" => prepared' = View(captured)
  BY SharedSetWhole DEF Retain, PreparedWhole, RefusalsJustified, Views

-----------------------------------------------------------------------------
(***************************************************************************)
(* The inductive invariant of the package: all of Inv, with what a request *)
(* stands for still to be derived from what passed.                        *)
(***************************************************************************)
RequestChecks == object.kind = "request" => object.checked \in {"not called", "none"}

IInv ==
  /\ TypeOK /\ PreparedWhole /\ RefusalsJustified /\ ManifestsWhole /\ JudgedByDeclared
  /\ ObjectsPassed /\ RequestChecks

\* A request only passes against a manifest that was prepared, and so does a grant.
LEMMA RequestErrorNone ==
  ASSUME NEW r, NEW manifest, NEW host, "none" \notin {r.form, r.fields, r.terms},
         RequestError(r, manifest, host) = "none"
  PROVE  LET view == retained[manifest].view IN
         /\ manifest # Forged /\ r.form = "object"
         /\ r.runtime = host.runtime /\ r.agent = host.agent /\ r.evidence = host.evidence
         /\ r.resource_server = ResourceServer(view) /\ r.location = ActionUrl(view)
         /\ r.action = view.action.id /\ r.scope = view.scope
<1>1. /\ manifest # Forged /\ r.form = "object"
      /\ FirstError(RequestTests(r, host, retained[manifest].view)) = "none"
  BY DEF RequestError, FormError
<1>2. \A view : FirstError(RequestTests(r, host, view)) = "none" =>
        /\ r.runtime = host.runtime /\ r.agent = host.agent /\ r.evidence = host.evidence
        /\ r.resource_server = ResourceServer(view) /\ r.location = ActionUrl(view)
        /\ r.action = view.action.id /\ r.scope = view.scope
  BY RequestPasses
<1> QED BY <1>1, <1>2

\* A grant only passes against a manifest that was prepared.
LEMMA GrantErrorNone ==
  ASSUME NEW grant, NEW manifest, NEW host,
         "none" \notin {grant.form, grant.view.fields, grant.view.method, grant.view.terms},
         GrantError(grant, manifest, host) = "none"
  PROVE  LET view == retained[manifest].view g == grant.view IN
         /\ manifest # Forged /\ grant.form = "object"
         /\ g.subject = host.subject /\ g.runtime = host.runtime /\ g.agent = host.agent
         /\ g.resource_server = ResourceServer(view) /\ view.audience = host.audience
         /\ g.location = ActionUrl(view) /\ g.action = view.action.id /\ g.scope = view.scope
         /\ g.binding.runtime = host.runtime /\ g.binding.agent = host.agent
         /\ g.binding.evidence = host.evidence /\ g.evidence = g.binding.evidence
         /\ g.data_exposure = Projection(view)
<1>1. /\ manifest # Forged /\ grant.form = "object"
      /\ FirstError(GrantTests(grant.view, host, retained[manifest].view)) = "none"
  BY DEF GrantError, FormError
<1> DEFINE g == grant.view
<1>2. "none" \notin {g.fields, g.method, g.terms}
  OBVIOUS
<1> HIDE DEF g
<1>3. \A view : FirstError(GrantTests(g, host, view)) = "none" =>
         /\ g.subject = host.subject /\ g.runtime = host.runtime /\ g.agent = host.agent
         /\ g.resource_server = ResourceServer(view) /\ view.audience = host.audience
         /\ g.location = ActionUrl(view) /\ g.action = view.action.id /\ g.scope = view.scope
         /\ g.binding.runtime = host.runtime /\ g.binding.agent = host.agent
         /\ g.binding.evidence = host.evidence /\ g.evidence = g.binding.evidence
         /\ g.data_exposure = Projection(view)
  BY <1>2, GrantPasses
<1> QED BY <1>1, <1>3 DEF g

\* The grammars of the documents in use.
LEMMA GrammarOf ==
  ASSUME TypeOK
  PROVE  /\ object.kind = "request" =>
              \A r \in object.document.parses :
                RequestGrammar(r) /\ "none" \notin {r.form, r.fields, r.terms}
         /\ object.kind = "grant" =>
              LET g == object.document.text IN
              GrantGrammar(g) /\ "none" \notin {g.form, g.view.fields, g.view.method, g.view.terms}
         /\ object.kind = "composition" =>
              LET r == object.request.text g == object.grant.text IN
              /\ RequestGrammar(r) /\ "none" \notin {r.form, r.fields, r.terms}
              /\ GrantGrammar(g) /\ "none" \notin {g.form, g.view.fields, g.view.method, g.view.terms}
<1>1. \A r : RequestGrammar(r) => "none" \notin {r.form, r.fields, r.terms}
  BY DEF RequestGrammar, Reserved
<1>2. \A g : GrantGrammar(g) => "none" \notin {g.form, g.view.fields, g.view.method, g.view.terms}
  BY DEF GrantGrammar, Reserved
<1>3. /\ object.kind = "request" => \A r \in object.document.parses : RequestGrammar(r)
      /\ object.kind = "grant" => GrantGrammar(object.document.text)
      /\ object.kind = "composition" =>
           RequestGrammar(object.request.text) /\ GrantGrammar(object.grant.text)
  BY OfflineAssumption DEF TypeOK
<1> QED BY <1>1, <1>2, <1>3

\* A prepared request is what passed against its manifest.
LEMMA InvHolds == IInv => Inv
<1> SUFFICES ASSUME IInv PROVE RequestStands
  BY DEF IInv, Inv
<1> SUFFICES ASSUME object.kind = "request", object.prepared # Nothing PROVE RequestStands
  BY DEF RequestStands, IInv, RequestChecks
<1>1. PICK r \in object.document.parses :
        /\ RequestError(r, object.manifest, object.host) = "none"
        /\ object.prepared = RetainedRequest(r, object)
  BY DEF IInv, ObjectsPassed
<1>2. "none" \notin {r.form, r.fields, r.terms}
  BY GrammarOf DEF IInv
<1>3. /\ object.manifest # Forged /\ r.evidence = object.host.evidence
      /\ r.resource_server = ResourceServer(retained[object.manifest].view)
  BY <1>1, <1>2, RequestErrorNone
<1>4. object.manifest \in Manifest /\ retained[object.manifest] # Nothing
  BY <1>3 DEF IInv, TypeOK, Usable
<1>5. retained[object.manifest].surfaceHash = ManifestHash(retained[object.manifest].view)
  <2>1. retained[object.manifest] \in ManifestValues(<<offered[object.manifest], captured>>)
    BY <1>4 DEF IInv, ManifestsWhole
  <2>2. retained[object.manifest]
          = RetainedManifest(offered[object.manifest].document, View(captured))
    BY <2>1, ManifestValueIs
  <2> QED BY <2>2 DEF RetainedManifest
<1>6. r.resource_server.surface_hash = ManifestHash(retained[object.manifest].view)
  BY <1>3 DEF ResourceServer
<1>7. object.prepared.hash.view = r
  BY <1>1 DEF RetainedRequest, RequestHash
<1> QED BY <1>3, <1>5, <1>6, <1>7 DEF RequestStands, IInv, RequestChecks

\* The inductive invariant holds initially.
LEMMA Initial == Init => IInv
<1> SUFFICES ASSUME Init PROVE IInv
  OBVIOUS
<1>1. Measured(captured)
  BY CaptureMeasured DEF Init, ResourcesInit
<1>2. TypeOK
  BY <1>1 DEF Init, TypeOK
<1>3. PreparedWhole /\ RefusalsJustified /\ ManifestsWhole /\ JudgedByDeclared
  BY DEF Init, ResourcesInit, PreparedWhole, RefusalsJustified, ManifestsWhole, JudgedByDeclared
<1>4. ObjectsPassed /\ RequestChecks
  BY DEF Init, ObjectsPassed, RequestChecks
<1> QED BY <1>2, <1>3, <1>4 DEF IInv

-----------------------------------------------------------------------------
(***************************************************************************)
(* The steps. A manifest is retained for good, so that what an object has  *)
(* passed stays passed; the resource set and the objects do not share any  *)
(* other variable.                                                         *)
(***************************************************************************)
Grows ==
  /\ retained' = [m \in Manifest |-> retained'[m]]
  /\ \A m \in Manifest : retained[m] # Nothing => retained'[m] = retained[m]

\* What is judged against a retained manifest is judged alike ever after.
LEMMA ErrorsStable ==
  ASSUME NEW manifest, manifest # Forged => retained'[manifest] = retained[manifest]
  PROVE  /\ \A r, host : RequestError(r, manifest, host)' = RequestError(r, manifest, host)
         /\ \A g, host : GrantError(g, manifest, host)' = GrantError(g, manifest, host)
         /\ \A request, grant, host :
              CompositionError(request, grant, manifest, host)'
                = CompositionError(request, grant, manifest, host)
<1>1. ASSUME NEW r, NEW host
      PROVE  RequestError(r, manifest, host)' = RequestError(r, manifest, host)
  BY DEF RequestError
<1>2. ASSUME NEW g, NEW host
      PROVE  GrantError(g, manifest, host)' = GrantError(g, manifest, host)
  BY DEF GrantError
<1>3. ASSUME NEW request, NEW grant, NEW host
      PROVE  CompositionError(request, grant, manifest, host)'
               = CompositionError(request, grant, manifest, host)
  BY <1>1, <1>2 DEF CompositionError, CompositionTests
<1> QED BY <1>1, <1>2, <1>3

\* Steps that leave the object in use alone.
LEMMA ObjectKept ==
  ASSUME TypeOK, ObjectsPassed, RequestChecks, Grows, Measured(captured)', object' = object,
         offered' \in Offers, expectations' \in Expected
  PROVE  TypeOK' /\ ObjectsPassed' /\ RequestChecks'
<1>1. TypeOK'
  BY DEF TypeOK, Usable, Grows
<1>2. object.kind # "none" /\ object.manifest # Forged =>
        retained'[object.manifest] = retained[object.manifest]
  BY DEF TypeOK, Usable, Grows
<1>3. ASSUME object.kind # "none"
      PROVE  /\ \A r, host : RequestError(r, object.manifest, host)' = RequestError(r, object.manifest, host)
             /\ \A g, host : GrantError(g, object.manifest, host)' = GrantError(g, object.manifest, host)
             /\ \A request, grant, host :
                  CompositionError(request, grant, object.manifest, host)'
                    = CompositionError(request, grant, object.manifest, host)
  BY <1>2, <1>3, ErrorsStable
<1>4. ASSUME object.kind = "request", object.prepared # Nothing
      PROVE  \E r \in object.document.parses :
               /\ RequestError(r, object.manifest, object.host)' = "none"
               /\ object.prepared = RetainedRequest(r, object)'
  <2>1. PICK r \in object.document.parses :
          /\ RequestError(r, object.manifest, object.host) = "none"
          /\ object.prepared = RetainedRequest(r, object)
    BY <1>4 DEF ObjectsPassed
  <2>2. object.manifest # Forged
    BY <1>4, <2>1, GrammarOf, RequestErrorNone
  <2>3. RequestError(r, object.manifest, object.host)' = "none"
    BY <1>3, <1>4, <2>1
  <2>4. RetainedRequest(r, object)' = RetainedRequest(r, object)
    BY <1>2, <1>4, <2>2 DEF RetainedRequest
  <2> QED BY <2>1, <2>3, <2>4
<1>5. ASSUME object.kind = "grant"
      PROVE  /\ object.prepared # Nothing =>
                  /\ GrantError(object.document.text, object.manifest, object.host)' = "none"
                  /\ object.prepared = RetainedGrant(object)'
             /\ \A m \in object.bound :
                  /\ m \in Manifest /\ retained'[m] # Nothing
                  /\ object.document.text.view.resource_server = ResourceServer(retained'[m].view)
  <2>1. ASSUME object.prepared # Nothing
        PROVE  /\ GrantError(object.document.text, object.manifest, object.host)' = "none"
               /\ object.prepared = RetainedGrant(object)'
    <3>1. /\ GrantError(object.document.text, object.manifest, object.host) = "none"
          /\ object.prepared = RetainedGrant(object)
      BY <1>5, <2>1 DEF ObjectsPassed
    <3>2. object.manifest # Forged
      BY <1>5, <3>1, GrammarOf, GrantErrorNone
    <3>3. GrantError(object.document.text, object.manifest, object.host)' = "none"
      BY <1>3, <1>5, <3>1
    <3>4. RetainedGrant(object)' = RetainedGrant(object)
      BY <1>2, <1>5, <3>2 DEF RetainedGrant
    <3> QED BY <3>1, <3>3, <3>4
  <2>2. \A m \in object.bound :
          /\ m \in Manifest /\ retained'[m] # Nothing
          /\ object.document.text.view.resource_server = ResourceServer(retained'[m].view)
    BY <1>5 DEF ObjectsPassed, Grows
  <2> QED BY <2>1, <2>2
<1>6. ASSUME object.kind = "composition"
      PROVE  object.outcome \in {"not called", CompositionError(object.request, object.grant,
                                                               object.manifest, object.host)'}
  <2>1. object.outcome \in {"not called", CompositionError(object.request, object.grant,
                                                           object.manifest, object.host)}
    BY <1>6 DEF ObjectsPassed
  <2>2. CompositionError(object.request, object.grant, object.manifest, object.host)'
          = CompositionError(object.request, object.grant, object.manifest, object.host)
    BY <1>3, <1>6
  <2> QED BY <2>1, <2>2
<1>7. ObjectsPassed'
  BY <1>4, <1>5, <1>6 DEF ObjectsPassed
<1> QED BY <1>1, <1>7 DEF RequestChecks

\* Steps of an object that leave manifests and resources alone.
LEMMA ManifestsKept ==
  ASSUME PreparedWhole, RefusalsJustified, ManifestsWhole, JudgedByDeclared,
         UNCHANGED <<resources, offered, retained>>
  PROVE  PreparedWhole' /\ RefusalsJustified' /\ ManifestsWhole' /\ JudgedByDeclared'
<1>1. UNCHANGED <<captured, prepared, refusal, validation, offered, retained>>
  BY DEF resources
<1> QED BY <1>1 DEF PreparedWhole, RefusalsJustified, ManifestsWhole, JudgedByDeclared, WorkBounded

\* The resource set prepares itself for another caller.
LEMMA PrepareStep ==
  ASSUME IInv, Prepare, UNCHANGED offline
  PROVE  IInv'
<1> USE DEF IInv
<1>1. /\ Measured(captured) /\ captured' = captured /\ offered' = offered /\ retained' = retained
      /\ object' = object /\ expectations' = expectations /\ validation' = validation
      /\ prepared = NoSet /\ Retain(Preparation(captured))
  BY DEF Prepare, offline, TypeOK
<1>2. PreparedWhole' /\ RefusalsJustified'
  BY <1>1, RetainsWhole
<1>3. TypeOK' /\ ObjectsPassed' /\ RequestChecks'
  <2>1. Grows
    BY <1>1 DEF TypeOK, Grows
  <2>2. Measured(captured)' /\ offered' \in Offers /\ expectations' \in Expected
    BY <1>1 DEF TypeOK
  <2> QED BY <1>1, <2>1, <2>2, ObjectKept
<1>4. ManifestsWhole'
  <2> SUFFICES ASSUME NEW m \in Manifest, retained[m] # Nothing
               PROVE  prepared' = View(captured)
    BY <1>1 DEF ManifestsWhole
  <2>1. Admissible(captured)
    <3>1. retained[m] \in ManifestValues(<<offered[m], captured>>)
      BY DEF ManifestsWhole
    <3> QED BY <3>1, ManifestValueIs DEF Sound
  <2>2. Preparation(captured).error = "none" /\ Preparation(captured).staged = View(captured)
    BY <1>1, <2>1, PreparationIsExact
  <2> QED BY <1>1, <2>2 DEF Retain
<1>5. JudgedByDeclared'
  BY <1>1 DEF JudgedByDeclared, WorkBounded
<1> QED BY <1>2, <1>3, <1>4, <1>5

\* What PrepareManifest retains is whole and sound, over a set that is.
LEMMA ManifestRetained ==
  ASSUME IInv, NEW m \in Manifest, PrepareManifest(m)
  PROVE  /\ Grows /\ PreparedWhole' /\ RefusalsJustified'
         /\ ManifestsWhole'
         /\ retained'[m] # retained[m] =>
              retained[m] = Nothing /\ retained'[m] \in ManifestValues(<<offered[m], captured>>)
         /\ \A n \in Manifest : n # m => retained'[n] = retained[n]
<1> USE DEF IInv
<1> DEFINE document == offered[m].document
           set == PreparedResources
           built == RetainedManifest(document, set.staged)
           good == set.error = "none" /\ SchemasResolve(document.view, set.staged)
<1>1. /\ Measured(captured) /\ captured' = captured /\ offered' = offered
      /\ retained = [n \in Manifest |-> retained[n]]
      /\ retained[m] = Nothing /\ ManifestError(document, offered[m].entry) = "none"
      /\ Retain(set)
      /\ retained' = IF good THEN [retained EXCEPT ![m] = built] ELSE retained
  BY DEF PrepareManifest, TypeOK
<1>2. /\ PreparedWhole' /\ RefusalsJustified'
      /\ prepared = View(captured) /\ Admissible(captured) => prepared' = View(captured)
      /\ set.error = "none" => prepared' = View(captured)
  BY <1>1, SharedSetKept
<1>3. good => Admissible(captured) /\ set.staged = View(captured)
  BY <1>1, SharedSetWhole
<1>4. "none" \notin {document.form, document.view.head, document.view.body, document.view.exposure}
  BY OfflineAssumption DEF TypeOK
<1>5. good => built \in ManifestValues(<<offered[m], captured>>)
  <2> SUFFICES ASSUME good PROVE built \in ManifestValues(<<offered[m], captured>>)
    OBVIOUS
  <2>1. set.staged = View(captured) /\ Admissible(captured)
    BY <1>3
  <2>2. SchemasResolve(document.view, View(captured))
    BY <2>1
  <2> QED BY <1>1, <1>4, <2>1, <2>2, PassesSoundly
<1> HIDE DEF document, set, built, good
<1>6. /\ Grows
      /\ \A n \in Manifest : n # m => retained'[n] = retained[n]
      /\ retained'[m] = IF good THEN built ELSE Nothing
  BY <1>1 DEF Grows
<1>7. good => prepared' = View(captured)
  BY <1>2 DEF good
<1>8. ManifestsWhole'
  <2> SUFFICES ASSUME NEW n \in Manifest, retained'[n] # Nothing
               PROVE  /\ prepared' = View(captured)
                      /\ retained'[n] \in ManifestValues(<<offered[n], captured>>)
    BY <1>1 DEF ManifestsWhole
  <2>1. CASE n = m
    BY <1>5, <1>6, <1>7, <2>1
  <2>2. CASE n # m
    <3>1. retained'[n] = retained[n] /\ retained[n] # Nothing
      BY <1>6, <2>2
    <3>2. prepared = View(captured) /\ retained[n] \in ManifestValues(<<offered[n], captured>>)
      BY <3>1 DEF ManifestsWhole
    <3>3. Admissible(captured)
      BY <3>2, ManifestValueIs DEF Sound
    <3> QED BY <1>2, <3>1, <3>2, <3>3
  <2> QED BY <2>1, <2>2
<1> QED BY <1>1, <1>2, <1>5, <1>6, <1>8

\* prepare() of a manifest keeps the invariant, whether it retains anything or not.
LEMMA PrepareManifestStep ==
  ASSUME IInv, NEW m \in Manifest, PrepareManifest(m)
  PROVE  IInv'
<1> USE DEF IInv
<1>1. Grows /\ PreparedWhole' /\ RefusalsJustified' /\ ManifestsWhole'
  BY ManifestRetained
<1>2. /\ captured' = captured /\ offered' = offered /\ object' = object
      /\ expectations' = expectations /\ validation' = validation
  BY DEF PrepareManifest
<1>3. Measured(captured)' /\ offered' \in Offers /\ expectations' \in Expected
  BY <1>2 DEF TypeOK
<1>4. TypeOK' /\ ObjectsPassed' /\ RequestChecks'
  BY <1>1, <1>2, <1>3, ObjectKept
<1>5. JudgedByDeclared'
  BY <1>2 DEF JudgedByDeclared, WorkBounded
<1> QED BY <1>1, <1>4, <1>5

\* A document is judged by the schema its manifest declares, within the bound.
LEMMA JudgeStep ==
  ASSUME IInv, NEW m \in Manifest, NEW direction \in {"input", "output"}, NEW id, NEW instance \in Instances,
         JudgeDocument(m, direction, id, instance)
  PROVE  IInv'
<1> USE DEF IInv
<1> DEFINE view == retained[m].view
           uri == IF direction = "input" THEN view.action.input_schema ELSE view.action.output_schema
           schema == SchemaFor(m, direction)
<1>1. /\ retained[m] # Nothing
      /\ \E code \in ValidationErrors(schema, instance) :
           validation' = [document |-> schema, instance |-> instance, error |-> code,
                          manifest |-> m, direction |-> direction]
      /\ captured' = captured /\ prepared' = prepared /\ refusal' = refusal
      /\ offered' = offered /\ retained' = retained /\ object' = object /\ expectations' = expectations
  BY DEF JudgeDocument, offline
<1>2. /\ Sound(offered[m], captured)
      /\ retained[m] = RetainedManifest(offered[m].document, View(captured))
  <2>1. retained[m] \in ManifestValues(<<offered[m], captured>>)
    BY <1>1 DEF ManifestsWhole
  <2> QED BY <2>1, ManifestValueIs
<1>3. /\ view = offered[m].document.view /\ uri \in References(view)
      /\ schema = View(captured)[uri]
  <2>1. /\ view = offered[m].document.view
        /\ retained[m].schema = [u \in References(view) |-> View(captured)[u]]
    BY <1>2 DEF RetainedManifest
  <2>2. uri \in References(view)
    BY DEF References
  <2>3. schema = retained[m].schema[uri]
    BY DEF SchemaFor
  <2> HIDE DEF view, uri, schema
  <2> QED BY <2>1, <2>2, <2>3
<1>4. /\ \A u \in References(view) : \E i \in DOMAIN captured : captured[i].uri = u
      /\ View(captured)[view.action.input_schema].hash = view.action.input_schema_hash
      /\ Admissible(captured) /\ Measured(captured)
  BY <1>2, <1>3 DEF Sound, TypeOK
<1>5. uri \in DOMAIN View(captured)
  <2> HIDE DEF uri, schema, view
  <2>1. \E i \in DOMAIN captured : captured[i].uri = uri
    BY <1>3, <1>4
  <2>2. DOMAIN View(captured) = {captured[i].uri : i \in DOMAIN captured}
    BY ViewMembers
  <2> QED BY <2>1, <2>2
<1>6. PICK i \in DOMAIN captured : captured[i].uri = uri /\ schema = captured[i].document
  <2> HIDE DEF uri, schema, view
  <2> QED BY <1>3, <1>5, ViewMembers
<1>7. schema.weight \in Nat \ {0}
  <2> HIDE DEF uri, schema, view
  <2> QED BY <1>3, <1>4, <1>5, PreparedWeigh
<1>8. direction = "input" => schema.hash = view.action.input_schema_hash
  <2>1. direction = "input" => uri = view.action.input_schema
    OBVIOUS
  <2> HIDE DEF uri, schema, view
  <2> QED BY <1>3, <1>4, <2>1
<1>9. PICK code \in ValidationErrors(schema, instance) :
        validation' = [document |-> schema, instance |-> instance, error |-> code,
                       manifest |-> m, direction |-> direction]
  BY <1>1
<1>10. Bounded(schema, instance, code)
  <2> HIDE DEF schema
  <2> QED BY <1>7, ValidationBounded
<1>11. JudgedByDeclared'
  <2>1. /\ validation'.document = schema /\ validation'.instance = instance
        /\ validation'.error = code /\ validation'.manifest = m /\ validation'.direction = direction
    BY <1>9
  <2>2. offered[m].document.view = view
    BY <1>3
  <2>3. uri = IF direction = "input" THEN view.action.input_schema ELSE view.action.output_schema
    OBVIOUS
  <2> HIDE DEF schema, uri, view
  <2>4. WorkBounded'
    BY <1>10, <2>1 DEF WorkBounded, Bounded
  <2> QED BY <1>1, <1>6, <1>8, <2>1, <2>2, <2>3, <2>4 DEF JudgedByDeclared
<1>12. TypeOK' /\ ObjectsPassed' /\ RequestChecks'
  <2>1. Grows
    BY <1>1 DEF TypeOK, Grows
  <2>2. Measured(captured)' /\ offered' \in Offers /\ expectations' \in Expected
    BY <1>1 DEF TypeOK
  <2> QED BY <1>1, <2>1, <2>2, ObjectKept
<1>13. PreparedWhole' /\ RefusalsJustified' /\ ManifestsWhole'
  BY <1>1 DEF PreparedWhole, RefusalsJustified, ManifestsWhole
<1> QED BY <1>11, <1>12, <1>13

\* An object is made for a manifest that can be used, and holds nothing yet.
LEMMA ConstructStep ==
  ASSUME IInv, Construct
  PROVE  IInv'
<1> USE DEF IInv
<1>1. UNCHANGED <<resources, offered, retained, expectations>> /\ captured' = captured
  BY DEF Construct, resources
<1>2. PreparedWhole' /\ RefusalsJustified' /\ ManifestsWhole' /\ JudgedByDeclared'
  BY <1>1, ManifestsKept
<1>3. PICK manifest \in Handles :
        \/ \E document \in RequestDocuments : NewRequest(document, manifest)
        \/ \E document \in GrantDocuments : NewGrant(document, manifest)
        \/ \E pair \in Pairs : NewComposition(pair[1], pair[2], manifest)
  BY DEF Construct
<1>4. Usable(manifest) /\ expectations \in Expected
  BY DEF Handles, Usable, TypeOK
<1>5. ASSUME NEW document \in RequestDocuments, NewRequest(document, manifest)
      PROVE  TypeOK' /\ ObjectsPassed' /\ RequestChecks'
  <2>1. object' = [kind |-> "request", document |-> document, manifest |-> manifest,
                   host |-> expectations, prepared |-> Nothing, checked |-> "not called"]
    BY <1>5 DEF NewRequest
  <2>2. TypeOK'
    BY <1>1, <1>4, <2>1 DEF TypeOK, Usable
  <2> QED BY <2>1, <2>2 DEF ObjectsPassed, RequestChecks
<1>6. ASSUME NEW document \in GrantDocuments, NewGrant(document, manifest)
      PROVE  TypeOK' /\ ObjectsPassed' /\ RequestChecks'
  <2>1. object' = [kind |-> "grant", document |-> document, manifest |-> manifest,
                   host |-> expectations, prepared |-> Nothing, bound |-> {}]
    BY <1>6 DEF NewGrant
  <2>2. TypeOK'
    BY <1>1, <1>4, <2>1 DEF TypeOK, Usable
  <2> QED BY <2>1, <2>2 DEF ObjectsPassed, RequestChecks
<1>7. ASSUME NEW pair \in Pairs, NewComposition(pair[1], pair[2], manifest)
      PROVE  TypeOK' /\ ObjectsPassed' /\ RequestChecks'
  <2>1. object' = [kind |-> "composition", request |-> pair[1], grant |-> pair[2],
                   manifest |-> manifest, host |-> expectations, outcome |-> "not called"]
    BY <1>7 DEF NewComposition
  <2>2. TypeOK'
    BY <1>1, <1>4, <2>1 DEF TypeOK, Usable
  <2> QED BY <2>1, <2>2 DEF ObjectsPassed, RequestChecks
<1> QED BY <1>2, <1>3, <1>5, <1>6, <1>7

\* prepare() of a request retains what passed.
LEMMA PrepareRequestStep ==
  ASSUME IInv, PrepareRequest
  PROVE  IInv'
<1> USE DEF IInv
<1>1. UNCHANGED <<resources, offered, retained, expectations>> /\ captured' = captured
  BY DEF PrepareRequest, resources
<1>2. PreparedWhole' /\ RefusalsJustified' /\ ManifestsWhole' /\ JudgedByDeclared'
  BY <1>1, ManifestsKept
<1>3. PICK r \in object.document.parses :
        /\ RequestError(r, object.manifest, object.host) = "none"
        /\ object' = [object EXCEPT !.prepared = RetainedRequest(r, object)]
  BY DEF PrepareRequest
<1>4. object' = [kind |-> "request", document |-> object.document, manifest |-> object.manifest,
                 host |-> object.host, prepared |-> RetainedRequest(r, object),
                 checked |-> object.checked]
  BY <1>3 DEF PrepareRequest, TypeOK
<1>5. TypeOK'
  BY <1>1, <1>4 DEF TypeOK, Usable, PrepareRequest
<1>6. RetainedRequest(r, object)' = RetainedRequest(r, object)
  BY <1>1, <1>4 DEF RetainedRequest
<1>7. RequestError(r, object.manifest, object.host)' = "none"
  BY <1>1, <1>3, <1>4, ErrorsStable
<1>8. ObjectsPassed'
  <2>1. /\ object'.kind = "request" /\ object'.document = object.document
        /\ object'.prepared = RetainedRequest(r, object)'
    BY <1>4, <1>6
  <2>2. \E q \in object'.document.parses :
          /\ RequestError(q, object.manifest, object.host)' = "none"
          /\ object'.prepared = RetainedRequest(q, object)'
    BY <1>7, <2>1
  <2> QED BY <2>1, <2>2 DEF ObjectsPassed
<1>9. RequestChecks'
  BY <1>4 DEF RequestChecks, PrepareRequest
<1> QED BY <1>2, <1>5, <1>8, <1>9

\* The retained document parses to what was hashed, so that validate() passes.
LEMMA CheckRequestStep ==
  ASSUME IInv, CheckRequest
  PROVE  IInv'
<1> USE DEF IInv
<1>1. UNCHANGED <<resources, offered, retained, expectations>> /\ captured' = captured
  BY DEF CheckRequest, resources
<1>2. PreparedWhole' /\ RefusalsJustified' /\ ManifestsWhole' /\ JudgedByDeclared'
  BY <1>1, ManifestsKept
<1>3. PICK q \in object.prepared.document.parses :
        object' = [object EXCEPT !.checked = IF RequestHash(q) = object.prepared.hash THEN "none"
                                             ELSE "grant_request_hash_mismatch"]
  BY DEF CheckRequest
<1>4. PICK r \in object.document.parses :
        /\ RequestError(r, object.manifest, object.host) = "none"
        /\ object.prepared = RetainedRequest(r, object)
  BY DEF CheckRequest, ObjectsPassed
<1>5. q = r /\ object.prepared.hash = RequestHash(r)
  BY <1>3, <1>4 DEF RetainedRequest
<1>6. object' = [kind |-> "request", document |-> object.document, manifest |-> object.manifest,
                 host |-> object.host, prepared |-> object.prepared, checked |-> "none"]
  BY <1>3, <1>5 DEF CheckRequest, TypeOK
<1>7. TypeOK'
  BY <1>1, <1>6 DEF TypeOK, Usable, CheckRequest
<1>8. ObjectsPassed'
  <2>1. RetainedRequest(r, object)' = RetainedRequest(r, object)
    BY <1>1, <1>6 DEF RetainedRequest
  <2>2. RequestError(r, object.manifest, object.host)' = "none"
    BY <1>1, <1>4, <1>6, ErrorsStable
  <2>3. \E p \in object'.document.parses :
          /\ RequestError(p, object.manifest, object.host)' = "none"
          /\ object'.prepared = RetainedRequest(p, object)'
    BY <1>4, <1>6, <2>1, <2>2
  <2>4. object'.kind = "request"
    BY <1>6
  <2> QED BY <2>3, <2>4 DEF ObjectsPassed
<1>9. RequestChecks'
  BY <1>6 DEF RequestChecks
<1> QED BY <1>2, <1>7, <1>8, <1>9

\* prepare() of a grant retains what passed.
LEMMA PrepareGrantStep ==
  ASSUME IInv, PrepareGrant
  PROVE  IInv'
<1> USE DEF IInv
<1>1. UNCHANGED <<resources, offered, retained, expectations>> /\ captured' = captured
  BY DEF PrepareGrant, resources
<1>2. PreparedWhole' /\ RefusalsJustified' /\ ManifestsWhole' /\ JudgedByDeclared'
  BY <1>1, ManifestsKept
<1>3. /\ GrantError(object.document.text, object.manifest, object.host) = "none"
      /\ object' = [kind |-> "grant", document |-> object.document, manifest |-> object.manifest,
                    host |-> object.host, prepared |-> RetainedGrant(object), bound |-> object.bound]
      /\ object.bound = {}
  BY DEF PrepareGrant, TypeOK, ObjectsPassed
<1>4. TypeOK'
  BY <1>1, <1>3 DEF TypeOK, Usable, PrepareGrant
<1>5. RetainedGrant(object)' = RetainedGrant(object)
  BY <1>1, <1>3 DEF RetainedGrant
<1>6. GrantError(object.document.text, object.manifest, object.host)' = "none"
  BY <1>1, <1>3, ErrorsStable
<1>7. /\ object'.kind = "grant" /\ object'.prepared = RetainedGrant(object)' /\ object'.bound = {}
  BY <1>3, <1>5
<1>8. ObjectsPassed' /\ RequestChecks'
  BY <1>6, <1>7 DEF ObjectsPassed, RequestChecks
<1> QED BY <1>2, <1>4, <1>8

\* validateFor adds a manifest of the same resource server.
LEMMA ValidateForStep ==
  ASSUME IInv, NEW m \in Manifest, ValidateFor(m)
  PROVE  IInv'
<1> USE DEF IInv
<1>1. UNCHANGED <<resources, offered, retained, expectations>> /\ captured' = captured
  BY DEF ValidateFor, resources
<1>2. PreparedWhole' /\ RefusalsJustified' /\ ManifestsWhole' /\ JudgedByDeclared'
  BY <1>1, ManifestsKept
<1>3. /\ object.kind = "grant" /\ object.prepared # Nothing /\ retained[m] # Nothing
      /\ GrantError(object.document.text, object.manifest, object.host) = "none"
      /\ object.prepared = RetainedGrant(object)
      /\ object.prepared.document.text.view.resource_server = ResourceServer(retained[m].view)
      /\ object' = [kind |-> "grant", document |-> object.document, manifest |-> object.manifest,
                    host |-> object.host, prepared |-> object.prepared, bound |-> object.bound \cup {m}]
  BY DEF ValidateFor, TypeOK, ObjectsPassed, Handles
<1>4. TypeOK'
  BY <1>1, <1>3 DEF TypeOK, Usable
<1>5. RetainedGrant(object)' = RetainedGrant(object)
  BY <1>1, <1>3 DEF RetainedGrant
<1>6. GrantError(object.document.text, object.manifest, object.host)' = "none"
  BY <1>1, <1>3, ErrorsStable
<1>7. object.document.text.view.resource_server = ResourceServer(retained[m].view)
  BY <1>3 DEF RetainedGrant
<1>8. /\ object'.kind = "grant" /\ object'.prepared = RetainedGrant(object)'
      /\ object'.prepared # Nothing
      /\ object'.document = object.document /\ object'.bound = object.bound \cup {m}
  BY <1>3, <1>5
<1>9. \A n \in object'.bound :
        /\ n \in Manifest /\ retained'[n] # Nothing
        /\ object'.document.text.view.resource_server = ResourceServer(retained'[n].view)
  BY <1>1, <1>3, <1>7, <1>8 DEF ObjectsPassed
<1>10. ObjectsPassed' /\ RequestChecks'
  BY <1>6, <1>8, <1>9 DEF ObjectsPassed, RequestChecks
<1> QED BY <1>2, <1>4, <1>10

\* validate() of a composition answers by what it captured.
LEMMA ComposeStep ==
  ASSUME IInv, Compose
  PROVE  IInv'
<1> USE DEF IInv
<1>1. UNCHANGED <<resources, offered, retained, expectations>> /\ captured' = captured
  BY DEF Compose, resources
<1>2. PreparedWhole' /\ RefusalsJustified' /\ ManifestsWhole' /\ JudgedByDeclared'
  BY <1>1, ManifestsKept
<1> DEFINE code == CompositionError(object.request, object.grant, object.manifest, object.host)
<1>3. object' = [kind |-> "composition", request |-> object.request, grant |-> object.grant,
                 manifest |-> object.manifest, host |-> object.host, outcome |-> code]
  BY DEF Compose, TypeOK
<1>4. TypeOK'
  <2> HIDE DEF code
  <2> QED BY <1>1, <1>3 DEF TypeOK, Usable, Compose
<1>5. CompositionError(object.request, object.grant, object.manifest, object.host)' = code
  BY <1>1, <1>3, ErrorsStable
<1>6. object'.kind = "composition" /\ object'.outcome = code
  BY <1>3
<1>7. ObjectsPassed' /\ RequestChecks'
  <2> HIDE DEF code
  <2> QED BY <1>5, <1>6 DEF ObjectsPassed, RequestChecks
<1> QED BY <1>2, <1>4, <1>7

\* What the host expects next disturbs no object that was made.
LEMMA StutterStep ==
  ASSUME IInv, ChangeExpectations \/ UNCHANGED vars
  PROVE  IInv'
<1> USE DEF IInv
<1>1. /\ UNCHANGED <<resources, offered, retained>> /\ captured' = captured /\ object' = object
      /\ offered' \in Offers /\ expectations' \in Expected
  BY DEF ChangeExpectations, vars, offline, resources, TypeOK
<1>2. PreparedWhole' /\ RefusalsJustified' /\ ManifestsWhole' /\ JudgedByDeclared'
  BY <1>1, ManifestsKept
<1>3. Grows /\ Measured(captured)'
  BY <1>1 DEF TypeOK, Grows
<1> QED BY <1>1, <1>2, <1>3, ObjectKept

\* Every step keeps the inductive invariant.
LEMMA Inductive == IInv /\ [Next]_vars => IInv'
  BY PrepareStep, PrepareManifestStep, ValidateForStep, JudgeStep, ConstructStep, PrepareRequestStep,
     CheckRequestStep, PrepareGrantStep, ComposeStep, StutterStep DEF Next

\* For any manifests, documents, expectations and schemas: manifests are retained
\* whole and sound, documents are judged by the schemas they declare within the
\* work bound, and prepared requests stand.
THEOREM Invariant == Spec => []Inv
<1>1. Spec => []IInv
  BY Initial, Inductive, PTL DEF Spec
<1> QED BY <1>1, InvHolds, PTL

-----------------------------------------------------------------------------
(***************************************************************************)
(* Agreements                                                              *)
(***************************************************************************)

\* Four members settle the surface: one of them is its hash.
LEMMA ServerSettlesView ==
  ASSUME NEW v, NEW w, ResourceServer(v) = ResourceServer(w)
  PROVE  v = w
<1>1. ResourceServer(v).surface_hash = ManifestHash(v) /\ ResourceServer(w).surface_hash = ManifestHash(w)
  BY DEF ResourceServer
<1>2. ManifestHash(v).view = v /\ ManifestHash(w).view = w
  BY DEF ManifestHash
<1> QED BY <1>1, <1>2

\* A bound grant and its manifests agree, since the hash settles the surface.
LEMMA BoundToSurface == IInv => GrantBindsSurface
<1> SUFFICES ASSUME IInv, object.kind = "grant", NEW m \in object.bound
             PROVE  /\ retained[m].view = retained[object.manifest].view
                    /\ object.prepared.exposure = Projection(retained[m].view)
  BY DEF GrantBindsSurface
<1> USE DEF IInv
<1>1. /\ GrantError(object.document.text, object.manifest, object.host) = "none"
      /\ object.prepared = RetainedGrant(object)
      /\ object.document.text.view.resource_server = ResourceServer(retained[m].view)
  BY DEF ObjectsPassed
<1>2. object.document.text.view.resource_server = ResourceServer(retained[object.manifest].view)
  BY <1>1, GrammarOf, GrantErrorNone
<1>3. retained[m].view = retained[object.manifest].view
  BY <1>1, <1>2, ServerSettlesView
<1> QED BY <1>1, <1>3 DEF RetainedGrant

\* Both documents equal what the manifest and the host say, and so each other.
LEMMA ComposedAgreement == IInv => ComposedAgree
<1> SUFFICES ASSUME IInv, object.kind = "composition", object.outcome = "none" PROVE ComposedAgree
  BY DEF ComposedAgree
<1> USE DEF IInv
<1> DEFINE r == object.request.text
           grant == object.grant.text
           g == grant.view
           v == retained[object.manifest].view
           host == object.host
<1>1. CompositionError(object.request, object.grant, object.manifest, object.host) = "none"
  BY DEF ObjectsPassed
<1>2. /\ "none" \notin {r.form, r.fields, r.terms}
      /\ "none" \notin {grant.form, grant.view.fields, grant.view.method, grant.view.terms}
  BY GrammarOf
<1>3. /\ RequestError(r, object.manifest, host) = "none"
      /\ GrantError(grant, object.manifest, host) = "none"
  BY <1>1, <1>2, CompositionPasses
<1>4. /\ r.runtime = host.runtime /\ r.agent = host.agent /\ r.evidence = host.evidence
      /\ r.resource_server = ResourceServer(v) /\ r.location = ActionUrl(v)
      /\ r.action = v.action.id /\ r.scope = v.scope
  BY <1>2, <1>3, RequestErrorNone
<1>5. /\ g.subject = host.subject /\ g.runtime = host.runtime /\ g.agent = host.agent
      /\ g.resource_server = ResourceServer(v) /\ v.audience = host.audience
      /\ g.location = ActionUrl(v) /\ g.action = v.action.id /\ g.scope = v.scope
      /\ g.binding.runtime = host.runtime /\ g.binding.agent = host.agent
      /\ g.binding.evidence = host.evidence /\ g.evidence = g.binding.evidence
      /\ g.data_exposure = Projection(v)
  BY <1>2, <1>3, GrantErrorNone
<1>6. host = [subject |-> host.subject, runtime |-> host.runtime, agent |-> host.agent,
              evidence |-> host.evidence, audience |-> host.audience]
  BY OfflineAssumption DEF TypeOK
<1>7. g.resource_server.surface_hash = ManifestHash(v)
  BY <1>5 DEF ResourceServer
<1> HIDE DEF r, g, v, host
<1>8. \A field \in {"runtime", "agent", "evidence", "resource_server", "location", "action", "scope"} :
        r[field] = g[field]
  BY <1>4, <1>5
<1>9. host = [subject |-> g.subject, runtime |-> g.binding.runtime, agent |-> g.binding.agent,
              evidence |-> g.binding.evidence, audience |-> v.audience]
  BY <1>5, <1>6
<1> QED BY <1>5, <1>7, <1>8, <1>9 DEF ComposedAgree, r, g, v, host

\* A grant that is bound to several manifests leaves nothing of their surfaces
\* open, and a composition that passes is one agreement in every member, for any
\* documents and whatever the host expects later.
THEOREM AgreementsHold == Spec => []AgreementsBind
<1>1. IInv => AgreementsBind
  BY BoundToSurface, ComposedAgreement DEF AgreementsBind
<1>2. Spec => []IInv
  BY Initial, Inductive, PTL DEF Spec
<1> QED BY <1>1, <1>2, PTL

\* Every manifest implements the abstract PrepareOnce over the resource set it
\* shares: it is retained as a whole, sound, once and for good.
THEOREM ManifestsPrepared == Spec => ManifestsPrepareOnce
<1> DEFINE Step == \A m \in Manifest : MP(m)!POPrepare \/ retained'[m] = retained[m]
<1>1. IInv /\ [Next]_vars => [Step]_vars
  <2> SUFFICES ASSUME IInv, Next, NEW m \in Manifest, retained'[m] # retained[m]
               PROVE  MP(m)!POPrepare
    BY DEF vars, offline
  <2> USE DEF IInv
  <2>1. PICK n \in Manifest : PrepareManifest(n)
    BY DEF Next, Prepare, offline, ValidateFor, JudgeDocument, Construct, PrepareRequest, CheckRequest,
           PrepareGrant, Compose, ChangeExpectations
  <2>2. /\ n = m /\ retained[m] = Nothing /\ retained'[m] \in ManifestValues(<<offered[m], captured>>)
        /\ captured' = captured /\ offered' = offered
    BY <2>1, ManifestRetained DEF PrepareManifest
  <2> QED BY <2>2 DEF MP!POPrepare
<1>2. Spec => []IInv
  BY Initial, Inductive, PTL DEF Spec
<1> QED BY <1>1, <1>2, PTL DEF Spec, ManifestsPrepareOnce

-----------------------------------------------------------------------------
(***************************************************************************)
(* Expiries. Comparing whole seconds, and then fractions as texts of one   *)
(* width, is comparing instants.                                           *)
(***************************************************************************)

\* The digits of an instant are read one after the other.
LEMMA ScaledStep ==
  ASSUME NEW t
  PROVE  /\ Scaled(t)[0] = Whole(t)
         /\ \A i \in 1..FractionDigits : Scaled(t)[i] = 10 * Scaled(t)[i-1] + Digit(t, i)
<1> DEFINE n == FractionDigits
           Rec(g, k) == g = [i \in 0..k |-> IF i = 0 THEN Whole(t) ELSE 10 * g[i-1] + Digit(t, i)]
           T == {k \in Nat : \E g : Rec(g, k)}
<1>0. n \in Nat
  BY OfflineAssumption
<1>1. 0 \in T
  <2>1. Rec([i \in 0..0 |-> Whole(t)], 0)
    OBVIOUS
  <2> QED BY <2>1
<1>2. ASSUME NEW k \in Nat, NEW g, Rec(g, k) PROVE \E h : Rec(h, k+1)
  <2> DEFINE h == [i \in 0..(k+1) |-> IF i = k+1 THEN 10 * g[k] + Digit(t, i) ELSE g[i]]
  <2>1. ASSUME NEW i \in 0..k PROVE g[i] = IF i = 0 THEN Whole(t) ELSE 10 * g[i-1] + Digit(t, i)
    BY <1>2
  <2>2. ASSUME NEW i \in 0..(k+1) PROVE h[i] = IF i = 0 THEN Whole(t) ELSE 10 * h[i-1] + Digit(t, i)
    <3>1. CASE i = k+1
      BY <3>1
    <3>2. CASE i # k+1
      <4>1. i \in 0..k /\ (i # 0 => i-1 \in 0..(k+1) /\ i-1 # k+1)
        BY <3>2
      <4> QED BY <2>1, <4>1, <3>2
    <3> QED BY <3>1, <3>2
  <2>3. h = [i \in 0..(k+1) |-> IF i = 0 THEN Whole(t) ELSE 10 * h[i-1] + Digit(t, i)]
    BY <2>2
  <2> QED BY <2>3
<1>3. n \in T
  <2>1. \A k \in T : k+1 \in T
    BY <1>2
  <2> HIDE DEF T
  <2> QED BY <1>0, <1>1, <2>1, Induction DEF T
<1>4. \E g : Rec(g, n)
  BY <1>3
<1>5. Scaled(t) = [i \in 0..n |-> IF i = 0 THEN Whole(t) ELSE 10 * Scaled(t)[i-1] + Digit(t, i)]
  BY <1>4 DEF Scaled
<1> HIDE DEF n
<1> QED BY <1>0, <1>5 DEF n

\* A digit is one, within the fraction and beyond it.
LEMMA DigitsInRange ==
  ASSUME NEW t, Timestamp(t), NEW i
  PROVE  Digit(t, i) \in 0..9
  BY DEF Timestamp, Digit

\* Instants are integers, however many digits are read.
LEMMA ScaledIntegers ==
  ASSUME NEW t, Timestamp(t)
  PROVE  \A k \in 0..FractionDigits : Scaled(t)[k] \in Int
<1> DEFINE T == {k \in Nat : k <= FractionDigits => Scaled(t)[k] \in Int}
<1>1. FractionDigits \in Nat
  BY OfflineAssumption
<1>2. 0 \in T
  BY ScaledStep DEF Timestamp, Whole
<1>3. ASSUME NEW k \in T PROVE k+1 \in T
  <2>1. Digit(t, k+1) \in Int
    BY DigitsInRange
  <2>2. k+1 <= FractionDigits => Scaled(t)[k+1] = 10 * Scaled(t)[k] + Digit(t, k+1)
    <3>1. (k+1)-1 = k /\ (k+1 <= FractionDigits => k+1 \in 1..FractionDigits)
      BY <1>1
    <3> QED BY <3>1, ScaledStep
  <2> QED BY <1>1, <2>1, <2>2
<1>4. T = Nat
  <2> HIDE DEF T
  <2> QED BY <1>2, <1>3, Induction DEF T
<1> QED BY <1>1, <1>4

\* Whoever is ahead after some digits stays ahead.
LEMMA AheadStays ==
  ASSUME NEW a, NEW b, Timestamp(a), Timestamp(b),
         NEW k \in 0..FractionDigits, Scaled(a)[k] > Scaled(b)[k]
  PROVE  Instant(a) > Instant(b)
<1> DEFINE A(i) == Scaled(a)[i]
           B(i) == Scaled(b)[i]
           T == {n \in Nat : k+n <= FractionDigits => A(k+n) > B(k+n)}
<1>1. FractionDigits \in Nat
  BY OfflineAssumption
<1>2. 0 \in T
  OBVIOUS
<1>3. ASSUME NEW n \in T PROVE n+1 \in T
  <2> SUFFICES ASSUME k+(n+1) <= FractionDigits PROVE A(k+(n+1)) > B(k+(n+1))
    OBVIOUS
  <2> DEFINE i == k+(n+1)
  <2>1. i \in 1..FractionDigits /\ i-1 = k+n /\ k+n \in 0..FractionDigits
    BY <1>1
  <2>2. A(i) = 10 * A(i-1) + Digit(a, i) /\ B(i) = 10 * B(i-1) + Digit(b, i)
    BY <2>1, ScaledStep
  <2>3. Digit(a, i) \in 0..9 /\ Digit(b, i) \in 0..9
    BY DigitsInRange
  <2>4. A(i-1) \in Int /\ B(i-1) \in Int /\ A(i-1) > B(i-1)
    BY <1>1, <2>1, ScaledIntegers
  <2> HIDE DEF A, B, i
  <2>5. A(i) > B(i)
    BY <2>2, <2>3, <2>4
  <2> QED BY <2>5 DEF i
<1>4. T = Nat
  <2> HIDE DEF T
  <2> QED BY <1>2, <1>3, Induction DEF T
<1>5. FractionDigits - k \in Nat /\ k + (FractionDigits - k) = FractionDigits
  BY <1>1
<1>6. A(FractionDigits) > B(FractionDigits)
  <2>1. FractionDigits - k \in T
    BY <1>4, <1>5
  <2> QED BY <1>1, <1>5, <2>1
<1> QED BY <1>6 DEF Instant

\* Equal seconds and equal digits so far are equal instants so far.
LEMMA EqualSoFar ==
  ASSUME NEW a, NEW b, Whole(a) = Whole(b), NEW n \in 0..FractionDigits,
         \A j \in 1..n : Digit(a, j) = Digit(b, j)
  PROVE  Scaled(a)[n] = Scaled(b)[n]
<1> DEFINE T == {k \in Nat : k <= n => Scaled(a)[k] = Scaled(b)[k]}
<1>1. FractionDigits \in Nat
  BY OfflineAssumption
<1>2. 0 \in T
  BY ScaledStep
<1>3. ASSUME NEW k \in T PROVE k+1 \in T
  <2> SUFFICES ASSUME k+1 <= n PROVE Scaled(a)[k+1] = Scaled(b)[k+1]
    OBVIOUS
  <2>1. k+1 \in 1..FractionDigits /\ (k+1)-1 = k /\ k+1 \in 1..n /\ k <= n
    BY <1>1
  <2>2. /\ Scaled(a)[k+1] = 10 * Scaled(a)[k] + Digit(a, k+1)
        /\ Scaled(b)[k+1] = 10 * Scaled(b)[k] + Digit(b, k+1)
    BY <2>1, ScaledStep
  <2>3. Digit(a, k+1) = Digit(b, k+1) /\ Scaled(a)[k] = Scaled(b)[k]
    BY <2>1
  <2> QED BY <2>2, <2>3
<1>4. T = Nat
  <2> HIDE DEF T
  <2> QED BY <1>2, <1>3, Induction DEF T
<1> QED BY <1>1, <1>4

\* A padded fraction is a text of its digits.
LEMMA PaddedDigits ==
  ASSUME NEW t, Timestamp(t), NEW w \in Nat, Len(t.fraction) <= w
  PROVE  /\ DOMAIN PadEnd(t.fraction, w) = 1..w
         /\ \A i \in 1..w : PadEnd(t.fraction, w)[i] = Digit(t, i)
<1> DEFINE s == t.fraction
           z == [i \in 1..(w - Len(s)) |-> 0]
<1>1. s \in Seq(0..9) /\ Len(s) \in Nat /\ DOMAIN s = 1..Len(s)
  BY DEF Timestamp
<1>2. w - Len(s) \in Nat
  BY <1>1
<1>3. z \in Seq(0..9) /\ Len(z) = w - Len(s)
  <2>1. z \in Seq(0..9)
    BY <1>2
  <2> QED BY <1>2, <2>1
<1>4. \A i \in 1..(w - Len(s)) : z[i] = 0
  OBVIOUS
<1> HIDE DEF s, z
<1>5. /\ s \o z \in Seq(0..9) /\ Len(s \o z) = Len(s) + Len(z)
      /\ \A i \in 1..(Len(s) + Len(z)) : (s \o z)[i] = IF i <= Len(s) THEN s[i] ELSE z[i - Len(s)]
  BY <1>1, <1>3, ConcatProperties
<1>6. Len(s) + Len(z) = w
  BY <1>1, <1>3
<1>7. DOMAIN (s \o z) = 1..w
  BY <1>5, <1>6
<1>8. ASSUME NEW i \in 1..w PROVE (s \o z)[i] = Digit(t, i)
  <2>1. CASE i <= Len(s)
    BY <1>1, <1>5, <1>6, <2>1 DEF Digit, s
  <2>2. CASE ~ (i <= Len(s))
    <3>1. i \notin DOMAIN s /\ i - Len(s) \in 1..(w - Len(s))
      BY <1>1, <2>2
    <3>2. Digit(t, i) = 0
      BY <3>1 DEF Digit, s
    <3> QED BY <1>4, <1>5, <1>6, <2>2, <3>1, <3>2
  <2> QED BY <2>1, <2>2
<1>9. PadEnd(t.fraction, w) = s \o z
  BY DEF PadEnd, s, z
<1> QED BY <1>7, <1>8, <1>9

\* The comparison of the package is the order of instants, in any zones and
\* whatever the widths of the fractions.
LEMMA LaterIsAfter ==
  ASSUME NEW a, NEW b, Timestamp(a), Timestamp(b)
  PROVE  /\ LaterThan(a, b) => Instant(a) > Instant(b)
         /\ ~ LaterThan(a, b) => Instant(a) <= Instant(b)
<1> DEFINE w == FSX!Max({Len(a.fraction), Len(b.fraction)})
<1>1. /\ FractionDigits \in Nat /\ Len(a.fraction) \in Nat /\ Len(b.fraction) \in Nat
      /\ Len(a.fraction) <= FractionDigits /\ Len(b.fraction) <= FractionDigits
      /\ DOMAIN a.fraction = 1..Len(a.fraction) /\ DOMAIN b.fraction = 1..Len(b.fraction)
      /\ Whole(a) \in Int /\ Whole(b) \in Int
  BY OfflineAssumption DEF Timestamp, Whole
<1>2. w \in Nat /\ Len(a.fraction) <= w /\ Len(b.fraction) <= w /\ w <= FractionDigits
  <2>1. w = IF Len(a.fraction) >= Len(b.fraction) THEN Len(a.fraction) ELSE Len(b.fraction)
    BY <1>1 DEF FSX!Max
  <2> HIDE DEF w
  <2> QED BY <1>1, <2>1
<1> DEFINE x == PadEnd(a.fraction, w)
           y == PadEnd(b.fraction, w)
<1>3. /\ DOMAIN x = 1..w /\ \A i \in 1..w : x[i] = Digit(a, i) /\ y[i] = Digit(b, i)
  BY <1>2, PaddedDigits
<1>4. LaterThan(a, b) <=> IF Whole(a) # Whole(b) THEN Whole(a) > Whole(b) ELSE TextAfter(x, y)
  BY DEF LaterThan
<1>5. \A i : Digit(a, i) \in 0..9 /\ Digit(b, i) \in 0..9
  BY DigitsInRange
<1>6. Scaled(a)[0] = Whole(a) /\ Scaled(b)[0] = Whole(b) /\ 0 \in 0..FractionDigits
  BY <1>1, ScaledStep
<1>7. Instant(a) \in Int /\ Instant(b) \in Int
  BY <1>1, ScaledIntegers DEF Instant
<1> HIDE DEF w, x, y
\* Where digits differ first, the greater one is ahead.
<1>8. ASSUME NEW i \in 1..w, Whole(a) = Whole(b), \A j \in 1..(i-1) : Digit(a, j) = Digit(b, j)
      PROVE  /\ Digit(a, i) > Digit(b, i) => Instant(a) > Instant(b)
             /\ Digit(b, i) > Digit(a, i) => Instant(b) > Instant(a)
  <2>1. i \in 1..FractionDigits /\ i-1 \in 0..FractionDigits /\ i \in 0..FractionDigits
    BY <1>1, <1>2
  <2>2. Scaled(a)[i-1] = Scaled(b)[i-1]
    BY <1>8, <2>1, EqualSoFar
  <2>3. /\ Scaled(a)[i] = 10 * Scaled(a)[i-1] + Digit(a, i)
        /\ Scaled(b)[i] = 10 * Scaled(b)[i-1] + Digit(b, i)
    BY <2>1, ScaledStep
  <2>4. Scaled(a)[i-1] \in Int /\ Scaled(b)[i-1] \in Int
    BY <2>1, ScaledIntegers
  <2>5. /\ Digit(a, i) > Digit(b, i) => Scaled(a)[i] > Scaled(b)[i]
        /\ Digit(b, i) > Digit(a, i) => Scaled(b)[i] > Scaled(a)[i]
    BY <1>5, <2>2, <2>3, <2>4
  <2> QED BY <2>1, <2>5, AheadStays
<1>9. CASE Whole(a) # Whole(b)
  <2>1. Whole(a) > Whole(b) => Instant(a) > Instant(b)
    BY <1>6, AheadStays
  <2>2. Whole(b) > Whole(a) => Instant(b) > Instant(a)
    BY <1>6, AheadStays
  <2> QED BY <1>1, <1>4, <1>7, <1>9, <2>1, <2>2
<1>10. CASE Whole(a) = Whole(b) /\ TextAfter(x, y)
  <2>1. PICK i \in 1..w : x[i] > y[i] /\ \A j \in 1..(i-1) : x[j] = y[j]
    BY <1>3, <1>10 DEF TextAfter
  <2>2. \A j \in 1..(i-1) : j \in 1..w
    BY <1>2
  <2>3. Digit(a, i) > Digit(b, i) /\ \A j \in 1..(i-1) : Digit(a, j) = Digit(b, j)
    BY <1>3, <2>1, <2>2
  <2>4. Instant(a) > Instant(b)
    BY <1>8, <1>10, <2>3
  <2> QED BY <1>4, <1>10, <2>4
<1>11. CASE Whole(a) = Whole(b) /\ ~ TextAfter(x, y)
  <2> DEFINE D == {i \in 1..w : Digit(a, i) # Digit(b, i)}
  <2>1. CASE D = {}
    <3>1. ASSUME NEW j \in 1..FractionDigits PROVE Digit(a, j) = Digit(b, j)
      <4>1. CASE j \in 1..w
        BY <2>1, <4>1
      <4>2. CASE j \notin 1..w
        <5>1. j \notin DOMAIN a.fraction /\ j \notin DOMAIN b.fraction
          BY <1>1, <1>2, <4>2
        <5> QED BY <5>1 DEF Digit
      <4> QED BY <4>1, <4>2
    <3>2. FractionDigits \in 0..FractionDigits
      BY <1>1
    <3>3. Instant(a) = Instant(b)
      BY <1>11, <3>1, <3>2, EqualSoFar DEF Instant
    <3> QED BY <1>4, <1>7, <1>11, <3>3
  <2>2. CASE D # {}
    <3>1. PICK i \in D : \A j \in D : i <= j
      <4>1. D \in SUBSET Nat
        BY <1>2
      <4> HIDE DEF D
      <4> QED BY <2>2, <4>1, LeastNat
    <3>2. i \in 1..w /\ \A j \in 1..(i-1) : j \in 1..w /\ Digit(a, j) = Digit(b, j)
      BY <1>2, <3>1
    <3>3. ~ (Digit(a, i) > Digit(b, i))
      BY <1>3, <1>11, <3>2 DEF TextAfter
    <3>4. Digit(b, i) > Digit(a, i)
      BY <1>5, <3>1, <3>3
    <3>5. Instant(b) > Instant(a)
      BY <1>8, <1>11, <3>2, <3>4
    <3> QED BY <1>4, <1>7, <1>11, <3>5
  <2> QED BY <2>1, <2>2
<1> QED BY <1>9, <1>10, <1>11

\* Only the composition speaks of expiries: no check of evidence does, nor any
\* test of a request or of a grant.
LEMMA EvidenceSilent ==
  ASSUME NEW evidence, Evident(evidence), NEW entry,
         NEW errors \in {RequestErrors, GrantErrors}
  PROVE  EvidenceError(evidence, entry, errors) # "grant_expiry_exceeds_request"
<1> DEFINE tests == << <<evidence.form # "ok", errors[evidence.form]>>,
                       <<evidence.profile \notin entry, errors.mismatch>> >>
<1>1. DOMAIN tests = 1..2
  OBVIOUS
<1>2. /\ tests[1][2] # "grant_expiry_exceeds_request"
      /\ tests[2][2] # "grant_expiry_exceeds_request"
  BY DEF Evident, RequestErrors, GrantErrors
<1>3. EvidenceError(evidence, entry, errors) = FirstError(tests)
  BY DEF EvidenceError
<1> HIDE DEF tests
<1>4. \A i \in DOMAIN tests : tests[i][2] # "grant_expiry_exceeds_request"
  BY <1>1, <1>2
<1>5. DOMAIN tests \subseteq Nat
  BY <1>1
<1> QED BY <1>3, <1>4, <1>5, FirstErrorDecides

\* No refusal of a request is about the expiry of a grant.
LEMMA RequestSilent ==
  ASSUME NEW r, RequestGrammar(r), NEW manifest, NEW host, Evident(host.evidence)
  PROVE  RequestError(r, manifest, host) # "grant_expiry_exceeds_request"
<1> DEFINE v == retained[manifest].view
           tests == RequestTests(r, host, v)
           Silent(i) == tests[i][2] # "grant_expiry_exceeds_request"
<1>1. DOMAIN tests = 1..10
  BY DEF RequestTests
<1>2. /\ "grant_expiry_exceeds_request" \notin {r.form, r.fields, r.terms}
      /\ EvidenceError(host.evidence, v.entry, RequestErrors) # "grant_expiry_exceeds_request"
      /\ EvidenceError(r.evidence, v.entry, RequestErrors) # "grant_expiry_exceeds_request"
  BY EvidenceSilent DEF RequestGrammar, Reserved
<1>3. /\ Silent(1) /\ Silent(2) /\ Silent(3) /\ Silent(4) /\ Silent(5) /\ Silent(6) /\ Silent(7)
      /\ Silent(8) /\ Silent(9) /\ Silent(10)
  <2> HIDE DEF v
  <2> QED BY <1>2 DEF RequestTests
<1>4. \A i \in DOMAIN tests : Silent(i)
  <2> HIDE DEF Silent, tests
  <2> QED BY <1>1, <1>3
<1>5. FirstError(tests) # "grant_expiry_exceeds_request"
  <2> HIDE DEF tests
  <2>1. FirstError(tests) = "none" \/ \E i \in DOMAIN tests : tests[i][2] = FirstError(tests)
    BY <1>1, FirstErrorDecides
  <2> QED BY <1>4, <2>1
<1>6. FormError(r, "grant_request_byte_limit", "grant_request_incompatible") # "grant_expiry_exceeds_request"
  BY <1>2 DEF FormError
<1> HIDE DEF tests
<1>7. RequestError(r, manifest, host) \in
        {FormError(r, "grant_request_byte_limit", "grant_request_incompatible"),
         "invalid_manifest_binding", FirstError(tests)}
  BY DEF RequestError, tests
<1> QED BY <1>5, <1>6, <1>7

\* Nor is any refusal of a grant by itself.
LEMMA GrantSilent ==
  ASSUME NEW grant, GrantGrammar(grant), NEW manifest, NEW host, Evident(host.evidence)
  PROVE  GrantError(grant, manifest, host) # "grant_expiry_exceeds_request"
<1> DEFINE v == retained[manifest].view
           g == grant.view
           tests == GrantTests(g, host, v)
           Silent(i) == tests[i][2] # "grant_expiry_exceeds_request"
<1>1. DOMAIN tests = 1..17
  BY DEF GrantTests
<1>2. /\ "grant_expiry_exceeds_request" \notin {grant.form, g.fields, g.method, g.terms}
      /\ EvidenceError(host.evidence, v.entry, GrantErrors) # "grant_expiry_exceeds_request"
      /\ EvidenceError(g.evidence, v.entry, GrantErrors) # "grant_expiry_exceeds_request"
      /\ EvidenceError(g.binding.evidence, v.entry, GrantErrors) # "grant_expiry_exceeds_request"
  BY EvidenceSilent DEF GrantGrammar, Reserved
<1>3. /\ Silent(1) /\ Silent(2) /\ Silent(3) /\ Silent(4) /\ Silent(5) /\ Silent(6) /\ Silent(7)
      /\ Silent(8) /\ Silent(9) /\ Silent(10) /\ Silent(11) /\ Silent(12) /\ Silent(13)
      /\ Silent(14) /\ Silent(15) /\ Silent(16) /\ Silent(17)
  <2> HIDE DEF v, g
  <2> QED BY <1>2 DEF GrantTests
<1>4. \A i \in DOMAIN tests : Silent(i)
  <2> HIDE DEF Silent, tests
  <2> QED BY <1>1, <1>3
<1>5. FirstError(tests) # "grant_expiry_exceeds_request"
  <2> HIDE DEF tests
  <2>1. FirstError(tests) = "none" \/ \E i \in DOMAIN tests : tests[i][2] = FirstError(tests)
    BY <1>1, FirstErrorDecides
  <2> QED BY <1>4, <2>1
<1>6. FormError(grant, "grant_byte_limit", "grant_incompatible") # "grant_expiry_exceeds_request"
  BY <1>2 DEF FormError
<1> HIDE DEF tests
<1>7. GrantError(grant, manifest, host) \in
        {FormError(grant, "grant_byte_limit", "grant_incompatible"), "grant_hash_required",
         "grant_hash_mismatch", "invalid_manifest_binding", FirstError(tests)}
  BY DEF GrantError, tests, v, g
<1> QED BY <1>5, <1>6, <1>7

\* A composition that is refused for its expiries has them the wrong way round.
LEMMA ExpiryRefusedJustly ==
  ASSUME NEW request, NEW grant, NEW manifest, NEW host,
         RequestGrammar(request.text), GrantGrammar(grant.text), Evident(host.evidence),
         CompositionError(request, grant, manifest, host) = "grant_expiry_exceeds_request"
  PROVE  LaterThan(grant.text.view.expires_at, request.text.expires_at)
<1> DEFINE tests == CompositionTests(request, grant, manifest, host)
           Silent(i) == tests[i][2] # "grant_expiry_exceeds_request"
<1>1. DOMAIN tests = 1..6
  BY DEF CompositionTests
<1>2. /\ "grant_expiry_exceeds_request" \notin {request.text.form, grant.text.form}
      /\ RequestError(request.text, manifest, host) # "grant_expiry_exceeds_request"
      /\ GrantError(grant.text, manifest, host) # "grant_expiry_exceeds_request"
  BY RequestSilent, GrantSilent DEF RequestGrammar, GrantGrammar, Reserved
<1>3. Silent(1) /\ Silent(2) /\ Silent(3) /\ Silent(4) /\ Silent(5)
  BY <1>2 DEF CompositionTests, Snapshot
<1>4. PICK i \in 1..6 : tests[i][1] /\ tests[i][2] = "grant_expiry_exceeds_request"
  <2>1. FirstError(tests) = "grant_expiry_exceeds_request"
    BY DEF CompositionError
  <2> HIDE DEF tests
  <2> QED BY <1>1, <2>1, FirstErrorDecides
<1>5. tests[6][1]
  <2> HIDE DEF tests
  <2> QED BY <1>3, <1>4
<1> QED BY <1>5 DEF CompositionTests, Snapshot

\* For any timestamps of the grammar, a composition passes only if its grant
\* ends no later than its request, to the last digit and across zones, and is
\* refused for that reason only if it ends later.
THEOREM ExpiriesHold == Spec => []ExpiryNeverExtended
<1>1. IInv => ExpiryNeverExtended
  <2> SUFFICES ASSUME IInv, object.kind = "composition"
               PROVE  LET r == object.request.text g == object.grant.text.view IN
                      /\ object.outcome = "none" => Instant(g.expires_at) <= Instant(r.expires_at)
                      /\ object.outcome = "grant_expiry_exceeds_request" =>
                           Instant(g.expires_at) > Instant(r.expires_at)
    BY DEF ExpiryNeverExtended
  <2> DEFINE code == CompositionError(object.request, object.grant, object.manifest, object.host)
             g == object.grant.text.view.expires_at
             r == object.request.text.expires_at
  <2>1. object.outcome \in {"not called", code}
    BY DEF IInv, ObjectsPassed
  <2>2. /\ RequestGrammar(object.request.text) /\ GrantGrammar(object.grant.text)
        /\ "none" \notin {object.request.text.form, object.grant.text.form}
    BY GrammarOf DEF IInv
  <2>3. Timestamp(g) /\ Timestamp(r)
    BY <2>2 DEF RequestGrammar, GrantGrammar
  <2>4. Evident(object.host.evidence)
    BY OfflineAssumption DEF IInv, TypeOK
  <2>5. code = "none" => ~ LaterThan(g, r)
    BY <2>2, CompositionPasses
  <2>6. code = "grant_expiry_exceeds_request" => LaterThan(g, r)
    BY <2>2, <2>4, ExpiryRefusedJustly
  <2> HIDE DEF code
  <2> QED BY <2>1, <2>3, <2>5, <2>6, LaterIsAfter
<1>2. Spec => []IInv
  BY Initial, Inductive, PTL DEF Spec
<1> QED BY <1>1, <1>2, PTL

-----------------------------------------------------------------------------
(***************************************************************************)
(* Data classes. Names are compared by their code points; the order of     *)
(* their UTF-8 texts is the same, and neighbours in order are all in order.*)
(***************************************************************************)
\* What holds of 0, and of each number up to n if of the one before, holds up to n.
LEMMA BoundedInduction ==
  ASSUME NEW n \in Nat, NEW T, 0 \in T, \A k \in 1..n : k - 1 \in T => k \in T
  PROVE  \A k \in 0..n : k \in T
<1> DEFINE U == {k \in Nat : k <= n => k \in T}
<1>1. 0 \in U
  OBVIOUS
<1>2. ASSUME NEW k \in U PROVE k + 1 \in U
  <2> SUFFICES ASSUME k + 1 <= n PROVE k + 1 \in T
    BY <1>2
  <2>1. k + 1 \in 1..n /\ (k + 1) - 1 = k /\ k <= n
    OBVIOUS
  <2> QED BY <2>1
<1>3. U = Nat
  <2>1. U \in SUBSET Nat
    OBVIOUS
  <2> HIDE DEF U
  <2> QED BY <1>1, <1>2, <2>1, Induction
<1> QED BY <1>3

\* Two sequences part at place i: they are the same before it, and there the
\* first one ends or has the smaller member.
PartAt(s, t, i) ==
  /\ i \in 1..Len(t) /\ i <= Len(s) + 1
  /\ i <= Len(s) => s[i] < t[i]
  /\ \A j \in 1..(i - 1) : s[j] = t[j]

\* A sequence comes before another one exactly if they part somewhere.
LEMMA LexicographicParts ==
  ASSUME NEW s \in Seq(Nat), NEW t \in Seq(Nat)
  PROVE  Lexicographic(s, t) <=> \E i : PartAt(s, t, i)
<1>0. Len(s) \in Nat /\ Len(t) \in Nat /\ DOMAIN s = 1..Len(s) /\ DOMAIN t = 1..Len(t)
  OBVIOUS
<1>1. SQ!IsStrictPrefix(s, t) <=> Len(s) < Len(t) /\ \A j \in 1..Len(s) : s[j] = t[j]
  <2>1. ASSUME SQ!IsStrictPrefix(s, t)
        PROVE  Len(s) < Len(t) /\ \A j \in 1..Len(s) : s[j] = t[j]
    <3>1. Len(s) <= Len(t) /\ SubSeq(s, 1, Len(s)) = SubSeq(t, 1, Len(s)) /\ s # t
      BY <2>1 DEF SQ!IsStrictPrefix, SQ!IsPrefix
    <3>2. \A j \in 1..Len(s) : SubSeq(s, 1, Len(s))[j] = s[j] /\ SubSeq(t, 1, Len(s))[j] = t[j]
      BY <1>0, <3>1
    <3>3. \A j \in 1..Len(s) : s[j] = t[j]
      BY <3>1, <3>2
    <3>4. Len(s) # Len(t)
      BY <3>1, <3>3, SeqEqual
    <3>5. Len(s) < Len(t)
      <4>1. Len(s) <= Len(t)
        BY <3>1
      <4>2. \A a, b \in Nat : a <= b /\ a # b => a < b
        OBVIOUS
      <4> QED BY <1>0, <3>4, <4>1, <4>2, Zenon
    <3> QED BY <3>3, <3>5
  <2>2. ASSUME Len(s) < Len(t), \A j \in 1..Len(s) : s[j] = t[j]
        PROVE  SQ!IsStrictPrefix(s, t)
    <3>1. SubSeq(s, 1, Len(s)) = SubSeq(t, 1, Len(s))
      <4>1. SubSeq(s, 1, Len(s)) \in Seq(Nat) /\ SubSeq(t, 1, Len(s)) \in Seq(Nat)
            /\ Len(SubSeq(s, 1, Len(s))) = Len(s) /\ Len(SubSeq(t, 1, Len(s))) = Len(s)
            /\ \A j \in 1..Len(s) : SubSeq(s, 1, Len(s))[j] = s[j] /\ SubSeq(t, 1, Len(s))[j] = t[j]
        BY <1>0, <2>2
      <4> QED BY <4>1, <2>2, SeqEqual
    <3>2. s # t
      BY <2>2, <1>0
    <3> QED BY <1>0, <2>2, <3>1, <3>2 DEF SQ!IsStrictPrefix, SQ!IsPrefix
  <2> QED BY <2>1, <2>2
<1>2. ASSUME SQ!IsStrictPrefix(s, t) PROVE PartAt(s, t, Len(s) + 1)
  BY <1>0, <1>1, <1>2 DEF PartAt
<1>3. ASSUME NEW i \in DOMAIN s \cap DOMAIN t, s[i] < t[i], \A j \in 1..(i - 1) : s[j] = t[j]
      PROVE  PartAt(s, t, i)
  BY <1>0, <1>3 DEF PartAt
<1>4. ASSUME NEW i, PartAt(s, t, i) PROVE Lexicographic(s, t)
  <2>1. CASE i <= Len(s)
    <3>1. i \in DOMAIN s \cap DOMAIN t /\ s[i] < t[i] /\ \A j \in 1..(i - 1) : s[j] = t[j]
      BY <1>0, <1>4, <2>1 DEF PartAt
    <3> QED BY <3>1 DEF Lexicographic
  <2>2. CASE ~ (i <= Len(s))
    <3>1. i = Len(s) + 1 /\ Len(s) < Len(t) /\ \A j \in 1..Len(s) : s[j] = t[j]
      BY <1>0, <1>4, <2>2 DEF PartAt
    <3> QED BY <3>1, <1>1 DEF Lexicographic
  <2> QED BY <2>1, <2>2
<1> QED BY <1>2, <1>3, <1>4 DEF Lexicographic

\* The order is transitive.
LEMMA PartsTransitive ==
  ASSUME NEW s \in Seq(Nat), NEW t \in Seq(Nat), NEW u \in Seq(Nat),
         Lexicographic(s, t), Lexicographic(t, u)
  PROVE  Lexicographic(s, u)
<1>1. PICK i : PartAt(s, t, i)
  BY LexicographicParts
<1>2. PICK k : PartAt(t, u, k)
  BY LexicographicParts
<1>l. Len(s) \in Nat /\ Len(t) \in Nat /\ Len(u) \in Nat
  OBVIOUS
<1>q. i \in 1..Len(t) /\ k \in 1..Len(u)
  BY <1>1, <1>2, Zenon DEF PartAt
<1>3. /\ Len(s) \in Nat /\ Len(t) \in Nat /\ Len(u) \in Nat /\ i \in Nat /\ k \in Nat
  BY <1>l, <1>q
<1>n. /\ \A j \in 1..Len(s) : s[j] \in Nat
      /\ \A j \in 1..Len(t) : t[j] \in Nat
      /\ \A j \in 1..Len(u) : u[j] \in Nat
  OBVIOUS
<1>p. /\ i <= Len(t) /\ i <= Len(s) + 1 /\ 1 <= i
      /\ k <= Len(u) /\ k <= Len(t) + 1 /\ 1 <= k
      /\ \A j \in 1..(i - 1) : s[j] = t[j]
      /\ \A j \in 1..(k - 1) : t[j] = u[j]
      /\ i <= Len(s) => s[i] < t[i]
      /\ k <= Len(t) => t[k] < u[k]
  BY <1>1, <1>2 DEF PartAt
<1>4. CASE i < k
  <2>1. i \in 1..(k - 1) /\ i \in 1..Len(u) /\ \A j \in 1..(i - 1) : j \in 1..(k - 1)
    BY <1>3, <1>p, <1>4
  <2>2. PartAt(s, u, i)
    BY <1>p, <2>1 DEF PartAt
  <2> QED BY <2>2, LexicographicParts
<1>5. CASE k <= i
  <2>1. /\ k \in 1..Len(u) /\ k <= Len(s) + 1 /\ k <= Len(t)
        /\ \A j \in 1..(k - 1) : j \in 1..(i - 1)
    BY <1>3, <1>p, <1>5
  <2>2. ASSUME k <= Len(s) PROVE s[k] < u[k]
    <3>1. t[k] < u[k]
      BY <1>p, <2>1
    <3>2. s[k] <= t[k]
      <4>1. CASE k = i
        <5>1. s[k] < t[k]
          BY <1>p, <2>2, <4>1
        <5>2. s[k] \in Nat /\ t[k] \in Nat
          BY <1>3, <1>n, <2>1, <2>2
        <5> QED BY <5>1, <5>2
      <4>2. CASE k # i
        <5>1. k \in 1..(i - 1)
          BY <1>3, <1>p, <1>5, <4>2
        <5>2. s[k] = t[k] /\ s[k] \in Nat
          BY <1>p, <5>1, <1>n, <2>1, <2>2, <1>3
        <5> QED BY <5>2
      <4> QED BY <4>1, <4>2
    <3>3. s[k] \in Nat /\ t[k] \in Nat /\ u[k] \in Nat
      BY <1>3, <1>n, <2>1, <2>2
    <3> QED BY <3>1, <3>2, <3>3
  <2>3. PartAt(s, u, k)
    BY <1>p, <2>1, <2>2 DEF PartAt
  <2> QED BY <2>3, LexicographicParts
<1> QED BY <1>3, <1>4, <1>5

\* A code point has one to four bytes.
LEMMA Utf8Bytes ==
  ASSUME NEW p \in Nat
  PROVE  Utf8(p) \in Seq(Nat) /\ Len(Utf8(p)) \in 1..4
<1>1. CASE p < 128
  BY <1>1 DEF Utf8
<1>2. CASE ~ (p < 128) /\ p < 2048
  BY <1>2 DEF Utf8
<1>3. CASE ~ (p < 2048) /\ p < 65536
  BY <1>3 DEF Utf8
<1>4. CASE ~ (p < 65536)
  BY <1>4 DEF Utf8
<1> QED BY <1>1, <1>2, <1>3, <1>4


\* Two texts differ at a byte they both have, where the first one has the smaller.
Ascends(s, t) == \E k \in 1..Len(s) : k <= Len(t) /\ PartAt(s, t, k)

\* The digits of a number to the base 64 are compared one after the other.
LEMMA DigitsBase64 ==
  \A p, q \in Nat :
    /\ p \div 64 \in Nat /\ p % 64 \in Nat
    /\ p \div 4096 = (p \div 64) \div 64 /\ p \div 262144 = (p \div 4096) \div 64
    /\ p < q => p \div 64 < q \div 64 \/ (p \div 64 = q \div 64 /\ p % 64 < q % 64)
  OBVIOUS

\* The first byte tells how many there are, and more for a greater code point.
LEMMA Utf8Lead ==
  ASSUME NEW p \in Nat
  PROVE  /\ Utf8(p)[1] \in Nat
         /\ p < 128 => Utf8(p)[1] < 128
         /\ ~ (p < 128) => 192 <= Utf8(p)[1]
         /\ ~ (p < 128) /\ p < 2048 => Utf8(p)[1] < 224
         /\ ~ (p < 2048) => 224 <= Utf8(p)[1]
         /\ ~ (p < 2048) /\ p < 65536 => Utf8(p)[1] < 240
         /\ ~ (p < 65536) => 240 <= Utf8(p)[1]
<1>1. CASE p < 128
  BY <1>1 DEF Utf8
<1>2. CASE ~ (p < 128) /\ p < 2048
  <2>1. Utf8(p)[1] = 192 + p \div 64
    BY <1>2 DEF Utf8
  <2>2. p \div 64 \in Nat /\ p \div 64 < 32
    BY <1>2
  <2> QED BY <1>2, <2>1, <2>2
<1>3. CASE ~ (p < 2048) /\ p < 65536
  <2>1. Utf8(p)[1] = 224 + p \div 4096
    BY <1>3 DEF Utf8
  <2>2. p \div 4096 \in Nat /\ p \div 4096 < 16
    BY <1>3
  <2> QED BY <1>3, <2>1, <2>2
<1>4. CASE ~ (p < 65536)
  <2>1. Utf8(p)[1] = 240 + p \div 262144
    BY <1>4 DEF Utf8
  <2>2. p \div 262144 \in Nat
    BY <1>4
  <2> QED BY <1>4, <2>1, <2>2
<1> QED BY <1>1, <1>2, <1>3, <1>4

\* A smaller code point has the smaller UTF-8 text.
LEMMA Utf8Ascends ==
  ASSUME NEW p \in Nat, NEW q \in Nat, p < q
  PROVE  Ascends(Utf8(p), Utf8(q))
<1> DEFINE U == Utf8(p)
           V == Utf8(q)
<1>1. U \in Seq(Nat) /\ V \in Seq(Nat) /\ Len(U) \in 1..4 /\ Len(V) \in 1..4
  BY Utf8Bytes
<1>2. ASSUME U[1] < V[1] PROVE Ascends(U, V)
  <2>1. 1 \in 1..Len(U) /\ 1 <= Len(V) /\ PartAt(U, V, 1)
    <3> HIDE DEF U, V
    <3> QED BY <1>1, <1>2 DEF PartAt
  <2> QED BY <2>1 DEF Ascends
<1>3. CASE q < 128
  <2>1. U = <<p>> /\ V = <<q>>
    BY <1>3 DEF Utf8
  <2>2. U[1] < V[1]
    BY <2>1
  <2> QED BY <1>2, <2>2
<1>4. CASE ~ (p < 128) /\ q < 2048
  <2>1. /\ U = <<192 + p \div 64, 128 + (p % 64)>>
        /\ V = <<192 + q \div 64, 128 + (q % 64)>>
    BY <1>4 DEF Utf8
  <2>2. \/ p \div 64 < q \div 64
        \/ p \div 64 = q \div 64 /\ p % 64 < q % 64
    BY DigitsBase64
  <2>3. \/ U[1] < V[1]
        \/ U[1] = V[1] /\ U[2] < V[2]
    BY <2>1, <2>2
  <2>4. Len(U) = 2 /\ Len(V) = 2
    BY <2>1
  <2> HIDE DEF U, V
  <2>5. ASSUME U[1] = V[1], U[2] < V[2] PROVE Ascends(U, V)
    <3>1. 2 \in 1..Len(U) /\ 2 <= Len(V) /\ PartAt(U, V, 2)
      BY <2>4, <2>5 DEF PartAt
    <3> QED BY <3>1 DEF Ascends
  <2> QED BY <1>2, <2>3, <2>5 DEF U, V
<1>5. CASE ~ (p < 2048) /\ q < 65536
  <2>1. /\ U = <<224 + p \div 4096, 128 + ((p \div 64) % 64), 128 + (p % 64)>>
        /\ V = <<224 + q \div 4096, 128 + ((q \div 64) % 64), 128 + (q % 64)>>
    BY <1>5 DEF Utf8
  <2>2. \/ p \div 4096 < q \div 4096
        \/ p \div 4096 = q \div 4096 /\ (p \div 64) % 64 < (q \div 64) % 64
        \/ p \div 4096 = q \div 4096 /\ (p \div 64) % 64 = (q \div 64) % 64 /\ p % 64 < q % 64
    BY DigitsBase64
  <2>3. \/ U[1] < V[1]
        \/ U[1] = V[1] /\ U[2] < V[2]
        \/ U[1] = V[1] /\ U[2] = V[2] /\ U[3] < V[3]
    BY <2>1, <2>2
  <2>4. Len(U) = 3 /\ Len(V) = 3
    BY <2>1
  <2> HIDE DEF U, V
  <2>5. ASSUME U[1] = V[1], U[2] < V[2] PROVE Ascends(U, V)
    <3>1. 2 \in 1..Len(U) /\ 2 <= Len(V) /\ PartAt(U, V, 2)
      BY <2>4, <2>5 DEF PartAt
    <3> QED BY <3>1 DEF Ascends
  <2>6. ASSUME U[1] = V[1], U[2] = V[2], U[3] < V[3] PROVE Ascends(U, V)
    <3>1. 3 \in 1..Len(U) /\ 3 <= Len(V) /\ PartAt(U, V, 3)
      BY <2>4, <2>6 DEF PartAt
    <3> QED BY <3>1 DEF Ascends
  <2> QED BY <1>2, <2>3, <2>5, <2>6 DEF U, V
<1>6. CASE ~ (p < 65536)
  <2>1. /\ U = <<240 + p \div 262144, 128 + ((p \div 4096) % 64), 128 + ((p \div 64) % 64), 128 + (p % 64)>>
        /\ V = <<240 + q \div 262144, 128 + ((q \div 4096) % 64), 128 + ((q \div 64) % 64), 128 + (q % 64)>>
    BY <1>6 DEF Utf8
  <2>2. \/ p \div 262144 < q \div 262144
        \/ p \div 262144 = q \div 262144 /\ (p \div 4096) % 64 < (q \div 4096) % 64
        \/ /\ p \div 262144 = q \div 262144 /\ (p \div 4096) % 64 = (q \div 4096) % 64
           /\ (p \div 64) % 64 < (q \div 64) % 64
        \/ /\ p \div 262144 = q \div 262144 /\ (p \div 4096) % 64 = (q \div 4096) % 64
           /\ (p \div 64) % 64 = (q \div 64) % 64 /\ p % 64 < q % 64
    BY DigitsBase64
  <2>3. \/ U[1] < V[1]
        \/ U[1] = V[1] /\ U[2] < V[2]
        \/ U[1] = V[1] /\ U[2] = V[2] /\ U[3] < V[3]
        \/ U[1] = V[1] /\ U[2] = V[2] /\ U[3] = V[3] /\ U[4] < V[4]
    BY <2>1, <2>2
  <2>4. Len(U) = 4 /\ Len(V) = 4
    BY <2>1
  <2> HIDE DEF U, V
  <2>5. ASSUME U[1] = V[1], U[2] < V[2] PROVE Ascends(U, V)
    <3>1. 2 \in 1..Len(U) /\ 2 <= Len(V) /\ PartAt(U, V, 2)
      BY <2>4, <2>5 DEF PartAt
    <3> QED BY <3>1 DEF Ascends
  <2>6. ASSUME U[1] = V[1], U[2] = V[2], U[3] < V[3] PROVE Ascends(U, V)
    <3>1. 3 \in 1..Len(U) /\ 3 <= Len(V) /\ PartAt(U, V, 3)
      BY <2>4, <2>6 DEF PartAt
    <3> QED BY <3>1 DEF Ascends
  <2>7. ASSUME U[1] = V[1], U[2] = V[2], U[3] = V[3], U[4] < V[4] PROVE Ascends(U, V)
    <3>1. 4 \in 1..Len(U) /\ 4 <= Len(V) /\ PartAt(U, V, 4)
      BY <2>4, <2>7 DEF PartAt
    <3> QED BY <3>1 DEF Ascends
  <2> QED BY <1>2, <2>3, <2>5, <2>6, <2>7 DEF U, V
<1>7. CASE \/ p < 128 /\ ~ (q < 128)
           \/ p < 2048 /\ ~ (q < 2048)
           \/ p < 65536 /\ ~ (q < 65536)
  <2>1. U[1] < V[1]
    <3> HIDE DEF U, V
    <3>1. /\ U[1] \in Nat
          /\ p < 128 => U[1] < 128
          /\ p < 2048 => U[1] < 224
          /\ p < 65536 => U[1] < 240
      BY Utf8Lead DEF U
    <3>2. /\ V[1] \in Nat
          /\ ~ (q < 128) => 192 <= V[1]
          /\ ~ (q < 2048) => 224 <= V[1]
          /\ ~ (q < 65536) => 240 <= V[1]
      BY Utf8Lead DEF V
    <3> QED BY <1>7, <3>1, <3>2
  <2> QED BY <1>2, <2>1
<1> QED BY <1>3, <1>4, <1>5, <1>6, <1>7

\* The concatenations of the first sequences of some, for any number of them.
Concatenates(G, S, seqs) ==
  /\ G \in [0..Len(seqs) -> Seq(S)]
  /\ G[0] = <<>>
  /\ \A m \in 1..Len(seqs) : G[m] = G[m - 1] \o seqs[m]
  /\ SQ!FlattenSeq(seqs) = G[Len(seqs)]

\* What FlattenSeq returns is the last of them.
LEMMA FlattenSteps ==
  ASSUME NEW S, NEW seqs \in Seq(Seq(S))
  PROVE  \E G : Concatenates(G, S, seqs)
<1> DEFINE n == Len(seqs)
           Rec(g, k) == g = [i \in 1..k |-> IF i = 1 THEN seqs[i] ELSE g[i - 1] \o seqs[i]]
           T == {k \in Nat : \E g : Rec(g, k)}
<1>1. n \in Nat /\ DOMAIN seqs = 1..n /\ \A i \in 1..n : seqs[i] \in Seq(S)
  OBVIOUS
<1>3. CASE n = 0
  <2>1. seqs = <<>>
    BY <1>1, <1>3
  <2>2. SQ!FlattenSeq(seqs) = <<>>
    BY <1>1, <1>3, <2>1 DEF SQ!FlattenSeq
  <2>3. Concatenates([m \in 0..0 |-> <<>>], S, seqs)
    BY <1>3, <2>2 DEF Concatenates
  <2> QED BY <2>3
<1>4. CASE n # 0
  <2>1. 0 \in T
    <3>1. Rec([i \in 1..0 |-> <<>>], 0)
      OBVIOUS
    <3> QED BY <3>1
  <2>2. ASSUME NEW k \in Nat, NEW g, Rec(g, k) PROVE \E h : Rec(h, k + 1)
    <3> DEFINE h == [i \in 1..(k + 1) |-> IF i # k + 1 THEN g[i]
                                          ELSE IF i = 1 THEN seqs[i] ELSE g[k] \o seqs[i]]
    <3>1. ASSUME NEW i \in 1..k PROVE g[i] = IF i = 1 THEN seqs[i] ELSE g[i - 1] \o seqs[i]
      BY <2>2
    <3>2. ASSUME NEW i \in 1..(k + 1) PROVE h[i] = IF i = 1 THEN seqs[i] ELSE h[i - 1] \o seqs[i]
      <4>1. CASE i = k + 1
        <5>1. i # 1 => i - 1 = k /\ k \in 1..(k + 1) /\ k # k + 1
          BY <4>1
        <5>2. i # 1 => h[i - 1] = g[k]
          BY <5>1
        <5> QED BY <4>1, <5>2
      <4>2. CASE i # k + 1
        <5>1. i \in 1..k /\ (i # 1 => i - 1 \in 1..(k + 1) /\ i - 1 # k + 1)
          BY <4>2
        <5> QED BY <3>1, <4>2, <5>1
      <4> QED BY <4>1, <4>2
    <3>3. h = [i \in 1..(k + 1) |-> IF i = 1 THEN seqs[i] ELSE h[i - 1] \o seqs[i]]
      BY <3>2
    <3> QED BY <3>3
  <2>3. n \in T
    <3>1. \A k \in T : k + 1 \in T
      <4> HIDE DEF Rec
      <4> QED BY <2>2
    <3>2. T \in SUBSET Nat
      OBVIOUS
    <3> HIDE DEF T
    <3>3. T = Nat
      BY <2>1, <3>1, <3>2, Induction
    <3> QED BY <1>1, <3>3
  <2>4. PICK F : Rec(F, n) /\ SQ!FlattenSeq(seqs) = F[n]
    <3>1. \E g : Rec(g, n)
      BY <2>3
    <3>2. Len(seqs) = n
      OBVIOUS
    <3> HIDE DEF n
    <3>3. SQ!FlattenSeq(seqs) = (CHOOSE g : Rec(g, n))[n]
      BY <3>2, <1>4 DEF SQ!FlattenSeq
    <3> QED BY <3>1, <3>3
  <2> DEFINE G == [m \in 0..n |-> IF m = 0 THEN <<>> ELSE F[m]]
  <2>5. F[1] = seqs[1] /\ \A m \in 1..n : m # 1 => F[m] = F[m - 1] \o seqs[m]
    <3>1. 1 \in 1..n
      BY <1>1, <1>4
    <3>2. \A m \in 1..n : F[m] = IF m = 1 THEN seqs[m] ELSE F[m - 1] \o seqs[m]
      BY <2>4
    <3> HIDE DEF n, Rec
    <3> QED BY <1>1, <3>1, <3>2
  <2> HIDE DEF Rec, T
  <2>6. \A m \in 1..n : G[m] = G[m - 1] \o seqs[m]
    <3> SUFFICES ASSUME NEW m \in 1..n PROVE G[m] = G[m - 1] \o seqs[m]
      OBVIOUS
    <3>1. CASE m = 1
      <4>1. G[m - 1] = <<>> /\ G[m] = seqs[m] /\ seqs[m] \in Seq(S)
        BY <1>1, <2>5, <3>1
      <4> QED BY <4>1, ConcatEmptySeq
    <3>2. CASE m # 1
      <4>1. m - 1 \in 1..n /\ m - 1 # 0 /\ m \in 0..n /\ m # 0 /\ m - 1 \in 0..n
        BY <1>1, <3>2
      <4>2. G[m - 1] = F[m - 1] /\ G[m] = F[m]
        BY <4>1
      <4> QED BY <2>5, <3>2, <4>2
    <3> QED BY <3>1, <3>2
  <2>7. \A m \in 0..n : G[m] \in Seq(S)
    <3> DEFINE W == {m \in Nat : m <= n => G[m] \in Seq(S)}
    <3>1. G[0] = <<>>
      BY <1>1
    <3> HIDE DEF G
    <3>2. 0 \in W
      <4>1. <<>> \in Seq(S)
        OBVIOUS
      <4> QED BY <3>1, <4>1
    <3>3. \A m \in 1..n : m - 1 \in W => m \in W
      <4> SUFFICES ASSUME NEW m \in 1..n, m - 1 \in W PROVE m \in W
        OBVIOUS
      <4>1. G[m - 1] \in Seq(S) /\ seqs[m] \in Seq(S)
        BY <1>1
      <4>2. G[m - 1] \o seqs[m] \in Seq(S)
        BY <4>1, ConcatProperties
      <4>3. G[m] = G[m - 1] \o seqs[m]
        BY <2>6
      <4>4. m \in Nat
        BY <1>1
      <4> QED BY <4>2, <4>3, <4>4
    <3>4. \A m \in 0..n : m \in W
      <4> HIDE DEF W
      <4> QED BY <1>1, <3>2, <3>3, BoundedInduction
    <3> QED BY <3>4
  <2>8. G \in [0..n -> Seq(S)] /\ G[0] = <<>> /\ SQ!FlattenSeq(seqs) = G[n]
    BY <1>1, <1>4, <2>4, <2>7
  <2>9. Concatenates(G, S, seqs)
    <3> HIDE DEF G
    <3> QED BY <2>6, <2>8 DEF Concatenates
  <2> QED BY <2>9
<1> QED BY <1>3, <1>4

\* The bytes of the first code points of a name, for any number of them.
Flattens(G, name) ==
  /\ G \in [0..Len(name) -> Seq(Nat)]
  /\ G[0] = <<>>
  /\ \A m \in 1..Len(name) : G[m] = G[m - 1] \o Utf8(name[m])
  /\ Bytes(name) = G[Len(name)]

\* The text of a name is made of its code points one after the other.
LEMMA BytesFlatten ==
  ASSUME NEW name \in Name
  PROVE  \E G : Flattens(G, name)
<1> DEFINE n == Len(name)
           seqs == [i \in DOMAIN name |-> Utf8(name[i])]
<1>1. n \in Nat /\ DOMAIN name = 1..n /\ \A i \in 1..n : name[i] \in Nat
  BY DEF Name
<1>2. \A i \in 1..n : Utf8(name[i]) \in Seq(Nat)
  BY <1>1, Utf8Bytes
<1>3. seqs \in [1..n -> Seq(Nat)] /\ \A i \in 1..n : seqs[i] = Utf8(name[i])
  BY <1>1, <1>2
<1> HIDE DEF seqs
<1>4. seqs \in Seq(Seq(Nat)) /\ Len(seqs) = n
  BY <1>1, <1>3, LenProperties
<1>5. PICK G : Concatenates(G, Nat, seqs)
  BY <1>4, FlattenSteps
<1>6. Bytes(name) = SQ!FlattenSeq(seqs)
  BY DEF Bytes, seqs
<1> QED BY <1>3, <1>4, <1>5, <1>6 DEF Concatenates, Flattens

\* The bytes of more code points begin with the bytes of fewer.
LEMMA FlattensGrow ==
  ASSUME NEW name \in Name, NEW G, Flattens(G, name), NEW l \in 0..Len(name)
  PROVE  \A m \in 0..Len(name) : l <= m =>
           /\ Len(G[l]) <= Len(G[m])
           /\ \A j \in 1..Len(G[l]) : G[m][j] = G[l][j]
<1> DEFINE n == Len(name)
           W == {m \in Nat : m <= n /\ l <= m =>
                   /\ Len(G[l]) <= Len(G[m])
                   /\ \A j \in 1..Len(G[l]) : G[m][j] = G[l][j]}
<1>1. /\ n \in Nat /\ \A m \in 0..n : G[m] \in Seq(Nat)
      /\ \A m \in 1..n : G[m] = G[m - 1] \o Utf8(name[m]) /\ Utf8(name[m]) \in Seq(Nat)
  <2>1. n \in Nat /\ \A m \in 1..n : name[m] \in Nat
    BY DEF Name
  <2>2. \A m \in 1..n : Utf8(name[m]) \in Seq(Nat)
    BY <2>1, Utf8Bytes
  <2> QED BY <2>1, <2>2 DEF Flattens
<1>2. ASSUME NEW m \in 1..n, m - 1 \in W PROVE m \in W
  <2>1. m \in Nat /\ m - 1 \in Nat /\ m \in 0..n /\ m - 1 \in 0..n /\ l \in 0..n
    BY <1>1
  <2> SUFFICES ASSUME l <= m
               PROVE  /\ Len(G[l]) <= Len(G[m])
                      /\ \A j \in 1..Len(G[l]) : G[m][j] = G[l][j]
    BY <2>1
  <2>2. CASE l = m
    <3>1. Len(G[l]) \in Nat
      BY <1>1, <2>1
    <3> QED BY <2>2, <3>1
  <2>3. CASE l # m
    <3>1. l <= m - 1 /\ m - 1 <= n
      BY <2>1, <2>3
    <3>2. /\ Len(G[l]) <= Len(G[m - 1])
          /\ \A j \in 1..Len(G[l]) : G[m - 1][j] = G[l][j]
      BY <1>2, <3>1
    <3> DEFINE s == G[m - 1]
               t == Utf8(name[m])
               L == Len(G[l])
    <3>3. s \in Seq(Nat) /\ t \in Seq(Nat) /\ L \in Nat /\ G[m] = s \o t
      <4>1. G[l] \in Seq(Nat) /\ s \in Seq(Nat)
        BY <1>1, <2>1
      <4>2. L \in Nat
        BY <4>1, LenProperties
      <4> QED BY <1>1, <4>1, <4>2
    <3>4. L <= Len(s) /\ \A j \in 1..L : s[j] = G[l][j]
      BY <3>2
    <3> HIDE DEF s, t, L
    <3>5. Len(s \o t) = Len(s) + Len(t) /\ Len(s) \in Nat /\ Len(t) \in Nat
          /\ \A j \in 1..(Len(s) + Len(t)) : (s \o t)[j] = IF j <= Len(s) THEN s[j] ELSE t[j - Len(s)]
      BY <3>3, ConcatProperties, LenProperties
    <3>6. L <= Len(s \o t) /\ \A j \in 1..L : (s \o t)[j] = s[j]
      BY <3>3, <3>4, <3>5
    <3>7. L <= Len(G[m]) /\ \A j \in 1..L : G[m][j] = G[l][j]
      BY <3>3, <3>4, <3>6
    <3> QED BY <3>7 DEF L
  <2> QED BY <2>2, <2>3
<1>3. 0 \in W
  <2>1. Len(G[0]) \in Nat
    BY <1>1
  <2>2. l <= 0 => l = 0
    BY <1>1
  <2> QED BY <2>1, <2>2
<1>4. \A m \in 0..n : m \in W
  <2> HIDE DEF W
  <2> QED BY <1>1, <1>2, <1>3, BoundedInduction
<1> QED BY <1>4

\* Names that begin with the same code points begin with the same bytes.
LEMMA FlattensAgree ==
  ASSUME NEW a \in Name, NEW b \in Name, NEW G, NEW H, Flattens(G, a), Flattens(H, b),
         NEW i \in Nat, i <= Len(a), i <= Len(b), \A j \in 1..i : a[j] = b[j]
  PROVE  G[i] = H[i]
<1> DEFINE W == {m \in Nat : m <= i => G[m] = H[m]}
<1>1. Len(a) \in Nat /\ Len(b) \in Nat
  BY DEF Name
<1>2. 0 \in W
  BY DEF Flattens
<1>3. ASSUME NEW m \in 1..i, m - 1 \in W PROVE m \in W
  <2>1. m \in 1..Len(a) /\ m \in 1..Len(b) /\ m \in Nat /\ m - 1 <= i
    BY <1>1
  <2>2. G[m] = G[m - 1] \o Utf8(a[m]) /\ H[m] = H[m - 1] \o Utf8(b[m])
    BY <2>1 DEF Flattens
  <2>3. G[m - 1] = H[m - 1] /\ a[m] = b[m]
    BY <1>3, <2>1
  <2> QED BY <2>1, <2>2, <2>3
<1>4. \A m \in 0..i : m \in W
  <2> HIDE DEF W
  <2> QED BY <1>2, <1>3, BoundedInduction
<1> QED BY <1>4

\* Names in order have their UTF-8 texts in order.
LEMMA BytesAscend ==
  ASSUME NEW a \in Name, NEW b \in Name, Lexicographic(a, b)
  PROVE  Lexicographic(Bytes(a), Bytes(b))
<1>1. PICK G : Flattens(G, a)
  BY BytesFlatten
<1>2. PICK H : Flattens(H, b)
  BY BytesFlatten
<1>3. /\ a \in Seq(Nat) /\ b \in Seq(Nat) /\ Len(a) \in Nat /\ Len(b) \in Nat
      /\ \A j \in 1..Len(a) : a[j] \in Nat
      /\ \A j \in 1..Len(b) : b[j] \in Nat
  BY DEF Name
<1>4. PICK i : PartAt(a, b, i)
  BY <1>3, LexicographicParts
<1>5. i \in 1..Len(b) /\ i - 1 \in Nat /\ i - 1 <= Len(a) /\ i - 1 <= Len(b)
      /\ \A j \in 1..(i - 1) : a[j] = b[j]
  BY <1>3, <1>4 DEF PartAt
<1> DEFINE P == G[i - 1]
           V == Utf8(b[i])
<1>6. G[i - 1] = H[i - 1]
  <2> DEFINE d == i - 1
  <2>1. d \in Nat /\ d <= Len(a) /\ d <= Len(b) /\ \A j \in 1..d : a[j] = b[j]
    BY <1>5
  <2> HIDE DEF d
  <2>2. G[d] = H[d]
    BY <1>1, <1>2, <2>1, FlattensAgree
  <2> QED BY <2>2 DEF d
<1>7. P \in Seq(Nat) /\ V \in Seq(Nat) /\ Len(V) > 0 /\ H[i] = P \o V
  <2>1. i - 1 \in 0..Len(a) /\ b[i] \in Nat
    BY <1>3, <1>5
  <2>2. V \in Seq(Nat) /\ Len(V) \in 1..4
    BY <2>1, Utf8Bytes
  <2>3. P \in Seq(Nat)
    BY <1>1, <2>1 DEF Flattens
  <2>4. H[i] = P \o V
    BY <1>2, <1>5, <1>6 DEF Flattens
  <2>5. Len(V) > 0
    <3>1. \A x \in 1..4 : x > 0
      OBVIOUS
    <3> QED BY <2>2, <3>1, Zenon
  <2> QED BY <2>2, <2>3, <2>4, <2>5
<1>8. /\ Bytes(a) \in Seq(Nat) /\ Bytes(b) \in Seq(Nat)
      /\ Bytes(a) = G[Len(a)] /\ Bytes(b) = H[Len(b)]
  <2>1. Len(a) \in 0..Len(a) /\ Len(b) \in 0..Len(b)
    BY <1>3
  <2>2. Bytes(a) = G[Len(a)] /\ G \in [0..Len(a) -> Seq(Nat)]
    BY <1>1, Zenon DEF Flattens
  <2>3. Bytes(b) = H[Len(b)] /\ H \in [0..Len(b) -> Seq(Nat)]
    BY <1>2, Zenon DEF Flattens
  <2> QED BY <2>1, <2>2, <2>3
\* Both texts begin with P; the second goes on with V.
<1>9. /\ Len(P) <= Len(Bytes(a)) /\ \A j \in 1..Len(P) : Bytes(a)[j] = P[j]
      /\ Len(P) + Len(V) <= Len(Bytes(b))
      /\ \A j \in 1..Len(P) : Bytes(b)[j] = P[j]
      /\ \A k \in 1..Len(V) : Bytes(b)[Len(P) + k] = V[k]
  <2>1. Len(P) <= Len(Bytes(a)) /\ \A j \in 1..Len(P) : Bytes(a)[j] = P[j]
    <3> DEFINE d == i - 1
               n == Len(a)
    <3>1. d \in 0..n /\ n \in 0..n /\ d <= n
      BY <1>3, <1>5
    <3> HIDE DEF d
    <3>2. Len(G[d]) <= Len(G[n]) /\ \A j \in 1..Len(G[d]) : G[n][j] = G[d][j]
      BY <1>1, <3>1, FlattensGrow
    <3> QED BY <1>8, <3>2 DEF d
  <2>2. Len(P \o V) <= Len(Bytes(b)) /\ \A j \in 1..Len(P \o V) : Bytes(b)[j] = (P \o V)[j]
    <3> DEFINE n == Len(b)
    <3>1. i \in 0..n /\ n \in 0..n /\ i <= n
      BY <1>3, <1>5
    <3>2. Len(H[i]) <= Len(H[n]) /\ \A j \in 1..Len(H[i]) : H[n][j] = H[i][j]
      BY <1>2, <3>1, FlattensGrow
    <3> QED BY <1>7, <1>8, <3>2
  <2> HIDE DEF P, V
  <2>3. /\ Len(P) \in Nat /\ Len(V) \in Nat /\ Len(P \o V) = Len(P) + Len(V)
        /\ \A j \in 1..(Len(P) + Len(V)) : (P \o V)[j] = IF j <= Len(P) THEN P[j] ELSE V[j - Len(P)]
    BY <1>7, ConcatProperties, LenProperties
  <2>4. \A j \in 1..Len(P) : Bytes(b)[j] = P[j]
    BY <2>2, <2>3
  <2>5. ASSUME NEW k \in 1..Len(V) PROVE Bytes(b)[Len(P) + k] = V[k]
    <3> DEFINE j == Len(P) + k
    <3>1. j \in 1..(Len(P) + Len(V)) /\ ~ (j <= Len(P)) /\ j - Len(P) = k
      BY <2>3
    <3> HIDE DEF j
    <3>2. Bytes(b)[j] = V[k]
      BY <2>2, <2>3, <3>1
    <3> QED BY <3>2 DEF j
  <2> QED BY <2>1, <2>2, <2>3, <2>4, <2>5
<1>10. CASE ~ (i <= Len(a))
  <2>1. i - 1 = Len(a)
    BY <1>3, <1>4, <1>5, <1>10 DEF PartAt
  <2>2. Bytes(a) = P
    BY <1>8, <2>1
  <2> HIDE DEF P, V
  <2>3. PartAt(Bytes(a), Bytes(b), Len(P) + 1)
    <3>1. Len(P) \in Nat /\ Len(V) \in Nat /\ Len(Bytes(b)) \in Nat
      BY <1>7, <1>8
    <3> QED BY <1>7, <1>9, <2>2, <3>1 DEF PartAt
  <2> QED BY <1>8, <2>3, LexicographicParts
<1>11. CASE i <= Len(a)
  <2> DEFINE U == Utf8(a[i])
  <2>1. a[i] \in Nat /\ b[i] \in Nat /\ a[i] < b[i] /\ i \in 1..Len(a)
    BY <1>3, <1>4, <1>5, <1>11 DEF PartAt
  <2>2. PICK k \in 1..Len(U) : k <= Len(V) /\ PartAt(U, V, k)
    BY <2>1, Utf8Ascends DEF Ascends
  <2>3. U \in Seq(Nat) /\ G[i] = P \o U
    BY <1>1, <2>1, Utf8Bytes DEF Flattens
  <2>4. Len(P \o U) <= Len(Bytes(a)) /\ \A j \in 1..Len(P \o U) : Bytes(a)[j] = (P \o U)[j]
    <3> DEFINE n == Len(a)
    <3>1. i \in 0..n /\ n \in 0..n /\ i <= n
      BY <1>3, <2>1
    <3>2. Len(G[i]) <= Len(G[n]) /\ \A j \in 1..Len(G[i]) : G[n][j] = G[i][j]
      BY <1>1, <3>1, FlattensGrow
    <3> QED BY <1>8, <2>3, <3>2
  <2> HIDE DEF P, U, V
  <2>5. /\ Len(P) \in Nat /\ Len(U) \in Nat /\ Len(V) \in Nat /\ Len(P \o U) = Len(P) + Len(U)
        /\ \A j \in 1..(Len(P) + Len(U)) : (P \o U)[j] = IF j <= Len(P) THEN P[j] ELSE U[j - Len(P)]
    BY <1>7, <2>3, ConcatProperties, LenProperties
  <2>6. ASSUME NEW l \in 1..Len(U) PROVE Bytes(a)[Len(P) + l] = U[l]
    <3> DEFINE j == Len(P) + l
    <3>1. j \in 1..(Len(P) + Len(U)) /\ ~ (j <= Len(P)) /\ j - Len(P) = l
      BY <2>5
    <3> HIDE DEF j
    <3>2. Bytes(a)[j] = U[l]
      BY <2>4, <2>5, <3>1
    <3> QED BY <3>2 DEF j
  <2> DEFINE x == Len(P) + k
  <2>7. k \in Nat /\ k <= Len(U) /\ U[k] < V[k] /\ \A l \in 1..(k - 1) : U[l] = V[l]
    BY <2>2, <2>5 DEF PartAt
  <2>8. x \in 1..Len(Bytes(b)) /\ x <= Len(Bytes(a)) + 1
    <3>1. Len(Bytes(a)) \in Nat /\ Len(Bytes(b)) \in Nat
      BY <1>8
    <3> QED BY <1>9, <2>2, <2>4, <2>5, <2>7, <3>1
  <2>9. Bytes(a)[x] < Bytes(b)[x]
    <3>1. Bytes(a)[x] = U[k] /\ Bytes(b)[x] = V[k]
      BY <1>9, <2>2, <2>5, <2>6, <2>7
    <3> QED BY <2>7, <3>1
  <2>10. ASSUME NEW j \in 1..(x - 1) PROVE Bytes(a)[j] = Bytes(b)[j]
    <3>1. CASE j <= Len(P)
      BY <1>9, <2>5, <3>1
    <3>2. CASE ~ (j <= Len(P))
      <4> DEFINE l == j - Len(P)
      <4>1. l \in 1..(k - 1) /\ l \in 1..Len(U) /\ l \in 1..Len(V) /\ j = Len(P) + l
        BY <2>2, <2>5, <2>7, <3>2
      <4> HIDE DEF l
      <4> QED BY <1>9, <2>6, <2>7, <4>1
    <3> QED BY <3>1, <3>2
  <2> HIDE DEF x
  <2>11. PartAt(Bytes(a), Bytes(b), x)
    BY <2>8, <2>9, <2>10 DEF PartAt
  <2> QED BY <1>8, <2>11, LexicographicParts
<1> QED BY <1>10, <1>11

\* Neighbours in order are enough: all names are in the order of their texts.
LEMMA OrderedSorts ==
  ASSUME NEW names, IsList(names), \A i \in DOMAIN names : names[i] \in {Malformed} \cup Name,
         Ordered(names)
  PROVE  Sorted(names)
<1> DEFINE n == Len(names)
<1>1. n \in Nat /\ DOMAIN names = 1..n
  BY DEF IsList
<1>2. \A i \in 1..n : names[i] # Malformed /\ names[i] \in Name
  BY <1>1 DEF Ordered
<1>3. \A i \in 1..n : i > 1 => Lexicographic(names[i - 1], names[i])
  BY <1>1 DEF Ordered, Before
<1> HIDE DEF n
<1>4. ASSUME NEW i \in 1..n PROVE \A j \in 1..n : i < j => Lexicographic(names[i], names[j])
  <2> DEFINE W == {j \in Nat : j <= n /\ i < j => Lexicographic(names[i], names[j])}
  <2>1. ASSUME NEW j \in 1..n, j - 1 \in W PROVE j \in W
    <3>1. j \in Nat /\ j - 1 <= n
      BY <1>1
    <3> SUFFICES ASSUME i < j PROVE Lexicographic(names[i], names[j])
      BY <3>1
    <3>2. j > 1 /\ j - 1 \in 1..n
      BY <1>1
    <3>3. Lexicographic(names[j - 1], names[j])
      BY <1>3, <3>2
    <3>4. CASE i = j - 1
      BY <3>3, <3>4
    <3>5. CASE i # j - 1
      <4>1. i < j - 1
        BY <1>1, <3>5
      <4>2. Lexicographic(names[i], names[j - 1])
        BY <2>1, <3>1, <4>1
      <4>3. names[i] \in Seq(Nat) /\ names[j - 1] \in Seq(Nat) /\ names[j] \in Seq(Nat)
        BY <1>2, <3>2 DEF Name
      <4> QED BY <3>3, <4>2, <4>3, PartsTransitive
    <3> QED BY <3>4, <3>5
  <2>2. 0 \in W
    BY <1>1
  <2>3. \A j \in 0..n : j \in W
    <3> HIDE DEF W
    <3> QED BY <1>1, <2>1, <2>2, BoundedInduction
  <2> QED BY <1>1, <2>3
<1>5. \A i, j \in 1..n : i < j => Lexicographic(Bytes(names[i]), Bytes(names[j]))
  BY <1>2, <1>4, BytesAscend
<1> QED BY <1>1, <1>2, <1>5 DEF Sorted

\* A closed object has exactly its members.
LEMMA FieldsPass ==
  ASSUME NEW record, NEW required, NEW error, NEW unsupported, error # "none", unsupported # "none",
         FieldsError(record, required, error, unsupported) = "none"
  PROVE  record # Malformed /\ DOMAIN record = required
<1> DEFINE tests == <<
    <<~ (required \subseteq DOMAIN record), error>>,
    <<~ (DOMAIN record \subseteq required), unsupported>> >>
<1>1. record # Malformed /\ FirstError(tests) = "none"
  BY DEF FieldsError
<1>2. DOMAIN tests = 1..2 /\ \A i \in DOMAIN tests : tests[i][1] => tests[i][2] # "none"
  OBVIOUS
<1>3. \A i \in DOMAIN tests : ~ tests[i][1]
  <2> HIDE DEF tests
  <2> QED BY <1>1, <1>2, FirstErrorNone
<1>4. ~ tests[1][1] /\ ~ tests[2][1]
  <2> HIDE DEF tests
  <2> QED BY <1>2, <1>3
<1> QED BY <1>1, <1>4

\* A list of classes that passes is sorted and known.
LEMMA ClassesPass ==
  ASSUME NEW names, NEW classes, NameList(classes), ClassesError(names, classes) = "none"
  PROVE  /\ classes # Malformed /\ Sorted(classes)
         /\ \A i \in DOMAIN classes : classes[i] \in names
<1>1. classes # Malformed /\ Ordered(classes) /\ \A i \in DOMAIN classes : classes[i] \in names
  BY DEF ClassesError
<1>2. classes \in Seq({Malformed} \cup Name)
  BY <1>1 DEF NameList
<1>3. IsList(classes) /\ \A i \in DOMAIN classes : classes[i] \in {Malformed} \cup Name
  BY <1>2 DEF IsList
<1> QED BY <1>1, <1>3, OrderedSorts

\* A catalog that passes is whole.
LEMMA CatalogPasses ==
  ASSUME NEW text, CatalogValue(text), CatalogError(text) = "none"
  PROVE  WholeCatalog(text)
<1> DEFINE errors == [i \in DOMAIN text |-> EntryError(text[i])]
           tests == [i \in DOMAIN text |-> <<errors[i] # "none", errors[i]>>]
<1>1. text # Malformed /\ FirstError(tests) = "none" /\ Ordered(ClassIds(text))
  BY DEF CatalogError
<1>2. IsList(text)
  BY <1>1 DEF CatalogValue
<1>3. DOMAIN tests = DOMAIN text /\ DOMAIN tests \subseteq Nat
  BY <1>2 DEF IsList
<1>4. \A i \in DOMAIN text : ~ tests[i][1]
  <2>1. \A i \in DOMAIN tests : tests[i][1] => tests[i][2] # "none"
    OBVIOUS
  <2> HIDE DEF tests
  <2> QED BY <1>1, <1>3, <2>1, FirstErrorNone
<1>5. \A i \in DOMAIN text : EntryError(text[i]) = "none"
  BY <1>4
<1>6. ASSUME NEW i \in DOMAIN text PROVE text[i].id \in {Malformed} \cup Name
  <2>1. FieldsError(text[i], {"id", "classification", "label", "description"},
                    "invalid_data_classes", "unsupported_data_classes") = "none"
    BY <1>5 DEF EntryError
  <2>2. text[i] # Malformed /\ "id" \in DOMAIN text[i]
    BY <2>1, FieldsPass
  <2> QED BY <1>1, <2>2 DEF CatalogValue
<1>7. Sorted(ClassIds(text))
  <2> DEFINE ids == ClassIds(text)
  <2>1. DOMAIN ids = 1..Len(text) /\ Len(text) \in Nat /\ \A i \in DOMAIN ids : ids[i] \in {Malformed} \cup Name
    BY <1>2, <1>6 DEF ClassIds, IsList
  <2>2. ids \in Seq({Malformed} \cup Name)
    <3>1. ids \in [1..Len(text) -> {Malformed} \cup Name]
      BY <2>1, <1>6 DEF ClassIds
    <3> QED BY <2>1, <3>1
  <2> HIDE DEF ids
  <2>3. IsList(ids)
    BY <2>2 DEF IsList
  <2> QED BY <1>1, <2>1, <2>3, OrderedSorts DEF ids
<1> QED BY <1>1, <1>5, <1>7 DEF WholeCatalog

\* An exposure that passes is one.
LEMMA RedactionPasses ==
  ASSUME NEW r, RedactionError(r) = "none"
  PROVE  r # Malformed /\ {"mode"} \subseteq DOMAIN r /\ IsRedaction(r)
<1>1. r # Malformed /\ "mode" \in DOMAIN r
  BY DEF RedactionError
<1>2. CASE r.mode = "none"
  <2> DEFINE tests == <<
    <<DOMAIN r \cap {"policy_id", "summary"} # {}, "invalid_data_exposure">>,
    <<DOMAIN r # {"mode"}, "unsupported_data_exposure">> >>
  <2>1. FirstError(tests) = "none"
    BY <1>1, <1>2 DEF RedactionError
  <2>2. DOMAIN tests = 1..2 /\ \A i \in DOMAIN tests : tests[i][1] => tests[i][2] # "none"
    OBVIOUS
  <2>3. \A i \in DOMAIN tests : ~ tests[i][1]
    <3> HIDE DEF tests
    <3> QED BY <2>1, <2>2, FirstErrorNone
  <2>4. ~ tests[2][1]
    <3> HIDE DEF tests
    <3> QED BY <2>2, <2>3
  <2> QED BY <1>1, <1>2, <2>4 DEF IsRedaction
<1>3. CASE r.mode = "policy"
  <2>1. /\ FieldsError(r, {"mode", "policy_id", "summary"},
                       "invalid_data_exposure", "unsupported_data_exposure") = "none"
        /\ Texts(r, {"policy_id", "summary"})
    BY <1>1, <1>3 DEF RedactionError
  <2>2. DOMAIN r = {"mode", "policy_id", "summary"}
    BY <2>1, FieldsPass
  <2> QED BY <1>1, <1>3, <2>1, <2>2 DEF IsRedaction
<1>4. r.mode = "none" \/ r.mode = "policy"
  BY <1>1 DEF RedactionError
<1> QED BY <1>2, <1>3, <1>4

\* A retention without an error is one of the three kinds that the type declares.
LEMMA RetentionPasses ==
  ASSUME NEW r, RetentionError(r) = "none",
         r # Malformed => /\ "max_seconds" \in DOMAIN r => r.max_seconds \in {Malformed} \cup Nat
                          /\ "delete_on_grant_end" \in DOMAIN r =>
                               r.delete_on_grant_end \in {Malformed} \cup BOOLEAN
  PROVE  r # Malformed /\ {"mode"} \subseteq DOMAIN r /\ IsRetention(r)
<1>1. r # Malformed /\ "mode" \in DOMAIN r
  BY DEF RetentionError
<1>2. CASE r.mode = "user_managed"
  BY <1>1, <1>2 DEF RetentionError, IsRetention
<1>3. CASE r.mode \in {"transient", "bounded"}
  <2>1. /\ FieldsError(r, RetentionFields(r), "invalid_data_exposure", "unsupported_data_exposure") = "none"
        /\ r.mode = "bounded" => r.max_seconds # Malformed /\ r.max_seconds # 0
        /\ r.delete_on_grant_end # Malformed
    BY <1>1, <1>3 DEF RetentionError
  <2>2. DOMAIN r = RetentionFields(r)
    BY <2>1, FieldsPass
  <2>3. CASE r.mode = "transient"
    <3>1. DOMAIN r = {"mode", "delete_on_grant_end"}
      BY <2>2, <2>3 DEF RetentionFields
    <3>2. r.delete_on_grant_end \in BOOLEAN
      BY <1>1, <2>1, <3>1
    <3> QED BY <1>1, <2>3, <3>1, <3>2 DEF IsRetention
  <2>4. CASE r.mode = "bounded"
    <3>1. DOMAIN r = {"mode", "max_seconds", "delete_on_grant_end"}
      BY <2>2, <2>4 DEF RetentionFields
    <3>2. r.delete_on_grant_end \in BOOLEAN /\ r.max_seconds \in Nat \ {0}
      BY <1>1, <2>1, <2>4, <3>1
    <3> QED BY <1>1, <2>4, <3>1, <3>2 DEF IsRetention
  <2> QED BY <1>3, <2>3, <2>4
<1>4. r.mode = "user_managed" \/ r.mode \in {"transient", "bounded"}
  BY <1>1 DEF RetentionError
<1> QED BY <1>2, <1>3, <1>4

\* An exposure without an error is whole, and names classes that are known.
LEMMA ExposurePasses ==
  ASSUME NEW names, NEW e, ExposureValue(e), ExposureError(names, e) = "none"
  PROVE  IsExposure(names, e)
<1> DEFINE classes == ClassesError(names, e.classes)
           redaction == RedactionError(e.redaction)
           retention == RetentionError(e.retention)
           tests == << <<classes # "none", "invalid_data_exposure">>,
                       <<redaction # "none", redaction>>, <<retention # "none", retention>> >>
<1>1. /\ FieldsError(e, {"classes", "redaction", "retention"},
                     "invalid_data_exposure", "unsupported_data_exposure") = "none"
      /\ FirstError(tests) = "none"
  BY DEF ExposureError
<1>2. e # Malformed /\ DOMAIN e = {"classes", "redaction", "retention"}
  BY <1>1, FieldsPass
<1> HIDE DEF classes, redaction, retention
<1>3. DOMAIN tests = 1..3 /\ \A i \in DOMAIN tests : tests[i][1] => tests[i][2] # "none"
  <2> DEFINE Named(i) == tests[i][1] => tests[i][2] # "none"
  <2>1. Named(1) /\ Named(2) /\ Named(3)
    OBVIOUS
  <2>2. DOMAIN tests = 1..3
    OBVIOUS
  <2> HIDE DEF Named, tests
  <2>3. \A i \in DOMAIN tests : Named(i)
    BY <2>1, <2>2
  <2> QED BY <2>2, <2>3 DEF Named
<1>4. \A i \in DOMAIN tests : ~ tests[i][1]
  <2> HIDE DEF tests
  <2> QED BY <1>1, <1>3, FirstErrorNone
<1>5. ~ tests[1][1] /\ ~ tests[2][1] /\ ~ tests[3][1]
  <2> HIDE DEF tests
  <2> QED BY <1>3, <1>4
<1>6. /\ ClassesError(names, e.classes) = "none"
      /\ RedactionError(e.redaction) = "none" /\ RetentionError(e.retention) = "none"
  BY <1>5 DEF classes, redaction, retention
<1>7. /\ e.classes # Malformed /\ Sorted(e.classes)
      /\ \A i \in DOMAIN e.classes : e.classes[i] \in names
  BY <1>2, <1>6, ClassesPass DEF ExposureValue
<1>8. e.redaction # Malformed /\ {"mode"} \subseteq DOMAIN e.redaction /\ IsRedaction(e.redaction)
  BY <1>6, RedactionPasses
<1>9. e.retention # Malformed /\ {"mode"} \subseteq DOMAIN e.retention /\ IsRetention(e.retention)
  BY <1>2, <1>6, RetentionPasses DEF ExposureValue
<1> QED BY <1>2, <1>7, <1>8, <1>9 DEF IsExposure

\* A source of a manifest that passes is new and has an exposure.
LEMMA SourcePasses ==
  ASSUME NEW names, NEW list, NEW i, SourceError(names, list, i) = "none"
  PROVE  /\ \A j \in 1..(i - 1) : list[j].id # list[i].id
         /\ "data_exposure" \in DOMAIN list[i]
         /\ ExposureError(names, list[i].data_exposure) = "none"
<1> DEFINE doubled == list[i].id = Malformed \/ (\E j \in 1..(i - 1) : list[j].id = list[i].id)
           bare == "data_exposure" \notin DOMAIN list[i]
           exposed == "data_exposure" \in DOMAIN list[i] /\ ExposureError(names, list[i].data_exposure) # "none"
           tests == << <<doubled, "invalid_manifest_exposure">>, <<bare, "invalid_manifest_exposure">>,
                       <<exposed, "invalid_data_exposure">> >>
<1>1. FirstError(tests) = "none"
  BY DEF SourceError
<1> HIDE DEF doubled, bare, exposed
<1>2. DOMAIN tests = 1..3 /\ \A k \in DOMAIN tests : tests[k][2] # "none"
  OBVIOUS
<1>3. \A k \in DOMAIN tests : ~ tests[k][1]
  <2> HIDE DEF tests
  <2> QED BY <1>1, <1>2, FirstErrorNone
<1>4. ~ tests[1][1] /\ ~ tests[2][1] /\ ~ tests[3][1]
  <2> HIDE DEF tests
  <2> QED BY <1>2, <1>3
<1>5. ~ doubled /\ ~ bare /\ ~ exposed
  BY <1>4
<1> QED BY <1>5 DEF doubled, bare, exposed

\* So does a list of sources, each of which has an identifier of its own.
LEMMA ListPasses ==
  ASSUME NEW names, NEW list, ListError(names, list) = "none", IsList(list),
         \A i \in DOMAIN list : "data_exposure" \in DOMAIN list[i] => ExposureValue(list[i].data_exposure)
  PROVE  \A i \in DOMAIN list :
           /\ IsExposure(names, list[i].data_exposure)
           /\ \A j \in DOMAIN list : list[j].id = list[i].id => j = i
<1> DEFINE tests == [i \in DOMAIN list |->
             <<SourceError(names, list, i) # "none", SourceError(names, list, i)>>]
<1>1. Len(list) \in Nat /\ DOMAIN list = 1..Len(list)
  BY DEF IsList
<1>2. \A i \in DOMAIN list : SourceError(names, list, i) = "none"
  <2>1. list # Malformed => FirstError(tests) = "none"
    BY DEF ListError
  <2>2. list # Malformed
    BY DEF ListError
  <2>3. DOMAIN tests = DOMAIN list /\ \A i \in DOMAIN tests : tests[i][1] => tests[i][2] # "none"
    OBVIOUS
  <2>4. \A i \in DOMAIN tests : ~ tests[i][1]
    <3>1. DOMAIN tests \subseteq Nat
      BY <1>1, <2>3
    <3> HIDE DEF tests
    <3> QED BY <2>1, <2>2, <2>3, <3>1, FirstErrorNone
  <2> QED BY <2>3, <2>4
<1>3. \A i \in DOMAIN list :
        /\ \A j \in 1..(i - 1) : list[j].id # list[i].id
        /\ "data_exposure" \in DOMAIN list[i]
        /\ ExposureError(names, list[i].data_exposure) = "none"
  BY <1>2, SourcePasses
<1>4. \A i \in DOMAIN list : IsExposure(names, list[i].data_exposure)
  BY <1>3, ExposurePasses
<1>5. ASSUME NEW i \in DOMAIN list, NEW j \in DOMAIN list, list[j].id = list[i].id PROVE j = i
  <2>1. j \in 1..(i - 1) \/ i \in 1..(j - 1) \/ j = i
    BY <1>1
  <2> QED BY <1>3, <1>5, <2>1
<1> QED BY <1>4, <1>5

\* A manifest that passes is covered by its catalog.
LEMMA ManifestCoverage ==
  ASSUME NEW manifest, ManifestValue(manifest), ManifestExposureError(manifest) = "none"
  PROVE  /\ WholeCatalog(manifest.data_classes)
         /\ \A kind \in DOMAIN manifest.sources : LET list == manifest.sources[kind] IN
              \A i \in DOMAIN list :
                /\ IsExposure(Names(manifest.data_classes), list[i].data_exposure)
                /\ \A j \in DOMAIN list : list[j].id = list[i].id => j = i
<1> DEFINE names == Names(manifest.data_classes)
           Error(kind) == ListError(names, manifest.sources[kind])
           tests == [k \in DOMAIN Kinds |-> <<Error(Kinds[k]) # "none", Error(Kinds[k])>>]
<1>1. /\ manifest.data_classes # Malformed
      /\ CatalogError(manifest.data_classes) = "none"
      /\ FirstError(tests) = "none"
  BY DEF ManifestExposureError
<1> HIDE DEF Error
<1>2. WholeCatalog(manifest.data_classes)
  BY <1>1, CatalogPasses DEF ManifestValue
<1>3. DOMAIN Kinds = 1..3
  BY DEF Kinds
<1>4. \A k \in 1..3 : ~ tests[k][1]
  <2>1. DOMAIN tests = 1..3 /\ \A k \in DOMAIN tests : tests[k][1] => tests[k][2] # "none"
    BY <1>3
  <2> HIDE DEF tests
  <2> QED BY <1>1, <2>1, FirstErrorNone
<1>5. \A k \in 1..3 : Error(Kinds[k]) = "none"
  BY <1>3, <1>4
<1>6. Error("resources") = "none" /\ Error("actions") = "none" /\ Error("events") = "none"
  <2>1. Error(Kinds[1]) = "none" /\ Error(Kinds[2]) = "none" /\ Error(Kinds[3]) = "none"
    BY <1>5
  <2> QED BY <2>1 DEF Kinds
<1>7. ASSUME NEW kind \in DOMAIN manifest.sources
      PROVE  \A i \in DOMAIN manifest.sources[kind] :
               /\ IsExposure(names, manifest.sources[kind][i].data_exposure)
               /\ \A j \in DOMAIN manifest.sources[kind] :
                    manifest.sources[kind][j].id = manifest.sources[kind][i].id => j = i
  <2> DEFINE list == manifest.sources[kind]
  <2>1. ListError(names, list) = "none"
    <3>1. kind \in {"resources", "actions", "events"}
      BY DEF ManifestValue
    <3> QED BY <1>6, <3>1 DEF Error
  <2>2. list # Malformed
    BY <2>1 DEF ListError
  <2>3. /\ IsList(list)
        /\ \A i \in DOMAIN list : "data_exposure" \in DOMAIN list[i] => ExposureValue(list[i].data_exposure)
    BY <2>2 DEF ManifestValue
  <2> HIDE DEF list, names
  <2>4. \A i \in DOMAIN list :
          /\ IsExposure(names, list[i].data_exposure)
          /\ \A j \in DOMAIN list : list[j].id = list[i].id => j = i
    BY <2>1, <2>3, ListPasses
  <2> QED BY <2>4 DEF list
<1> QED BY <1>2, <1>7

\* The text of a catalog is the one it was constructed with.
ClassesInv == catalogText \in CatalogTexts /\ CatalogIsWhole

\* A catalog has published nothing when it is constructed.
LEMMA ClassesInitial == CatalogInit => ClassesInv
  BY DEF CatalogInit, ClassesInv, CatalogIsWhole, ManifestCovered

\* What is published is the whole catalog, now or before.
LEMMA PublishesWhole ==
  ASSUME ClassesInv, Publish
  PROVE  WholeCatalog(catalogText) /\ known' = Names(catalogText)
<1>1. CASE known = Unpublished
  <2>1. CatalogError(catalogText) = "none" /\ known' = Names(catalogText) /\ CatalogValue(catalogText)
    BY <1>1, ClassesAssumption DEF ClassesInv, Publish
  <2> QED BY <2>1, CatalogPasses
<1>2. CASE known # Unpublished
  BY <1>2 DEF ClassesInv, CatalogIsWhole, Publish
<1> QED BY <1>1, <1>2

\* Every call keeps it.
LEMMA ClassesStep == ClassesInv /\ [PublishingNext \/ ManifestNext]_classesOf => ClassesInv'
<1> SUFFICES ASSUME ClassesInv, [PublishingNext \/ ManifestNext]_classesOf PROVE ClassesInv'
  OBVIOUS
<1>1. CASE ValidateCatalog
  <2>1. WholeCatalog(catalogText) /\ known' = Names(catalogText)
    BY <1>1, PublishesWhole DEF ValidateCatalog
  <2>2. UNCHANGED <<catalogText, covered, accepted>>
    BY <1>1 DEF ValidateCatalog
  <2> QED BY <2>1, <2>2 DEF ClassesInv, CatalogIsWhole, ManifestCovered
<1>2. ASSUME NEW classes \in ClassLists, ValidateClasses(classes) PROVE ClassesInv'
  <2>1. WholeCatalog(catalogText) /\ known' = Names(catalogText)
    BY <1>2, PublishesWhole DEF ValidateClasses
  <2>2. /\ UNCHANGED <<catalogText, accepted>>
        /\ covered' = IF ClassesError(known', classes) = "none" THEN classes ELSE covered
    BY <1>2 DEF ValidateClasses
  <2>3. (covered # <<>> => Sorted(covered) /\ \A i \in DOMAIN covered : covered[i] \in Names(catalogText))'
    <3>1. CASE ClassesError(known', classes) = "none"
      <4>1. Sorted(classes) /\ \A i \in DOMAIN classes : classes[i] \in known'
        BY <3>1, ClassesPass, ClassesAssumption
      <4>2. covered' = classes
        BY <2>2, <3>1
      <4> QED BY <2>1, <2>2, <4>1, <4>2
    <3>2. CASE ClassesError(known', classes) # "none"
      BY <2>2, <3>2 DEF ClassesInv, CatalogIsWhole
    <3> QED BY <3>1, <3>2
  <2> QED BY <2>1, <2>2, <2>3 DEF ClassesInv, CatalogIsWhole, ManifestCovered
<1>3. ASSUME NEW manifest \in Manifests, ValidateManifest(manifest) PROVE ClassesInv'
  <2>1. ManifestExposureError(manifest) = "none" /\ accepted' = manifest
        /\ UNCHANGED <<catalogText, known, covered>>
    BY <1>3 DEF ValidateManifest
  <2>2. ManifestCovered'
    <3>1. ManifestValue(manifest)
      BY ClassesAssumption
    <3> QED BY <2>1, <3>1, ManifestCoverage DEF ManifestCovered
  <2> QED BY <2>1, <2>2 DEF ClassesInv, CatalogIsWhole
<1>4. CASE UNCHANGED classesOf
  BY <1>4 DEF ClassesInv, CatalogIsWhole, ManifestCovered, classesOf
<1> QED BY <1>1, <1>2, <1>3, <1>4 DEF PublishingNext, ManifestNext

\* For every catalog, lists of classes and manifests: what a catalog publishes is
\* all of a whole catalog, in the order of its names as UTF-8 texts, and whatever
\* it or a manifest's validation lets pass is covered by it.
THEOREM CatalogStaysWhole == ClassesSpec => []CatalogIsWhole
<1>1. ClassesInv => CatalogIsWhole
  BY DEF ClassesInv
<1> QED BY <1>1, ClassesInitial, ClassesStep, PTL DEF ClassesSpec

-----------------------------------------------------------------------------
(***************************************************************************)
(* The checks of a catalog and of an exposure are exact: what is whole is  *)
(* never refused. The order of the names' texts leads back to that of the  *)
(* names, as of two different names one comes before the other.            *)
(***************************************************************************)
\* Two different sequences part somewhere.
LEMMA PartSomewhere ==
  ASSUME NEW s \in Seq(Nat), NEW t \in Seq(Nat), s # t
  PROVE  Lexicographic(s, t) \/ Lexicographic(t, s)
<1> DEFINE T == {i \in Nat : i \in 1..Len(s) /\ i \in 1..Len(t) /\ s[i] # t[i]}
<1>1. /\ Len(s) \in Nat /\ Len(t) \in Nat /\ DOMAIN s = 1..Len(s) /\ DOMAIN t = 1..Len(t)
      /\ \A i \in 1..Len(s) : s[i] \in Nat
      /\ \A i \in 1..Len(t) : t[i] \in Nat
  OBVIOUS
<1> SUFFICES \E i : PartAt(s, t, i) \/ PartAt(t, s, i)
  BY LexicographicParts
<1>2. CASE T # {}
  <2>1. T \in SUBSET Nat
    OBVIOUS
  <2>2. PICK i \in T : \A j \in T : i <= j
    <3> HIDE DEF T
    <3> QED BY <1>2, <2>1, LeastNat
  <2>3. i \in 1..Len(s) /\ i \in 1..Len(t) /\ s[i] # t[i] /\ i \in Nat
    OBVIOUS
  <2>4. ASSUME NEW j \in 1..(i - 1) PROVE s[j] = t[j]
    <3>1. j \in Nat /\ j \in 1..Len(s) /\ j \in 1..Len(t) /\ ~ (i <= j)
      BY <1>1, <2>3
    <3> QED BY <2>2, <3>1
  <2>5. s[i] < t[i] \/ t[i] < s[i]
    BY <1>1, <2>3
  <2>6. i <= Len(s) + 1 /\ i <= Len(t) + 1
    BY <1>1, <2>3
  <2> QED BY <2>3, <2>4, <2>5, <2>6 DEF PartAt
<1>3. CASE T = {}
  <2>1. \A i \in 1..Len(s) : i \in 1..Len(t) => s[i] = t[i]
    <3> SUFFICES ASSUME NEW i \in 1..Len(s), i \in 1..Len(t), s[i] # t[i] PROVE FALSE
      OBVIOUS
    <3>1. i \in Nat
      BY <1>1
    <3> QED BY <1>3, <3>1
  <2>2. Len(s) # Len(t)
    <3> SUFFICES ASSUME Len(s) = Len(t) PROVE FALSE
      OBVIOUS
    <3> QED BY <1>1, <2>1, SeqEqual
  <2>3. CASE Len(s) < Len(t)
    <3>1. Len(s) + 1 \in 1..Len(t) /\ ~ (Len(s) + 1 <= Len(s)) /\ (Len(s) + 1) - 1 = Len(s)
      BY <1>1, <2>3
    <3>2. \A j \in 1..Len(s) : j \in 1..Len(t)
      BY <1>1, <2>3
    <3>3. PartAt(s, t, Len(s) + 1)
      BY <1>1, <2>1, <3>1, <3>2 DEF PartAt
    <3> QED BY <3>3
  <2>4. CASE Len(t) < Len(s)
    <3>1. Len(t) + 1 \in 1..Len(s) /\ ~ (Len(t) + 1 <= Len(t)) /\ (Len(t) + 1) - 1 = Len(t)
      BY <1>1, <2>4
    <3>2. \A j \in 1..Len(t) : j \in 1..Len(s)
      BY <1>1, <2>4
    <3>3. PartAt(t, s, Len(t) + 1)
      BY <1>1, <2>1, <3>1, <3>2 DEF PartAt
    <3> QED BY <3>3
  <2>5. Len(s) < Len(t) \/ Len(t) < Len(s)
    <3>1. \A m, l \in Nat : m # l => m < l \/ l < m
      OBVIOUS
    <3> QED BY <1>1, <2>2, <3>1, Zenon
  <2> QED BY <2>3, <2>4, <2>5
<1> QED BY <1>2, <1>3

\* No sequence comes before another one and after it, or before itself.
LEMMA PartsOppose ==
  ASSUME NEW s \in Seq(Nat), NEW t \in Seq(Nat), Lexicographic(s, t)
  PROVE  ~ Lexicographic(t, s) /\ s # t
<1>1. /\ Len(s) \in Nat /\ Len(t) \in Nat
      /\ \A i \in 1..Len(s) : s[i] \in Nat
      /\ \A i \in 1..Len(t) : t[i] \in Nat
  OBVIOUS
<1>2. PICK i : PartAt(s, t, i)
  BY LexicographicParts
<1>3. ASSUME NEW j, PartAt(t, s, j) PROVE FALSE
  <2>1. i \in 1..Len(t) /\ i <= Len(s) + 1 /\ j \in 1..Len(s) /\ j <= Len(t) + 1
    BY <1>2, <1>3 DEF PartAt
  <2>2. i \in Nat /\ j \in Nat
    BY <1>1, <2>1
  <2>3. CASE i < j
    <3>1. i \in 1..(j - 1) /\ i <= Len(s) /\ i \in 1..Len(s)
      BY <1>1, <2>1, <2>2, <2>3
    <3>2. t[i] = s[i] /\ s[i] < t[i]
      BY <1>2, <1>3, <3>1 DEF PartAt
    <3> QED BY <1>1, <3>1, <3>2
  <2>4. CASE j < i
    <3>1. j \in 1..(i - 1) /\ j <= Len(t) /\ j \in 1..Len(t)
      BY <1>1, <2>1, <2>2, <2>4
    <3>2. s[j] = t[j] /\ t[j] < s[j]
      BY <1>2, <1>3, <3>1 DEF PartAt
    <3> QED BY <1>1, <2>1, <3>1, <3>2
  <2>5. CASE i = j
    <3>1. i <= Len(s) /\ i <= Len(t) /\ i \in 1..Len(s) /\ i \in 1..Len(t)
      BY <1>1, <2>1, <2>5
    <3>2. s[i] < t[i] /\ t[i] < s[i]
      BY <1>2, <1>3, <2>5, <3>1 DEF PartAt
    <3> QED BY <1>1, <3>1, <3>2
  <2> QED BY <2>2, <2>3, <2>4, <2>5
<1>4. ~ Lexicographic(t, s)
  BY <1>3, LexicographicParts
<1> QED BY <1>4

\* The text of a name is a sequence of numbers.
LEMMA BytesAreBytes ==
  ASSUME NEW name \in Name
  PROVE  Bytes(name) \in Seq(Nat)
<1>1. PICK G : Flattens(G, name)
  BY BytesFlatten
<1>2. Len(name) \in 0..Len(name)
  BY DEF Name
<1> QED BY <1>1, <1>2 DEF Flattens

\* Names whose texts are sorted pass the comparison of neighbours.
LEMMA SortedOrders ==
  ASSUME NEW names, IsList(names), \A i \in DOMAIN names : names[i] \in {Malformed} \cup Name,
         Sorted(names)
  PROVE  Ordered(names)
<1>1. Len(names) \in Nat /\ DOMAIN names = 1..Len(names)
  BY DEF IsList
<1>2. \A i \in DOMAIN names : names[i] # Malformed /\ names[i] \in Name
  BY DEF Sorted
<1>3. ASSUME NEW i \in DOMAIN names, i > 1 PROVE Lexicographic(names[i - 1], names[i])
  <2>1. i - 1 \in DOMAIN names /\ i - 1 < i
    BY <1>1, <1>3
  <2> DEFINE a == names[i - 1]
             b == names[i]
  <2>2. a \in Name /\ b \in Name /\ Lexicographic(Bytes(a), Bytes(b))
    BY <1>2, <2>1 DEF Sorted
  <2> HIDE DEF a, b
  <2>3. Bytes(a) \in Seq(Nat) /\ Bytes(b) \in Seq(Nat)
    BY <2>2, BytesAreBytes
  <2>4. ~ Lexicographic(Bytes(b), Bytes(a)) /\ Bytes(a) # Bytes(b)
    BY <2>2, <2>3, PartsOppose
  <2>5. a # b /\ ~ Lexicographic(b, a)
    BY <2>2, <2>4, BytesAscend
  <2>6. Lexicographic(a, b)
    BY <2>2, <2>5, PartSomewhere DEF Name
  <2> QED BY <2>6 DEF a, b
<1> QED BY <1>2, <1>3 DEF Ordered, Before

\* An object with exactly its members is closed.
LEMMA FieldsHold ==
  ASSUME NEW record, NEW required, NEW error, NEW unsupported,
         record # Malformed, DOMAIN record = required
  PROVE  FieldsError(record, required, error, unsupported) = "none"
<1> DEFINE tests == <<
    <<~ (required \subseteq DOMAIN record), error>>,
    <<~ (DOMAIN record \subseteq required), unsupported>> >>
<1>1. DOMAIN tests = 1..2
  OBVIOUS
<1>2. ~ tests[1][1] /\ ~ tests[2][1]
  OBVIOUS
<1>3. FirstError(tests) = "none"
  <2> HIDE DEF tests
  <2>1. \A i \in DOMAIN tests : ~ tests[i][1]
    BY <1>1, <1>2
  <2>2. DOMAIN tests \subseteq Nat
    BY <1>1
  <2> QED BY <2>1, <2>2, FirstErrorPasses
<1> QED BY <1>3 DEF FieldsError

\* Classes that are sorted and known pass.
LEMMA ClassesHold ==
  ASSUME NEW names, NEW classes, NameList(classes), classes # Malformed, Sorted(classes),
         \A i \in DOMAIN classes : classes[i] \in names
  PROVE  ClassesError(names, classes) = "none"
<1>1. classes \in Seq({Malformed} \cup Name)
  BY DEF NameList
<1>2. IsList(classes) /\ \A i \in DOMAIN classes : classes[i] \in {Malformed} \cup Name
  BY <1>1 DEF IsList
<1>3. Ordered(classes)
  BY <1>2, SortedOrders
<1> QED BY <1>3 DEF ClassesError

\* A catalog passes exactly if it is whole.
LEMMA CatalogJudged ==
  ASSUME NEW text, CatalogValue(text)
  PROVE  CatalogError(text) = "none" <=> WholeCatalog(text)
<1>1. CatalogError(text) = "none" => WholeCatalog(text)
  BY CatalogPasses
<1>2. ASSUME WholeCatalog(text) PROVE CatalogError(text) = "none"
  <2> DEFINE errors == [i \in DOMAIN text |-> EntryError(text[i])]
             tests == [i \in DOMAIN text |-> <<errors[i] # "none", errors[i]>>]
  <2>1. /\ text # Malformed /\ IsList(text) /\ Sorted(ClassIds(text))
        /\ \A i \in DOMAIN text : EntryError(text[i]) = "none"
    BY <1>2 DEF WholeCatalog, CatalogValue
  <2>2. DOMAIN tests \subseteq Nat
    BY <2>1 DEF IsList
  <2>3. \A i \in DOMAIN tests : ~ tests[i][1]
    BY <2>1
  <2>4. FirstError(tests) = "none"
    <3> HIDE DEF tests
    <3> QED BY <2>2, <2>3, FirstErrorPasses
  <2>5. ASSUME NEW i \in DOMAIN text PROVE text[i].id \in {Malformed} \cup Name
    <3>1. FieldsError(text[i], {"id", "classification", "label", "description"},
                      "invalid_data_classes", "unsupported_data_classes") = "none"
      BY <2>1 DEF EntryError
    <3>2. text[i] # Malformed /\ "id" \in DOMAIN text[i]
      BY <3>1, FieldsPass
    <3> QED BY <2>1, <3>2 DEF CatalogValue
  <2>6. Ordered(ClassIds(text))
    <3> DEFINE ids == ClassIds(text)
    <3>1. Len(text) \in Nat /\ DOMAIN text = 1..Len(text)
      BY <2>1 DEF IsList
    <3>2. ids \in [1..Len(text) -> {Malformed} \cup Name]
      BY <2>5, <3>1 DEF ClassIds
    <3>3. ids \in Seq({Malformed} \cup Name)
      BY <3>1, <3>2
    <3>4. Sorted(ids)
      BY <2>1
    <3> HIDE DEF ids
    <3>5. IsList(ids) /\ \A i \in DOMAIN ids : ids[i] \in {Malformed} \cup Name
      BY <3>3 DEF IsList
    <3>6. Ordered(ids)
      BY <3>4, <3>5, SortedOrders
    <3> QED BY <3>6 DEF ids
  <2> QED BY <2>1, <2>4, <2>6 DEF CatalogError
<1> QED BY <1>1, <1>2

\* A redaction of one of the two kinds passes.
LEMMA RedactionHolds ==
  ASSUME NEW r, r # Malformed, "mode" \in DOMAIN r, IsRedaction(r)
  PROVE  RedactionError(r) = "none"
<1>1. CASE r.mode = "none" /\ DOMAIN r = {"mode"}
  <2> DEFINE tests == <<
    <<DOMAIN r \cap {"policy_id", "summary"} # {}, "invalid_data_exposure">>,
    <<DOMAIN r # {"mode"}, "unsupported_data_exposure">> >>
  <2>1. DOMAIN tests = 1..2
    OBVIOUS
  <2>2. ~ tests[1][1] /\ ~ tests[2][1]
    BY <1>1
  <2>3. FirstError(tests) = "none"
    <3> HIDE DEF tests
    <3>1. \A i \in DOMAIN tests : ~ tests[i][1]
      BY <2>1, <2>2
    <3>2. DOMAIN tests \subseteq Nat
      BY <2>1
    <3> QED BY <3>1, <3>2, FirstErrorPasses
  <2> QED BY <1>1, <2>3 DEF RedactionError
<1>2. CASE r.mode = "policy" /\ DOMAIN r = {"mode", "policy_id", "summary"} /\ Texts(r, {"policy_id", "summary"})
  <2>1. FieldsError(r, {"mode", "policy_id", "summary"},
                    "invalid_data_exposure", "unsupported_data_exposure") = "none"
    BY <1>2, FieldsHold
  <2> QED BY <1>2, <2>1 DEF RedactionError
<1> QED BY <1>1, <1>2 DEF IsRedaction

\* A retention of one of the three kinds passes.
LEMMA RetentionHolds ==
  ASSUME NEW r, r # Malformed, "mode" \in DOMAIN r, IsRetention(r)
  PROVE  RetentionError(r) = "none"
<1>0. Malformed \notin Nat /\ Malformed \notin BOOLEAN
  BY ClassesAssumption
<1>1. CASE r.mode = "user_managed" /\ DOMAIN r = {"mode"}
  BY <1>1 DEF RetentionError
<1>2. CASE r.mode = "transient" /\ DOMAIN r = {"mode", "delete_on_grant_end"} /\ r.delete_on_grant_end \in BOOLEAN
  <2>1. RetentionFields(r) = DOMAIN r
    BY <1>2 DEF RetentionFields
  <2>2. FieldsError(r, RetentionFields(r), "invalid_data_exposure", "unsupported_data_exposure") = "none"
    BY <2>1, FieldsHold
  <2>3. r.delete_on_grant_end # Malformed
    BY <1>0, <1>2
  <2>4. "max_seconds" \notin DOMAIN r
    BY <1>2
  <2> QED BY <1>2, <2>2, <2>3, <2>4 DEF RetentionError
<1>3. CASE /\ r.mode = "bounded" /\ DOMAIN r = {"mode", "max_seconds", "delete_on_grant_end"}
           /\ r.max_seconds \in Nat \ {0} /\ r.delete_on_grant_end \in BOOLEAN
  <2>1. RetentionFields(r) = DOMAIN r
    BY <1>3 DEF RetentionFields
  <2>2. FieldsError(r, RetentionFields(r), "invalid_data_exposure", "unsupported_data_exposure") = "none"
    BY <2>1, FieldsHold
  <2>3. r.delete_on_grant_end # Malformed
    BY <1>0, <1>3
  <2>4. r.max_seconds # Malformed /\ r.max_seconds # 0
    BY <1>0, <1>3
  <2> QED BY <1>3, <2>2, <2>3, <2>4 DEF RetentionError
<1> QED BY <1>1, <1>2, <1>3 DEF IsRetention

\* An exposure passes exactly if it is whole and its classes are known.
LEMMA ExposureJudged ==
  ASSUME NEW names, NEW e, ExposureValue(e)
  PROVE  ExposureError(names, e) = "none" <=> IsExposure(names, e)
<1>1. ExposureError(names, e) = "none" => IsExposure(names, e)
  BY ExposurePasses
<1>2. ASSUME IsExposure(names, e) PROVE ExposureError(names, e) = "none"
  <2> DEFINE classes == ClassesError(names, e.classes)
             redaction == RedactionError(e.redaction)
             retention == RetentionError(e.retention)
             tests == << <<classes # "none", "invalid_data_exposure">>,
                         <<redaction # "none", redaction>>, <<retention # "none", retention>> >>
  <2>1. e # Malformed /\ DOMAIN e = {"classes", "redaction", "retention"}
    BY <1>2 DEF IsExposure
  <2>2. FieldsError(e, {"classes", "redaction", "retention"},
                    "invalid_data_exposure", "unsupported_data_exposure") = "none"
    BY <2>1, FieldsHold
  <2>3. classes = "none"
    <3>1. /\ NameList(e.classes) /\ e.classes # Malformed /\ Sorted(e.classes)
          /\ \A i \in DOMAIN e.classes : e.classes[i] \in names
      BY <1>2, <2>1 DEF IsExposure, ExposureValue
    <3> QED BY <3>1, ClassesHold
  <2>4. redaction = "none"
    <3>1. e.redaction # Malformed /\ "mode" \in DOMAIN e.redaction /\ IsRedaction(e.redaction)
      BY <1>2 DEF IsExposure
    <3> QED BY <3>1, RedactionHolds
  <2>5. retention = "none"
    <3>1. e.retention # Malformed /\ "mode" \in DOMAIN e.retention /\ IsRetention(e.retention)
      BY <1>2 DEF IsExposure
    <3> QED BY <3>1, RetentionHolds
  <2>6. FirstError(tests) = "none"
    <3> HIDE DEF classes, redaction, retention
    <3>1. DOMAIN tests = 1..3
      OBVIOUS
    <3>2. ~ tests[1][1] /\ ~ tests[2][1] /\ ~ tests[3][1]
      BY <2>3, <2>4, <2>5
    <3> HIDE DEF tests
    <3>3. \A i \in DOMAIN tests : ~ tests[i][1]
      BY <3>1, <3>2
    <3>4. DOMAIN tests \subseteq Nat
      BY <3>1
    <3> QED BY <3>3, <3>4, FirstErrorPasses
  <2> QED BY <2>2, <2>6 DEF ExposureError
<1> QED BY <1>1, <1>2

-----------------------------------------------------------------------------
(***************************************************************************)
(* The loops of prepare() over the declarations of an inventory and over   *)
(* the definitions of a catalog. Both gather what passes; a declaration    *)
(* passes just when it is sound by itself and its id is new.               *)
(***************************************************************************)
\* The turns of prepare() of an inventory: nothing, and then each declaration.
LEMMA DeclaresStep ==
  ASSUME NEW names, NEW base, NEW list, Len(list) \in Nat
  PROVE  /\ Declares(names, base, list)[0] = NothingDeclared
         /\ \A i \in 1..Len(list) : Declares(names, base, list)[i]
              = Declare(names, base, Declares(names, base, list)[i-1], list[i])
<1> DEFINE n == Len(list)
           Turn(s, i) == Declare(names, base, s, list[i])
           Rec(g, k) == g = [i \in 0..k |-> IF i = 0 THEN NothingDeclared ELSE Turn(g[i-1], i)]
           T == {k \in Nat : \E g : Rec(g, k)}
<1>1. 0 \in T
  <2>1. Rec([i \in 0..0 |-> NothingDeclared], 0)
    OBVIOUS
  <2> QED BY <2>1
<1>2. ASSUME NEW k \in Nat, NEW g, Rec(g, k) PROVE \E h : Rec(h, k+1)
  <2> HIDE DEF Turn
  <2> DEFINE h == [i \in 0..(k+1) |-> IF i = k+1 THEN Turn(g[k], i) ELSE g[i]]
  <2>1. ASSUME NEW i \in 0..k PROVE g[i] = IF i = 0 THEN NothingDeclared ELSE Turn(g[i-1], i)
    BY <1>2
  <2>2. ASSUME NEW i \in 0..(k+1) PROVE h[i] = IF i = 0 THEN NothingDeclared ELSE Turn(h[i-1], i)
    <3>1. CASE i = k+1
      BY <3>1
    <3>2. CASE i # k+1
      <4>1. i \in 0..k /\ (i # 0 => i-1 \in 0..(k+1) /\ i-1 # k+1)
        BY <3>2
      <4> QED BY <2>1, <4>1, <3>2
    <3> QED BY <3>1, <3>2
  <2>3. h = [i \in 0..(k+1) |-> IF i = 0 THEN NothingDeclared ELSE Turn(h[i-1], i)]
    BY <2>2
  <2> QED BY <2>3
<1>3. n \in T
  <2>1. \A k \in T : k+1 \in T
    BY <1>2
  <2> HIDE DEF T
  <2> QED BY <1>1, <2>1, Induction DEF T
<1>4. \E g : Rec(g, n)
  BY <1>3
<1>5. Declares(names, base, list)
        = [i \in 0..n |-> IF i = 0 THEN NothingDeclared
                          ELSE Declare(names, base, Declares(names, base, list)[i-1], list[i])]
  BY <1>4 DEF Declares
<1> HIDE DEF n
<1> QED BY <1>5 DEF n

\* The turns of prepare() of a catalog: nothing, and then each definition.
LEMMA CollectsStep ==
  ASSUME NEW names, NEW base, NEW list, Len(list) \in Nat
  PROVE  /\ Collects(names, base, list)[0] = NothingDeclared
         /\ \A i \in 1..Len(list) : Collects(names, base, list)[i]
              = Collect(names, base, Collects(names, base, list)[i-1], list[i])
<1> DEFINE n == Len(list)
           Turn(s, i) == Collect(names, base, s, list[i])
           Rec(g, k) == g = [i \in 0..k |-> IF i = 0 THEN NothingDeclared ELSE Turn(g[i-1], i)]
           T == {k \in Nat : \E g : Rec(g, k)}
<1>1. 0 \in T
  <2>1. Rec([i \in 0..0 |-> NothingDeclared], 0)
    OBVIOUS
  <2> QED BY <2>1
<1>2. ASSUME NEW k \in Nat, NEW g, Rec(g, k) PROVE \E h : Rec(h, k+1)
  <2> HIDE DEF Turn
  <2> DEFINE h == [i \in 0..(k+1) |-> IF i = k+1 THEN Turn(g[k], i) ELSE g[i]]
  <2>1. ASSUME NEW i \in 0..k PROVE g[i] = IF i = 0 THEN NothingDeclared ELSE Turn(g[i-1], i)
    BY <1>2
  <2>2. ASSUME NEW i \in 0..(k+1) PROVE h[i] = IF i = 0 THEN NothingDeclared ELSE Turn(h[i-1], i)
    <3>1. CASE i = k+1
      BY <3>1
    <3>2. CASE i # k+1
      <4>1. i \in 0..k /\ (i # 0 => i-1 \in 0..(k+1) /\ i-1 # k+1)
        BY <3>2
      <4> QED BY <2>1, <4>1, <3>2
    <3> QED BY <3>1, <3>2
  <2>3. h = [i \in 0..(k+1) |-> IF i = 0 THEN NothingDeclared ELSE Turn(h[i-1], i)]
    BY <2>2
  <2> QED BY <2>3
<1>3. n \in T
  <2>1. \A k \in T : k+1 \in T
    BY <1>2
  <2> HIDE DEF T
  <2> QED BY <1>1, <2>1, Induction DEF T
<1>4. \E g : Rec(g, n)
  BY <1>3
<1>5. Collects(names, base, list)
        = [i \in 0..n |-> IF i = 0 THEN NothingDeclared
                          ELSE Collect(names, base, Collects(names, base, list)[i-1], list[i])]
  BY <1>4 DEF Collects
<1> HIDE DEF n
<1> QED BY <1>5 DEF n

\* What k declarations that passed leave: their schemas one after the other, and
\* an action for each, whose schemas are named after the base.
Gathered(base, list, G, k, s) ==
  /\ DOMAIN s = DOMAIN NothingDeclared
  /\ s.resources = G[k]
  /\ DOMAIN s.actions = {list[i].id : i \in 1..k}
  /\ \A id \in DOMAIN s.actions : s.actions[id].input[1] = base /\ s.actions[id].output[1] = base
  /\ \A i, j \in 1..k : list[i].id = list[j].id => i = j

\* The schemas of the actions that are to be gathered, and the turns of a loop in
\* which a declaration passes if it is fine by itself and its id is new.
Gathers(base, list, pairs, G, fine, errors, after) ==
  /\ Len(list) \in Nat
  /\ G[0] = <<>>
  /\ \A m \in 1..Len(list) : G[m] = G[m - 1] \o <<pairs[m].input, pairs[m].output>>
  /\ \A m \in 1..Len(list) : pairs[m].input.uri[1] = base /\ pairs[m].output.uri[1] = base
  /\ after[0] = NothingDeclared
  /\ \A m \in 1..Len(list) :
       after[m] = IF after[m-1].error # "none" THEN after[m-1]
                  ELSE Gather(after[m-1], errors[m], list[m], pairs[m])
  /\ \A m \in 1..Len(list) :
       after[m-1].error = "none" =>
         (errors[m] = "none" <=> m \in fine /\ list[m].id \notin DOMAIN after[m-1].actions)

\* A declaration that passes is gathered.
LEMMA GatherStep ==
  ASSUME NEW base, NEW list, NEW pairs, NEW G, NEW fine, NEW errors, NEW after,
         Gathers(base, list, pairs, G, fine, errors, after),
         NEW k \in 1..Len(list), NEW s, Gathered(base, list, G, k - 1, s),
         list[k].id \notin DOMAIN s.actions
  PROVE  LET t == Gather(s, "none", list[k], pairs[k]) IN
         t.error = "none" /\ Gathered(base, list, G, k, t)
<1> DEFINE d == list[k]
           t == Gather(s, "none", d, pairs[k])
<1>1. Len(list) \in Nat /\ k \in Nat /\ k - 1 \in 0..Len(list) /\ 1..k = 1..(k - 1) \cup {k}
  BY DEF Gathers
<1>2. /\ t.error = "none" /\ DOMAIN t = DOMAIN NothingDeclared
      /\ t.resources = s.resources \o <<pairs[k].input, pairs[k].output>>
      /\ DOMAIN t.actions = DOMAIN s.actions \cup {d.id}
      /\ t.actions[d.id].input = pairs[k].input.uri /\ t.actions[d.id].output = pairs[k].output.uri
      /\ \A id \in DOMAIN s.actions : id # d.id => t.actions[id] = s.actions[id]
  BY DEF Gather, NothingDeclared
<1> HIDE DEF t
<1>3. t.resources = G[k]
  BY <1>2 DEF Gathered, Gathers
<1>4. DOMAIN t.actions = {list[i].id : i \in 1..k}
  BY <1>1, <1>2 DEF Gathered
<1>5. ASSUME NEW id \in DOMAIN t.actions PROVE t.actions[id].input[1] = base /\ t.actions[id].output[1] = base
  <2>1. CASE id = d.id
    BY <1>2, <2>1 DEF Gathers
  <2>2. CASE id # d.id
    BY <1>2, <2>2 DEF Gathered
  <2> QED BY <2>1, <2>2
<1>6. ASSUME NEW i \in 1..k, NEW j \in 1..k, list[i].id = list[j].id PROVE i = j
  <2>1. \A l \in 1..(k - 1) : list[l].id # d.id
    BY DEF Gathered
  <2>2. CASE i = k \/ j = k
    BY <1>1, <1>6, <2>1, <2>2
  <2>3. CASE i # k /\ j # k
    <3>1. i \in 1..(k - 1) /\ j \in 1..(k - 1)
      BY <1>1, <2>3
    <3> QED BY <1>6, <3>1 DEF Gathered
  <2> QED BY <2>2, <2>3
<1>7. Gathered(base, list, G, k, t)
  BY <1>2, <1>3, <1>4, <1>5, <1>6 DEF Gathered
<1> QED BY <1>2, <1>7 DEF t

\* After any number of turns the loop holds what passed, all of it fine, or has
\* given up on a list in which something is not, or some id comes twice.
LEMMA GatherJudges ==
  ASSUME NEW base, NEW list, NEW pairs, NEW G, NEW fine, NEW errors, NEW after,
         Gathers(base, list, pairs, G, fine, errors, after)
  PROVE  \A k \in 0..Len(list) :
           /\ after[k].error = "none" => Gathered(base, list, G, k, after[k]) /\ 1..k \subseteq fine
           /\ after[k].error # "none" =>
                \/ ~ (1..Len(list) \subseteq fine)
                \/ \E i, j \in 1..Len(list) : list[i].id = list[j].id /\ i # j
<1> DEFINE n == Len(list)
           Broken == \/ ~ (1..n \subseteq fine)
                     \/ \E i, j \in 1..n : list[i].id = list[j].id /\ i # j
           Stands(k) ==
             /\ after[k].error = "none" => Gathered(base, list, G, k, after[k]) /\ 1..k \subseteq fine
             /\ after[k].error # "none" => Broken
           T == {k \in Nat : k <= n => Stands(k)}
<1>1. n \in Nat
  BY DEF Gathers
<1>2. Stands(0)
  <2>1. after[0] = NothingDeclared /\ G[0] = <<>>
    BY DEF Gathers
  <2>2. Gathered(base, list, G, 0, NothingDeclared) /\ NothingDeclared.error = "none"
    BY <2>1 DEF Gathered, NothingDeclared
  <2> QED BY <2>1, <2>2
<1>3. ASSUME NEW k \in 1..n, Stands(k - 1) PROVE Stands(k)
  <2> DEFINE s == after[k - 1]
  <2>1. /\ after[k] = IF s.error # "none" THEN s ELSE Gather(s, errors[k], list[k], pairs[k])
        /\ s.error = "none" => (errors[k] = "none" <=> k \in fine /\ list[k].id \notin DOMAIN s.actions)
    BY DEF Gathers
  <2>2. CASE s.error # "none"
    BY <1>3, <2>1, <2>2
  <2>3. CASE s.error = "none" /\ errors[k] = "none"
    <3>1. k \in fine /\ list[k].id \notin DOMAIN s.actions /\ Gathered(base, list, G, k - 1, s)
          /\ 1..(k - 1) \subseteq fine
      BY <1>3, <2>1, <2>3
    <3>2. after[k] = Gather(s, "none", list[k], pairs[k])
      BY <2>1, <2>3
    <3>3. after[k].error = "none" /\ Gathered(base, list, G, k, after[k])
      BY <3>1, <3>2, GatherStep
    <3>4. 1..k \subseteq fine
      BY <1>1, <3>1
    <3> QED BY <3>3, <3>4
  <2>4. CASE s.error = "none" /\ errors[k] # "none"
    <3>1. Gathered(base, list, G, k - 1, s) /\ (k \notin fine \/ list[k].id \in DOMAIN s.actions)
      BY <1>3, <2>1, <2>4
    <3>2. after[k].error # "none"
      <4>1. after[k] = [s EXCEPT !.error = errors[k]]
        BY <2>1, <2>4 DEF Gather
      <4>2. "error" \in DOMAIN s
        BY <3>1 DEF Gathered, NothingDeclared
      <4> HIDE DEF s
      <4> QED BY <2>4, <4>1, <4>2
    <3>3. CASE k \notin fine
      BY <3>2, <3>3
    <3>4. CASE list[k].id \in DOMAIN s.actions
      <4>1. PICK i \in 1..(k - 1) : list[i].id = list[k].id
        BY <3>1, <3>4 DEF Gathered
      <4>2. i \in 1..n /\ i # k
        BY <1>1
      <4> QED BY <3>2, <4>1, <4>2
    <3> QED BY <3>1, <3>3, <3>4
  <2> QED BY <2>2, <2>3, <2>4
<1>4. \A k \in 0..n : Stands(k)
  <2>1. 0 \in T
    BY <1>2
  <2>2. \A k \in 1..n : k - 1 \in T => k \in T
    <3> HIDE DEF Stands
    <3> QED BY <1>1, <1>3
  <2>3. \A k \in 0..n : k \in T
    <3> HIDE DEF T
    <3> QED BY <1>1, <2>1, <2>2, BoundedInduction
  <2> HIDE DEF Stands
  <2> QED BY <1>1, <2>3
<1> QED BY <1>4

\* A declaration that is sound by itself: what AdmissibleSource asks of each.
SoundDeclaration(names, d) ==
  /\ d.form = "none" /\ d.id # Malformed /\ d.metadata = "none"
  /\ IsExposure(names, d.exposure)
  /\ Lowerable(d.input) /\ Lowerable(d.output)

\* A declaration passes just when it is sound and its id is new.
LEMMA DeclarationJudged ==
  ASSUME NEW names, NEW sum, NEW d, d.form = "none" => ExposureValue(d.exposure)
  PROVE  DeclarationError(names, sum, d) = "none"
           <=> SoundDeclaration(names, d) /\ d.id \notin DOMAIN sum.actions
<1>1. CASE d.form # "none"
  BY <1>1 DEF DeclarationError, SoundDeclaration
<1>2. CASE d.form = "none"
  <2> DEFINE exposure == ExposureError(names, d.exposure)
             tests == <<
    <<d.id = Malformed, "invalid_action_id">>,
    <<d.metadata # "none", d.metadata>>,
    <<exposure # "none", exposure>>,
    <<d.id \in DOMAIN sum.actions, "duplicate_action_id">>,
    <<~ Lowerable(d.input), "unsupported_action_schema">>,
    <<~ Lowerable(d.output), "unsupported_action_schema">> >>
             Named(i) == tests[i][1] => tests[i][2] # "none"
             passed == /\ d.id # Malformed /\ d.metadata = "none" /\ exposure = "none"
                       /\ d.id \notin DOMAIN sum.actions
                       /\ Lowerable(d.input) /\ Lowerable(d.output)
  <2>1. DeclarationError(names, sum, d) = FirstError(tests)
    BY <1>2, Zenon DEF DeclarationError
  <2>2. exposure = "none" <=> IsExposure(names, d.exposure)
    BY <1>2, ExposureJudged
  <2> HIDE DEF exposure
  <2>3. DOMAIN tests = 1..6
    OBVIOUS
  <2>4. Named(1) /\ Named(2) /\ Named(3) /\ Named(4) /\ Named(5) /\ Named(6)
    OBVIOUS
  <2>5. /\ ~ tests[1][1] /\ ~ tests[2][1] /\ ~ tests[3][1]
        /\ ~ tests[4][1] /\ ~ tests[5][1] /\ ~ tests[6][1]
        <=> passed
    OBVIOUS
  <2>6. FirstError(tests) = "none" <=>
        /\ ~ tests[1][1] /\ ~ tests[2][1] /\ ~ tests[3][1]
        /\ ~ tests[4][1] /\ ~ tests[5][1] /\ ~ tests[6][1]
    <3> HIDE DEF tests, passed, Named
    <3>1. \A i \in DOMAIN tests : Named(i)
      BY <2>3, <2>4
    <3>2. \A i \in DOMAIN tests : tests[i][1] => tests[i][2] # "none"
      BY <3>1 DEF Named
    <3>3. DOMAIN tests \subseteq Nat
      BY <2>3
    <3>4. FirstError(tests) = "none" <=> \A i \in DOMAIN tests : ~ tests[i][1]
      BY <3>2, <3>3, FirstErrorJudges
    <3> QED BY <2>3, <3>4
  <2>7. FirstError(tests) = "none" <=> passed
    <3> HIDE DEF tests, passed
    <3> QED BY <2>5, <2>6, Zenon
  <2> HIDE DEF tests
  <2> QED BY <1>2, <2>1, <2>2, <2>7 DEF SoundDeclaration
<1> QED BY <1>1, <1>2

\* A definition that is sound by itself: what SoundOffer asks of each.
SoundDefinition(names, d) ==
  /\ d # Foreign /\ d # Malformed
  /\ d.form = "none" /\ d.id # Malformed /\ d.metadata = "none"
  /\ IsExposure(names, d.exposure)
  /\ Fit(d.input) /\ Fit(d.output)

\* A definition passes just when it is sound and its id is new.
LEMMA DefinitionJudged ==
  ASSUME NEW names, NEW sum, NEW d, d \notin {Foreign, Malformed} => ExposureValue(d.exposure)
  PROVE  EntryRefusal(names, sum, d) = "none"
           <=> SoundDefinition(names, d) /\ d.id \notin DOMAIN sum.actions
<1>1. CASE d \in {Foreign, Malformed}
  BY <1>1 DEF EntryRefusal, DefinitionError, SoundDefinition
<1>2. CASE d \notin {Foreign, Malformed}
  <2> DEFINE tests == <<
    <<d.form # "none", d.form>>,
    <<d.id = Malformed, "invalid_action_id">>,
    <<d.metadata # "none", d.metadata>>,
    <<Unlowered(d.input) # "none", Unlowered(d.input)>>,
    <<Unlowered(d.output) # "none", Unlowered(d.output)>>,
    <<Misshapen(d.input) # "none", Misshapen(d.input)>>,
    <<Misshapen(d.output) # "none", Misshapen(d.output)>> >>
             Named(i) == tests[i][1] => tests[i][2] # "none"
             passed == /\ d.form = "none" /\ d.id # Malformed /\ d.metadata = "none"
                       /\ Fit(d.input) /\ Fit(d.output)
             None == /\ ~ tests[1][1] /\ ~ tests[2][1] /\ ~ tests[3][1] /\ ~ tests[4][1]
                     /\ ~ tests[5][1] /\ ~ tests[6][1] /\ ~ tests[7][1]
  <2>1. DefinitionError(d) = FirstError(tests)
    BY <1>2, Zenon DEF DefinitionError
  <2>2. ExposureError(names, d.exposure) = "none" <=> IsExposure(names, d.exposure)
    BY <1>2, ExposureJudged
  <2>3. DOMAIN tests = 1..7
    OBVIOUS
  <2>4. /\ Named(1) /\ Named(2) /\ Named(3) /\ Named(4)
        /\ Named(5) /\ Named(6) /\ Named(7)
    OBVIOUS
  <2>5. None <=> passed
    BY DEF Fit
  <2>6. FirstError(tests) = "none" <=> None
    <3> HIDE DEF tests, passed, Named
    <3>1. \A i \in DOMAIN tests : Named(i)
      BY <2>3, <2>4
    <3>2. \A i \in DOMAIN tests : tests[i][1] => tests[i][2] # "none"
      BY <3>1 DEF Named
    <3>3. DOMAIN tests \subseteq Nat
      BY <2>3
    <3>4. FirstError(tests) = "none" <=> \A i \in DOMAIN tests : ~ tests[i][1]
      BY <3>2, <3>3, FirstErrorJudges
    <3> QED BY <2>3, <3>4
  <2>7. FirstError(tests) = "none" <=> passed
    <3> HIDE DEF tests, passed, None
    <3> QED BY <2>5, <2>6, Zenon
  <2>8. DefinitionError(d) = "none" <=> passed
    <3> HIDE DEF tests, passed
    <3> QED BY <2>1, <2>7, Zenon
  <2>9. EntryRefusal(names, sum, d) = "none" <=>
          /\ d.id \notin DOMAIN sum.actions /\ DefinitionError(d) = "none"
          /\ ExposureError(names, d.exposure) = "none"
    BY <1>2 DEF EntryRefusal, IdOf
  <2> HIDE DEF tests
  <2> QED BY <1>2, <2>2, <2>8, <2>9 DEF SoundDefinition
<1> QED BY <1>1, <1>2

-----------------------------------------------------------------------------
(***************************************************************************)
(* What prepare() of an inventory or of a catalog answers: the whole set   *)
(* of the schemas, exactly if all rules are kept.                          *)
(***************************************************************************)
\* The inputs and outputs of the first actions, for any number of them.
Directs(G, S, n, pairs) ==
  /\ G[0] = <<>> /\ G[n] = Directed(pairs) /\ G[n] \in Seq(S)
  /\ \A m \in 1..n : G[m] = G[m - 1] \o <<pairs[m].input, pairs[m].output>>

\* The schemas of all actions are those of the first ones, and two more each time.
LEMMA DirectedSteps ==
  ASSUME NEW S, NEW n \in Nat, NEW pairs, DOMAIN pairs = 1..n,
         \A i \in 1..n : pairs[i].input \in S /\ pairs[i].output \in S
  PROVE  \E G : Directs(G, S, n, pairs)
<1> DEFINE seqs == [i \in DOMAIN pairs |-> <<pairs[i].input, pairs[i].output>>]
<1>1. seqs \in [1..n -> Seq(S)] /\ \A i \in 1..n : seqs[i] = <<pairs[i].input, pairs[i].output>>
  OBVIOUS
<1>2. Directed(pairs) = SQ!FlattenSeq(seqs)
  BY DEF Directed
<1> HIDE DEF seqs
<1>3. seqs \in Seq(Seq(S)) /\ Len(seqs) = n
  BY <1>1, LenProperties
<1>4. PICK G : Concatenates(G, S, seqs)
  BY <1>3, FlattenSteps
<1>5. /\ G[0] = <<>> /\ G[n] = Directed(pairs) /\ G[n] \in Seq(S)
      /\ \A m \in 1..n : G[m] = G[m - 1] \o seqs[m]
  <2>1. /\ G \in [0..n -> Seq(S)] /\ G[0] = <<>> /\ G[n] = Directed(pairs)
        /\ \A m \in 1..n : G[m] = G[m - 1] \o seqs[m]
    BY <1>2, <1>3, <1>4, Zenon DEF Concatenates
  <2>2. n \in 0..n
    OBVIOUS
  <2> QED BY <2>1, <2>2, Zenon
<1>6. \A m \in 1..n : G[m] = G[m - 1] \o <<pairs[m].input, pairs[m].output>>
  BY <1>1, <1>5
<1> QED BY <1>5, <1>6, Zenon DEF Directs

\* A list of measured resources is measured.
LEMMA MembersMeasured ==
  ASSUME NEW S, \A r \in S : MeasuredDocument(r.document), NEW list \in Seq(S)
  PROVE  Measured(list)
<1>1. Len(list) \in Nat /\ DOMAIN list = 1..Len(list) /\ \A i \in DOMAIN list : list[i] \in S
  OBVIOUS
<1>2. list \in Seq({list[i] : i \in DOMAIN list})
  BY <1>1
<1> QED BY <1>1, <1>2 DEF Measured

\* What is prepared of what a loop gathered: all of it, if each action is fine by
\* itself, no id comes twice and the schemas are admissible as one set.
LEMMA GatherPrepares ==
  ASSUME NEW base, NEW list, NEW pairs, NEW G, NEW fine, NEW errors, NEW after,
         Gathers(base, list, pairs, G, fine, errors, after), G[Len(list)] = Directed(pairs),
         1..Len(list) \subseteq fine => Measured(Directed(pairs))
  PROVE  LET last == after[Len(list)]
             sum == IF last.error # "none" THEN last
                    ELSE [last EXCEPT !.error = Preparation(last.resources).error]
             sound == /\ 1..Len(list) \subseteq fine /\ Admissible(Directed(pairs))
                      /\ \A i, j \in 1..Len(list) : list[i].id = list[j].id => i = j IN
         /\ sum.error = "none" <=> sound
         /\ sum.error = "none" =>
              /\ sum.resources = Directed(pairs)
              /\ Preparation(sum.resources).staged = View(Directed(pairs))
              /\ DOMAIN sum.actions = {list[i].id : i \in 1..Len(list)}
              /\ \A id \in DOMAIN sum.actions :
                   sum.actions[id].input[1] = base /\ sum.actions[id].output[1] = base
<1> DEFINE n == Len(list)
           last == after[n]
           sum == IF last.error # "none" THEN last
                  ELSE [last EXCEPT !.error = Preparation(last.resources).error]
           distinct == \A i, j \in 1..n : list[i].id = list[j].id => i = j
           sound == /\ 1..n \subseteq fine /\ Admissible(Directed(pairs)) /\ distinct
<1>1. n \in Nat
  BY DEF Gathers
<1>2. /\ last.error = "none" => Gathered(base, list, G, n, last) /\ 1..n \subseteq fine
      /\ last.error # "none" => ~ (1..n \subseteq fine) \/ ~ distinct
  <2>1. n \in 0..n
    BY <1>1
  <2> QED BY <2>1, GatherJudges
<1>3. CASE last.error # "none"
  BY <1>2, <1>3
<1>4. CASE last.error = "none"
  <2>1. Gathered(base, list, G, n, last) /\ 1..n \subseteq fine
    BY <1>2, <1>4
  <2>2. distinct /\ last.resources = Directed(pairs) /\ Measured(Directed(pairs))
    BY <2>1 DEF Gathered
  <2>3. sum = [last EXCEPT !.error = Preparation(last.resources).error]
    BY <1>4
  <2>4. /\ DOMAIN last = {"error", "documents", "resources", "actions"}
        /\ DOMAIN last.actions = {list[i].id : i \in 1..n}
        /\ \A id \in DOMAIN last.actions :
             last.actions[id].input[1] = base /\ last.actions[id].output[1] = base
    BY <2>1 DEF Gathered, NothingDeclared
  <2> HIDE DEF last, sum
  <2>5. /\ sum.error = Preparation(Directed(pairs)).error
        /\ sum.resources = Directed(pairs) /\ sum.actions = last.actions
    BY <2>2, <2>3, <2>4
  <2>6. /\ sum.error = "none" =>
             Admissible(Directed(pairs)) /\ Preparation(Directed(pairs)).staged = View(Directed(pairs))
        /\ sum.error # "none" => ~ Admissible(Directed(pairs))
    BY <2>2, <2>5, PreparationIsExact
  <2>7. sum.error = "none" <=> sound
    BY <2>1, <2>2, <2>6
  <2> HIDE DEF sound
  <2>8. sum.error = "none" =>
          /\ sum.resources = Directed(pairs)
          /\ Preparation(sum.resources).staged = View(Directed(pairs))
          /\ DOMAIN sum.actions = {list[i].id : i \in 1..n}
          /\ \A id \in DOMAIN sum.actions :
               sum.actions[id].input[1] = base /\ sum.actions[id].output[1] = base
    BY <2>4, <2>5, <2>6
  <2> QED BY <2>7, <2>8 DEF sum, last, sound
<1> QED BY <1>3, <1>4

\* Schemas that are lowered to documents.
SoundSchemas(base, d) ==
  /\ Lowerable(d.input) => MeasuredDocument(Staged(base, d).input.document)
  /\ Lowerable(d.output) => MeasuredDocument(Staged(base, d).output.document)

\* What was captured of a source.
LEMMA KeptList ==
  ASSUME NEW s \in Sources
  PROVE  /\ Keep(s).classes = s.classes /\ Keep(s).list \in {Malformed, s.list}
         /\ CatalogValue(s.classes) /\ s.list # Malformed
         /\ Len(s.list) \in Nat /\ DOMAIN s.list = 1..Len(s.list)
         /\ \A i \in 1..Len(s.list) : s.list[i].form = "none" =>
              /\ ExposureValue(s.list[i].exposure)
              /\ \A base \in Bases : SoundSchemas(base, s.list[i])
<1>1. s.list \in Seq({s.list[i] : i \in DOMAIN s.list})
  BY AuthoringAssumption
<1>2. Len(s.list) \in Nat /\ DOMAIN s.list = 1..Len(s.list)
  BY <1>1
<1> QED BY <1>2, AuthoringAssumption DEF Keep, SoundSchemas, Staged

\* What prepare() of an inventory answers: the whole set of an admissible source.
Answered(base, list, members, sum) ==
  /\ sum.resources = members
  /\ Preparation(sum.resources).staged = View(members)
  /\ DOMAIN sum.actions = Ids(list)
  /\ \A id \in DOMAIN sum.actions : sum.actions[id].input[1] = base /\ sum.actions[id].output[1] = base

\* prepare() of an inventory refuses just the sources that are inadmissible.
LEMMA InventoryJudged ==
  ASSUME NEW s \in Sources, NEW base \in Bases
  PROVE  LET capture == Keep(s) IN
         /\ InventoryError(capture, base) = "none" <=> AdmissibleSource(capture, base)
         /\ InventoryError(capture, base) = "none" =>
              Answered(base, capture.list, ResourcesOf(base, capture.list), Declared(capture, base))
<1> DEFINE capture == Keep(s)
           list == s.list
           n == Len(list)
           names == Names(s.classes)
           pairs == [i \in DOMAIN list |-> Staged(base, list[i])]
           fine == {i \in 1..n : SoundDeclaration(names, list[i])}
           after == Declares(names, base, list)
           errors == [i \in 1..n |-> DeclarationError(names, after[i-1], list[i])]
           last == after[n]
           sum == IF last.error # "none" THEN last
                  ELSE [last EXCEPT !.error = Preparation(last.resources).error]
           sound == /\ 1..n \subseteq fine /\ Admissible(Directed(pairs))
                    /\ \A i, j \in 1..n : list[i].id = list[j].id => i = j
<1>1. /\ capture.classes = s.classes /\ capture.list \in {Malformed, list}
      /\ CatalogValue(s.classes) /\ list # Malformed /\ n \in Nat /\ DOMAIN list = 1..n
      /\ \A i \in 1..n : list[i].form = "none" =>
           ExposureValue(list[i].exposure) /\ SoundSchemas(base, list[i])
  BY KeptList
<1>2. MaxDeclarations \in Nat
  BY AuthoringAssumption
<1>3. CatalogError(s.classes) = "none" <=> WholeCatalog(s.classes)
  BY <1>1, CatalogJudged
<1>4. CASE capture.list = Malformed
  BY <1>4 DEF InventoryError, Declared, NothingDeclared, AdmissibleSource
<1>5. CASE capture.list # Malformed /\ Len(list) > MaxDeclarations
  <2>1. capture.list = list
    BY <1>1, <1>5
  <2>2. ~ (Len(list) <= MaxDeclarations)
    BY <1>1, <1>2, <1>5
  <2> HIDE DEF capture
  <2>3. InventoryError(capture, base) = "schema_resource_count_limit"
    BY <1>5, <2>1 DEF InventoryError, Declared, NothingDeclared
  <2>4. ~ AdmissibleSource(capture, base)
    BY <2>1, <2>2 DEF AdmissibleSource
  <2> QED BY <2>3, <2>4 DEF capture
<1>6. CASE capture.list # Malformed /\ ~ (Len(list) > MaxDeclarations) /\ CatalogError(s.classes) # "none"
  <2>1. capture.list = list /\ ~ WholeCatalog(capture.classes)
    BY <1>1, <1>3, <1>6
  <2> HIDE DEF capture
  <2>2. InventoryError(capture, base) = CatalogError(s.classes)
    BY <1>1, <1>6, <2>1 DEF InventoryError, Declared, NothingDeclared
  <2>3. ~ AdmissibleSource(capture, base)
    BY <2>1 DEF AdmissibleSource
  <2> QED BY <1>6, <2>2, <2>3 DEF capture
<1>7. CASE capture.list # Malformed /\ ~ (Len(list) > MaxDeclarations) /\ CatalogError(s.classes) = "none"
  <2>1. capture.list = list /\ Len(list) <= MaxDeclarations /\ WholeCatalog(capture.classes)
    BY <1>1, <1>2, <1>3, <1>7
  <2>2. DOMAIN pairs = 1..n /\ \A i \in 1..n : pairs[i] = Staged(base, list[i])
    BY <1>1
  <2>3. Directed(pairs) = ResourcesOf(base, list)
    BY DEF ResourcesOf
  <2> HIDE DEF pairs
  <2> DEFINE S == {pairs[i].input : i \in 1..n} \cup {pairs[i].output : i \in 1..n}
  <2>4. PICK G : Directs(G, S, n, pairs)
    <3>1. \A i \in 1..n : pairs[i].input \in S /\ pairs[i].output \in S
      OBVIOUS
    <3>2. n \in Nat /\ DOMAIN pairs = 1..n
      BY <1>1, <2>2
    <3> HIDE DEF S, n
    <3> QED BY <3>1, <3>2, DirectedSteps
  <2>5. ASSUME 1..n \subseteq fine PROVE Measured(Directed(pairs))
    <3>1. ASSUME NEW i \in 1..n
          PROVE  MeasuredDocument(pairs[i].input.document) /\ MeasuredDocument(pairs[i].output.document)
      <4>1. SoundDeclaration(names, list[i])
        BY <2>5
      <4>2. list[i].form = "none" /\ Lowerable(list[i].input) /\ Lowerable(list[i].output)
        BY <4>1 DEF SoundDeclaration
      <4>3. SoundSchemas(base, list[i]) /\ pairs[i] = Staged(base, list[i])
        BY <1>1, <2>2, <4>2
      <4> QED BY <4>2, <4>3 DEF SoundSchemas
    <3>2. \A r \in S : MeasuredDocument(r.document)
      BY <3>1
    <3> HIDE DEF S
    <3> QED BY <2>4, <3>2, MembersMeasured DEF Directs
  <2>6. Gathers(base, list, pairs, G, fine, errors, after)
    <3>1. /\ after[0] = NothingDeclared
          /\ \A i \in 1..n : after[i] = Declare(names, base, after[i-1], list[i])
      BY <1>1, DeclaresStep
    <3> HIDE DEF after
    <3>2. \A m \in 1..n : errors[m] = DeclarationError(names, after[m-1], list[m])
      OBVIOUS
    <3> HIDE DEF errors
    <3>3. \A m \in 1..n :
            after[m] = IF after[m-1].error # "none" THEN after[m-1]
                       ELSE Gather(after[m-1], errors[m], list[m], pairs[m])
      <4> SUFFICES ASSUME NEW m \in 1..n
                   PROVE  after[m] = IF after[m-1].error # "none" THEN after[m-1]
                                     ELSE Gather(after[m-1], errors[m], list[m], pairs[m])
        OBVIOUS
      <4>1. /\ after[m] = Declare(names, base, after[m-1], list[m])
            /\ errors[m] = DeclarationError(names, after[m-1], list[m])
            /\ pairs[m] = Staged(base, list[m])
        BY <2>2, <3>1, <3>2
      <4> QED BY <4>1, Zenon DEF Declare
    <3>4. \A m \in 1..n :
            errors[m] = "none" <=> m \in fine /\ list[m].id \notin DOMAIN after[m-1].actions
      <4> SUFFICES ASSUME NEW m \in 1..n
                   PROVE  errors[m] = "none"
                            <=> m \in fine /\ list[m].id \notin DOMAIN after[m-1].actions
        OBVIOUS
      <4>1. errors[m] = "none"
              <=> SoundDeclaration(names, list[m]) /\ list[m].id \notin DOMAIN after[m-1].actions
        BY <1>1, <3>2, DeclarationJudged
      <4> QED BY <4>1
    <3>5. \A m \in 1..n : pairs[m].input.uri[1] = base /\ pairs[m].output.uri[1] = base
      <4> SUFFICES ASSUME NEW m \in 1..n
                   PROVE  pairs[m].input.uri[1] = base /\ pairs[m].output.uri[1] = base
        OBVIOUS
      <4>1. pairs[m] = Staged(base, list[m])
        BY <2>2
      <4> HIDE DEF list
      <4> QED BY <4>1 DEF Staged, Derived
    <3> HIDE DEF fine
    <3> QED BY <1>1, <2>4, <3>1, <3>3, <3>4, <3>5 DEF Gathers, Directs
  <2>7. /\ sum.error = "none" <=> sound
        /\ sum.error = "none" =>
              /\ sum.resources = Directed(pairs)
              /\ Preparation(sum.resources).staged = View(Directed(pairs))
              /\ DOMAIN sum.actions = {list[i].id : i \in 1..n}
              /\ \A id \in DOMAIN sum.actions :
                   sum.actions[id].input[1] = base /\ sum.actions[id].output[1] = base
    <3> HIDE DEF fine, errors, after
    <3> QED BY <2>4, <2>5, <2>6, GatherPrepares DEF Directs
  <2>8. sound <=> AdmissibleSource(capture, base)
    <3>1. 1..n \subseteq fine <=> \A i \in 1..n : SoundDeclaration(names, list[i])
      OBVIOUS
    <3> HIDE DEF fine, pairs, capture
    <3> QED BY <1>1, <2>1, <2>3, <3>1 DEF AdmissibleSource, SoundDeclaration
  <2>9. Declared(capture, base) = sum
    <3> HIDE DEF capture
    <3> QED BY <1>1, <1>7, <2>1 DEF Declared
  <2>10. Ids(list) = {list[i].id : i \in 1..n}
    BY <1>1 DEF Ids
  <2> HIDE DEF sum, sound, capture, pairs
  <2>11. InventoryError(capture, base) = sum.error
    BY <2>9 DEF InventoryError
  <2>12. sum.error = "none" =>
           Answered(base, capture.list, ResourcesOf(base, capture.list), Declared(capture, base))
    BY <2>1, <2>3, <2>7, <2>9, <2>10 DEF Answered
  <2> QED BY <2>7, <2>8, <2>11, <2>12 DEF capture
<1> QED BY <1>4, <1>5, <1>6, <1>7

\* What a catalog captured of an allow-list.
HeldOf(o) == [classes |-> o.classes, list |-> [i \in DOMAIN o.list |-> Define(o.list[i])]]

\* Documents that are made of schemas without an error.
SoundDocuments(base, d) ==
  /\ Fit(d.input) => MeasuredDocument(FragmentOf(base, d).input.document)
  /\ Fit(d.output) => MeasuredDocument(FragmentOf(base, d).output.document)

\* What is captured of an allow-list are definitions, or no definitions.
LEMMA HeldList ==
  ASSUME NEW o \in AllowLists
  PROVE  LET list == HeldOf(o).list IN
         /\ HeldOf(o).classes = o.classes /\ CatalogValue(o.classes)
         /\ Len(list) \in Nat /\ DOMAIN list = 1..Len(list)
         /\ \A i \in 1..Len(list) : list[i] \notin {Foreign, Malformed} =>
              ExposureValue(list[i].exposure) /\ \A base \in Bases : SoundDocuments(base, list[i])
<1> DEFINE given == o.list
           list == [i \in DOMAIN given |-> Define(given[i])]
<1>1. given \in Seq({given[i] : i \in DOMAIN given}) /\ CatalogValue(o.classes)
  BY CatalogueAssumption
<1>2. Len(given) \in Nat /\ DOMAIN given = 1..Len(given)
  BY <1>1
<1>3. list \in [1..Len(given) -> {list[i] : i \in 1..Len(given)}]
  BY <1>2
<1>4. list \in Seq({list[i] : i \in 1..Len(given)}) /\ Len(list) = Len(given)
  <2> HIDE DEF list
  <2> QED BY <1>2, <1>3, LenProperties
<1>5. HeldOf(o).list = list /\ HeldOf(o).classes = o.classes
  BY DEF HeldOf
<1>6. ASSUME NEW i \in 1..Len(given), list[i] \notin {Foreign, Malformed}
      PROVE  ExposureValue(list[i].exposure) /\ \A base \in Bases : SoundDocuments(base, list[i])
  <2>1. i \in DOMAIN o.list /\ list[i] = Define(given[i])
    BY <1>2
  <2> HIDE DEF list
  <2>2. given[i] # Foreign /\ list[i] = given[i].declaration
    BY <1>6, <2>1 DEF Define
  <2>3. LET d == given[i].declaration IN
        /\ ExposureValue(d.exposure)
        /\ \A base \in Bases :
             /\ Fit(d.input) => MeasuredDocument(WrittenTo(Derived(base, d.id, "input"), d.input))
             /\ Fit(d.output) => MeasuredDocument(WrittenTo(Derived(base, d.id, "output"), d.output))
    BY <2>1, <2>2, CatalogueAssumption
  <2> QED BY <2>2, <2>3 DEF SoundDocuments, FragmentOf, WrittenFor
<1> HIDE DEF list
<1> QED BY <1>1, <1>2, <1>3, <1>4, <1>5, <1>6

\* prepare() of a catalog refuses just the allow-lists that are not sound.
LEMMA CatalogueJudged ==
  ASSUME NEW o \in AllowLists, NEW base \in Bases
  PROVE  LET capture == HeldOf(o) IN
         /\ Collected(capture, base).error = "none" <=> SoundOffer(capture, base)
         /\ Collected(capture, base).error = "none" =>
              Answered(base, capture.list, FragmentsOf(base, capture.list), Collected(capture, base))
<1> DEFINE capture == HeldOf(o)
           list == capture.list
           n == Len(list)
           names == Names(o.classes)
           pairs == [i \in DOMAIN list |-> FragmentOf(base, list[i])]
           fine == {i \in 1..n : SoundDefinition(names, list[i])}
           after == Collects(names, base, list)
           errors == [i \in 1..n |-> EntryRefusal(names, after[i-1], list[i])]
           last == after[n]
           sum == IF last.error # "none" THEN last
                  ELSE [last EXCEPT !.error = Preparation(last.resources).error]
           sound == /\ 1..n \subseteq fine /\ Admissible(Directed(pairs))
                    /\ \A i, j \in 1..n : list[i].id = list[j].id => i = j
<1>1. /\ capture.classes = o.classes /\ CatalogValue(o.classes)
      /\ n \in Nat /\ DOMAIN list = 1..n
      /\ \A i \in 1..n : list[i] \notin {Foreign, Malformed} =>
           ExposureValue(list[i].exposure) /\ SoundDocuments(base, list[i])
  BY HeldList
<1>2. CatalogError(o.classes) = "none" <=> WholeCatalog(o.classes)
  BY <1>1, CatalogJudged
<1> HIDE DEF capture
<1>3. CASE CatalogError(o.classes) # "none"
  BY <1>1, <1>2, <1>3 DEF Collected, NothingDeclared, SoundOffer, capture
<1>4. CASE CatalogError(o.classes) = "none"
  <2>1. WholeCatalog(capture.classes)
    BY <1>1, <1>2, <1>4
  <2>2. DOMAIN pairs = 1..n /\ \A i \in 1..n : pairs[i] = FragmentOf(base, list[i])
    BY <1>1
  <2>3. Directed(pairs) = FragmentsOf(base, list)
    BY DEF FragmentsOf
  <2> HIDE DEF pairs
  <2> DEFINE S == {pairs[i].input : i \in 1..n} \cup {pairs[i].output : i \in 1..n}
  <2>4. PICK G : Directs(G, S, n, pairs)
    <3>1. \A i \in 1..n : pairs[i].input \in S /\ pairs[i].output \in S
      OBVIOUS
    <3>2. n \in Nat /\ DOMAIN pairs = 1..n
      BY <1>1, <2>2
    <3> HIDE DEF S, n
    <3> QED BY <3>1, <3>2, DirectedSteps
  <2>5. ASSUME 1..n \subseteq fine PROVE Measured(Directed(pairs))
    <3>1. ASSUME NEW i \in 1..n
          PROVE  MeasuredDocument(pairs[i].input.document) /\ MeasuredDocument(pairs[i].output.document)
      <4>1. SoundDefinition(names, list[i])
        BY <2>5
      <4>2. /\ list[i] \notin {Foreign, Malformed}
            /\ Fit(list[i].input) /\ Fit(list[i].output)
        BY <4>1 DEF SoundDefinition
      <4>3. SoundDocuments(base, list[i]) /\ pairs[i] = FragmentOf(base, list[i])
        BY <1>1, <2>2, <4>2
      <4> QED BY <4>2, <4>3 DEF SoundDocuments
    <3>2. \A r \in S : MeasuredDocument(r.document)
      BY <3>1
    <3> HIDE DEF S
    <3> QED BY <2>4, <3>2, MembersMeasured DEF Directs
  <2>6. Gathers(base, list, pairs, G, fine, errors, after)
    <3>1. /\ after[0] = NothingDeclared
          /\ \A i \in 1..n : after[i] = Collect(names, base, after[i-1], list[i])
      BY <1>1, CollectsStep
    <3> HIDE DEF after
    <3>2. \A m \in 1..n : errors[m] = EntryRefusal(names, after[m-1], list[m])
      OBVIOUS
    <3> HIDE DEF errors
    <3>3. \A m \in 1..n :
            after[m] = IF after[m-1].error # "none" THEN after[m-1]
                       ELSE Gather(after[m-1], errors[m], list[m], pairs[m])
      <4> SUFFICES ASSUME NEW m \in 1..n
                   PROVE  after[m] = IF after[m-1].error # "none" THEN after[m-1]
                                     ELSE Gather(after[m-1], errors[m], list[m], pairs[m])
        OBVIOUS
      <4>1. /\ after[m] = Collect(names, base, after[m-1], list[m])
            /\ errors[m] = EntryRefusal(names, after[m-1], list[m])
            /\ pairs[m] = FragmentOf(base, list[m])
        BY <2>2, <3>1, <3>2
      <4> QED BY <4>1, Zenon DEF Collect
    <3>4. \A m \in 1..n :
            errors[m] = "none" <=> m \in fine /\ list[m].id \notin DOMAIN after[m-1].actions
      <4> SUFFICES ASSUME NEW m \in 1..n
                   PROVE  errors[m] = "none"
                            <=> m \in fine /\ list[m].id \notin DOMAIN after[m-1].actions
        OBVIOUS
      <4>1. errors[m] = "none"
              <=> SoundDefinition(names, list[m]) /\ list[m].id \notin DOMAIN after[m-1].actions
        BY <1>1, <3>2, DefinitionJudged
      <4> QED BY <4>1
    <3>5. \A m \in 1..n : pairs[m].input.uri[1] = base /\ pairs[m].output.uri[1] = base
      <4> SUFFICES ASSUME NEW m \in 1..n
                   PROVE  pairs[m].input.uri[1] = base /\ pairs[m].output.uri[1] = base
        OBVIOUS
      <4>1. pairs[m] = FragmentOf(base, list[m])
        BY <2>2
      <4> HIDE DEF list
      <4> QED BY <4>1 DEF FragmentOf, WrittenFor, Derived
    <3> HIDE DEF fine
    <3> QED BY <1>1, <2>4, <3>1, <3>3, <3>4, <3>5 DEF Gathers, Directs
  <2>7. /\ sum.error = "none" <=> sound
        /\ sum.error = "none" =>
              /\ sum.resources = Directed(pairs)
              /\ Preparation(sum.resources).staged = View(Directed(pairs))
              /\ DOMAIN sum.actions = {list[i].id : i \in 1..n}
              /\ \A id \in DOMAIN sum.actions :
                   sum.actions[id].input[1] = base /\ sum.actions[id].output[1] = base
    <3> HIDE DEF fine, errors, after
    <3> QED BY <2>4, <2>5, <2>6, GatherPrepares DEF Directs
  <2>8. sound <=> SoundOffer(capture, base)
    <3>1. 1..n \subseteq fine <=> \A i \in 1..n : SoundDefinition(names, list[i])
      OBVIOUS
    <3> HIDE DEF fine, pairs
    <3> QED BY <1>1, <2>1, <2>3, <3>1 DEF SoundOffer, SoundDefinition
  <2>9. Collected(capture, base) = sum
    BY <1>1, <1>4 DEF Collected
  <2>10. Ids(list) = {list[i].id : i \in 1..n}
    BY <1>1 DEF Ids
  <2> HIDE DEF sum, sound, pairs
  <2>11. sum.error = "none" =>
           Answered(base, list, FragmentsOf(base, list), Collected(capture, base))
    BY <2>3, <2>7, <2>9, <2>10 DEF Answered
  <2> QED BY <2>7, <2>8, <2>9, <2>11 DEF capture
<1> QED BY <1>3, <1>4 DEF capture

-----------------------------------------------------------------------------
(***************************************************************************)
(* The inventory and the catalog, for any sources, allow-lists and bases.  *)
(***************************************************************************)
\* What is kept was captured of a source, and what was prepared or answered names
\* its schemas after the base it is for.
ForBase(value) ==
  \A id \in DOMAIN value.actions :
    value.actions[id].input[1] = value.base /\ value.actions[id].output[1] = value.base

AuthoringInv ==
  /\ \E s \in Sources : kept = Keep(s)
  /\ inventory # NoInventory => ForBase(inventory)
  /\ answer # NoInventory =>
       ForBase(answer.returned) /\ answer.returned.base = NormalBase(answer.spelling)

\* It holds initially.
LEMMA AuthoringInitial == AuthoringInit => AuthoringInv
  BY DEF AuthoringInit, AuthoringInv

\* What is prepared is the inventory of an admissible source.
LEMMA PreparesInventory ==
  ASSUME AuthoringInv, NEW spelling \in Spellings, PrepareInventory(spelling)
  PROVE  LET base == NormalBase(spelling) IN
         /\ base \in Bases /\ AdmissibleSource(kept, base)
         /\ inventory'.base = base /\ ForBase(inventory')
         /\ DOMAIN inventory'.actions = Ids(kept.list)
         /\ inventory'.schemas = View(ResourcesOf(base, kept.list))
<1> DEFINE base == NormalBase(spelling)
           sum == Declared(kept, base)
<1>1. base \in Bases
  BY DEF PrepareInventory, Bases
<1>2. PICK s \in Sources : kept = Keep(s)
  BY DEF AuthoringInv
<1>3. InventoryError(kept, base) = "none" /\ inventory' = Prepared(base, sum)
  BY DEF PrepareInventory
<1>4. AdmissibleSource(kept, base) /\ Answered(base, kept.list, ResourcesOf(base, kept.list), sum)
  BY <1>1, <1>2, <1>3, InventoryJudged
<1> HIDE DEF base, sum
<1>5. /\ inventory'.base = base /\ inventory'.actions = sum.actions
      /\ inventory'.schemas = Preparation(sum.resources).staged
  BY <1>3 DEF Prepared
<1>6. /\ inventory'.base = base /\ ForBase(inventory')
      /\ DOMAIN inventory'.actions = Ids(kept.list)
      /\ inventory'.schemas = View(ResourcesOf(base, kept.list))
  BY <1>4, <1>5 DEF Answered, ForBase
<1> QED BY <1>1, <1>4, <1>6 DEF base

\* Every call keeps it.
LEMMA AuthoringStep == AuthoringInv /\ [AuthoringNext]_authored => AuthoringInv'
<1> SUFFICES ASSUME AuthoringInv, [AuthoringNext]_authored PROVE AuthoringInv'
  OBVIOUS
<1>1. CASE EditSource
  BY <1>1 DEF EditSource, AuthoringInv, ForBase
<1>2. ASSUME NEW spelling \in Spellings, PrepareInventory(spelling) PROVE AuthoringInv'
  <2>1. ForBase(inventory') /\ inventory'.base = NormalBase(spelling)
    BY <1>2, PreparesInventory
  <2>2. answer' = [spelling |-> spelling, returned |-> inventory'] /\ kept' = kept
    BY <1>2 DEF PrepareInventory
  <2> QED BY <2>1, <2>2 DEF AuthoringInv, ForBase
<1>3. ASSUME NEW spelling \in Spellings, PrepareAgain(spelling) PROVE AuthoringInv'
  BY <1>3 DEF PrepareAgain, SameBase, AuthoringInv, ForBase
<1>4. ASSUME NEW id, NEW sample, ValidateInput(id, sample) \/ ValidateOutput(id, sample) PROVE AuthoringInv'
  BY <1>4 DEF ValidateInput, ValidateOutput, Judge, AuthoringInv, ForBase
<1>5. CASE UNCHANGED authored
  BY <1>5 DEF authored, AuthoringInv, ForBase
<1> QED BY <1>1, <1>2, <1>3, <1>4, <1>5 DEF AuthoringNext

\* The inventory implements the abstract PrepareOnce.
LEMMA InventoryPreparedOnce == AuthoringSpec => PreparesOneInventory
<1>1. AuthoringInit => PI!POInit
  BY DEF AuthoringInit, PI!POInit, Retained
<1>2. AuthoringInv /\ [AuthoringNext]_authored => [PI!POPrepare]_<<kept, Retained>>
  <2> SUFFICES ASSUME AuthoringInv, [AuthoringNext]_authored PROVE [PI!POPrepare]_<<kept, Retained>>
    OBVIOUS
  <2>1. ASSUME NEW spelling \in Spellings, PrepareInventory(spelling)
        PROVE  [PI!POPrepare]_<<kept, Retained>>
    <3> DEFINE base == NormalBase(spelling)
    <3>1. /\ base \in Bases /\ AdmissibleSource(kept, base)
          /\ inventory'.base = base
          /\ DOMAIN inventory'.actions = Ids(kept.list)
          /\ inventory'.schemas = View(ResourcesOf(base, kept.list))
      BY <2>1, PreparesInventory
    <3>2. Retained = NoInventory /\ kept' = kept
      BY <2>1 DEF PrepareInventory, Retained
    <3>3. Retained' \in {NoInventory, InventoryOf(base, kept.list)}
      BY <3>1 DEF Retained, InventoryOf
    <3>4. InventoryOf(base, kept.list) \in Inventories(kept)
      BY <3>1 DEF Inventories
    <3> QED BY <3>2, <3>3, <3>4 DEF PI!POPrepare
  <2>2. ASSUME UNCHANGED <<kept, inventory>> PROVE [PI!POPrepare]_<<kept, Retained>>
    BY <2>2 DEF Retained
  <2>3. \/ \E spelling \in Spellings : PrepareInventory(spelling)
        \/ UNCHANGED <<kept, inventory>>
    BY DEF AuthoringNext, EditSource, PrepareAgain, ValidateInput, ValidateOutput, Judge, authored
  <2> QED BY <2>1, <2>2, <2>3
<1>3. AuthoringInv => AnswersForBase
  BY DEF AuthoringInv, AnswersForBase, ForBase
<1> QED BY <1>1, <1>2, <1>3, AuthoringInitial, AuthoringStep, PTL
    DEF AuthoringSpec, PreparesOneInventory, PI!POSpec

\* The same of a catalog: what it holds was captured of an allow-list.
CatalogueInv ==
  /\ \E o \in AllowLists : held = HeldOf(o)
  /\ catalog # NoInventory => ForBase(catalog)
  /\ reply # NoInventory =>
       ForBase(reply.returned) /\ reply.returned.base = NormalBase(reply.spelling)

\* It holds initially.
LEMMA CatalogueInitial == OfferInit => CatalogueInv
  BY DEF OfferInit, CatalogueInv, HeldOf

\* What is prepared is the catalog of a sound allow-list.
LEMMA PreparesCatalog ==
  ASSUME CatalogueInv, NEW spelling \in Spellings, PrepareCatalog(spelling)
  PROVE  LET base == NormalBase(spelling) IN
         /\ base \in Bases /\ SoundOffer(held, base)
         /\ catalog'.base = base /\ ForBase(catalog')
         /\ DOMAIN catalog'.actions = Ids(held.list)
         /\ catalog'.schemas = View(FragmentsOf(base, held.list))
<1> DEFINE base == NormalBase(spelling)
           sum == Collected(held, base)
<1>1. base \in Bases
  BY DEF PrepareCatalog, Bases
<1>2. PICK o \in AllowLists : held = HeldOf(o)
  BY DEF CatalogueInv
<1>3. sum.error = "none" /\ catalog' = Prepared(base, sum)
  BY DEF PrepareCatalog
<1>4. SoundOffer(held, base) /\ Answered(base, held.list, FragmentsOf(base, held.list), sum)
  BY <1>1, <1>2, <1>3, CatalogueJudged
<1> HIDE DEF base, sum
<1>5. /\ catalog'.base = base /\ catalog'.actions = sum.actions
      /\ catalog'.schemas = Preparation(sum.resources).staged
  BY <1>3 DEF Prepared
<1>6. /\ catalog'.base = base /\ ForBase(catalog')
      /\ DOMAIN catalog'.actions = Ids(held.list)
      /\ catalog'.schemas = View(FragmentsOf(base, held.list))
  BY <1>4, <1>5 DEF Answered, ForBase
<1> QED BY <1>1, <1>4, <1>6 DEF base

\* Every call keeps it.
LEMMA CatalogueStep == CatalogueInv /\ [CatalogueNext]_catalogued => CatalogueInv'
<1> SUFFICES ASSUME CatalogueInv, [CatalogueNext]_catalogued PROVE CatalogueInv'
  OBVIOUS
<1>1. CASE EditOffer
  BY <1>1 DEF EditOffer, CatalogueInv, ForBase
<1>2. ASSUME NEW spelling \in Spellings, PrepareCatalog(spelling) PROVE CatalogueInv'
  <2>1. ForBase(catalog') /\ catalog'.base = NormalBase(spelling)
    BY <1>2, PreparesCatalog
  <2>2. reply' = [spelling |-> spelling, returned |-> catalog'] /\ held' = held
    BY <1>2 DEF PrepareCatalog
  <2> QED BY <2>1, <2>2 DEF CatalogueInv, ForBase
<1>3. ASSUME NEW spelling \in Spellings, AnswerAgain(spelling) PROVE CatalogueInv'
  BY <1>3 DEF AnswerAgain, CatalogueInv, ForBase
<1>4. ASSUME NEW id, NEW sample, CheckInput(id, sample) \/ CheckOutput(id, sample) PROVE CatalogueInv'
  BY <1>4 DEF CheckInput, CheckOutput, Check, CatalogueInv, ForBase
<1>5. CASE UNCHANGED catalogued
  BY <1>5 DEF catalogued, CatalogueInv, ForBase
<1> QED BY <1>1, <1>2, <1>3, <1>4, <1>5 DEF CatalogueNext

\* The catalog implements the abstract PrepareOnce.
LEMMA CatalogPreparedOnce == CatalogueSpec => PreparesOneCatalog
<1>1. OfferInit => PC!POInit
  BY DEF OfferInit, PC!POInit, Published
<1>2. CatalogueInv /\ [CatalogueNext]_catalogued => [PC!POPrepare]_<<held, Published>>
  <2> SUFFICES ASSUME CatalogueInv, [CatalogueNext]_catalogued PROVE [PC!POPrepare]_<<held, Published>>
    OBVIOUS
  <2>1. ASSUME NEW spelling \in Spellings, PrepareCatalog(spelling)
        PROVE  [PC!POPrepare]_<<held, Published>>
    <3> DEFINE base == NormalBase(spelling)
    <3>1. /\ base \in Bases /\ SoundOffer(held, base)
          /\ catalog'.base = base
          /\ DOMAIN catalog'.actions = Ids(held.list)
          /\ catalog'.schemas = View(FragmentsOf(base, held.list))
      BY <2>1, PreparesCatalog
    <3>2. Published = NoInventory /\ held' = held
      BY <2>1 DEF PrepareCatalog, Published
    <3>3. Published' \in {NoInventory, CatalogOf(base, held.list)}
      BY <3>1 DEF Published, CatalogOf
    <3>4. CatalogOf(base, held.list) \in Catalogs(held)
      BY <3>1 DEF Catalogs
    <3> QED BY <3>2, <3>3, <3>4 DEF PC!POPrepare
  <2>2. ASSUME UNCHANGED <<held, catalog>> PROVE [PC!POPrepare]_<<held, Published>>
    BY <2>2 DEF Published
  <2>3. \/ \E spelling \in Spellings : PrepareCatalog(spelling)
        \/ UNCHANGED <<held, catalog>>
    BY DEF CatalogueNext, EditOffer, AnswerAgain, CheckInput, CheckOutput, Check, catalogued
  <2> QED BY <2>1, <2>2, <2>3
<1>3. CatalogueInv => ReplyForBase
  BY DEF CatalogueInv, ReplyForBase, ForBase
<1> QED BY <1>1, <1>2, <1>3, CatalogueInitial, CatalogueStep, PTL
    DEF CatalogueSpec, PreparesOneCatalog, PC!POSpec

\* For every source, allow-list and base: what prepare() of an inventory or of a
\* catalog retains is all of the captured declarations, for one base and for good,
\* and whoever asks for a base is answered for that base.
THEOREM ActionsPrepared == AuthoringSpec /\ CatalogueSpec => ActionsPreparedOnce
  BY InventoryPreparedOnce, CatalogPreparedOnce DEF ActionsPreparedOnce

\* For every source, allow-list, base and list of resources: what prepare() of a
\* resource set, an inventory or a catalog refuses breaks one of the stated rules,
\* although each of the loops judges by what it has seen so far and stops early.
THEOREM RefusalsAreSound == ResourcesSpec /\ AuthoringSpec /\ CatalogueSpec => []NothingSoundRefused
<1>1. AuthoringInv => SoundSourcesPrepared
  BY InventoryJudged DEF AuthoringInv, SoundSourcesPrepared
<1>2. CatalogueInv => SoundOffersPrepared
  BY CatalogueJudged DEF CatalogueInv, SoundOffersPrepared
<1>3. ResourcesInv /\ AuthoringInv /\ CatalogueInv => NothingSoundRefused
  BY <1>1, <1>2 DEF ResourcesInv, NothingSoundRefused, RefusalsAreJustified
<1> QED BY <1>3, ResourcesHold, AuthoringInitial, AuthoringStep, CatalogueInitial, CatalogueStep, PTL
    DEF AuthoringSpec, CatalogueSpec
=============================================================================
