------------------------- MODULE CapturedDeclarations -------------------------
(***************************************************************************)
(* CapturedDeclarations of src/authoring/captured-declarations.ts, and     *)
(* snapshotDeclaration of the prototype in experiments/                    *)
(* offline-action-authoring: copies of a developer's objects, bounded in   *)
(* values, depth and text. The prototype's is the lenient one.             *)
(*                                                                         *)
(* The developer's objects are a heap: a function from their names to      *)
(* whether they are arrays, their form, their length if they are arrays,   *)
(* and their members in order, each with the length of its key and its     *)
(* value. An object is plain; loose, with hidden members, holes, other     *)
(* keys or another prototype of an array; or unfit, with accessors or      *)
(* another prototype. A number is not finite, or minus zero; a handler is  *)
(* a function, under the name of handler.                                  *)
(***************************************************************************)
EXTENDS Naturals, Sequences, FiniteSets

LOCAL SE == INSTANCE SequencesExt
LOCAL FS == INSTANCE FiniteSetsExt

CONSTANTS
  Root,                               \* the value handed to the constructor
  MaxValues, MaxDepth, MaxTextUnits   \* 4096, 64 and 1000000

Object(name) == [kind |-> "object", of |-> name]
Text(units) == [kind |-> "text", of |-> units]

Unvisited == [fits |-> TRUE, values |-> 0, text |-> 0]

\* Mutation of WithText: the limit is looked at before the text is counted.
WithText_Late(sum, units) ==
  [sum EXCEPT !.text = @ + units, !.fits = @ /\ sum.text <= MaxTextUnits]

WithText(sum, units) == [sum EXCEPT !.text = @ + units, !.fits = @ /\ sum.text + units <= MaxTextUnits]

\* Which values are taken at all.
Taken(lenient, value, depth) ==
  \/ value.kind \in {"text", "other", "object"}
  \/ lenient /\ value.kind = "number"
  \/ lenient /\ value.kind = "handler" /\ depth = 1

Forms(lenient) == IF lenient THEN {"plain", "loose"} ELSE {"plain"}

RECURSIVE Visit(_, _, _, _, _, _)
\* One value, after those before it; the members of an object in their order.
\* An array has a key for its length.
Visit(lenient, heap, value, depth, active, before) ==
  LET sum == [before EXCEPT !.values = @ + 1] IN
  IF ~ before.fits THEN before
  ELSE IF sum.values > MaxValues \/ depth > MaxDepth THEN [sum EXCEPT !.fits = FALSE]
  ELSE IF value.kind = "text" THEN WithText(sum, value.of)
  ELSE IF ~ Taken(lenient, value, depth) THEN [sum EXCEPT !.fits = FALSE]
  ELSE IF value.kind # "object" THEN sum
  ELSE
    LET object == heap[value.of]
        keys == Len(object.members) + (IF object.array THEN 1 ELSE 0) IN
    IF \/ value.of \in active \/ object.form \notin Forms(lenient)
       \/ object.array /\ object.length > MaxValues - sum.values
       \/ keys > MaxValues - sum.values
    THEN [sum EXCEPT !.fits = FALSE]
    ELSE SE!FoldLeft(
           LAMBDA s, m : Visit(lenient, heap, m.value, depth + 1, active \cup {value.of}, WithText(s, m.key)),
           sum, object.members)

\* Whether the constructor has something to hand out later.
Captures(heap) == Visit(FALSE, heap, Object(Root), 0, {}, Unvisited).fits

\* Whether a definition of the prototype has a copy.
Copies(heap) == Visit(TRUE, heap, Object(Root), 0, {}, Unvisited).fits
-----------------------------------------------------------------------------
(***************************************************************************)
(* The values as they are reached: walks from the root along members.      *)
(***************************************************************************)
RECURSIVE At(_, _)
At(heap, walk) ==
  IF walk = <<>> THEN Object(Root)
  ELSE heap[At(heap, SE!Front(walk)).of].members[SE!Last(walk)].value

MembersAt(heap, walk) ==
  LET value == At(heap, walk) IN
  IF value.kind = "object" THEN heap[value.of].members ELSE <<>>

Walks(heap) ==
  LET W[n \in 0..(MaxDepth + 1)] ==
        IF n = 0 THEN {<<>>}
        ELSE UNION {{Append(w, i) : i \in DOMAIN MembersAt(heap, w)} : w \in W[n - 1]} IN
  UNION {W[n] : n \in 0..(MaxDepth + 1)}

TextAt(heap, walk) ==
  (IF At(heap, walk).kind = "text" THEN At(heap, walk).of ELSE 0)
    + FS!MapThenSumSet(LAMBDA i : MembersAt(heap, walk)[i].key, DOMAIN MembersAt(heap, walk))

Holes(heap) ==
  FS!MapThenSumSet(
    LAMBDA o : IF heap[o].length > Len(heap[o].members) THEN heap[o].length - Len(heap[o].members) ELSE 0,
    {o \in DOMAIN heap : heap[o].array})

\* Every value is taken, and there are at most so many, so deep, with so much
\* text in all; shared objects count as often as they are reached.
Bounded(lenient, heap, slack) ==
  LET walks == Walks(heap) IN
  /\ Cardinality(walks) + slack <= MaxValues
  /\ \A w \in walks :
       /\ Len(w) <= MaxDepth
       /\ Taken(lenient, At(heap, w), Len(w))
       /\ At(heap, w).kind = "object" => heap[At(heap, w).of].form \in Forms(lenient)
  /\ FS!MapThenSumSet(LAMBDA w : TextAt(heap, w), walks) <= MaxTextUnits

\* A capture keeps the bounds, and only the last value may be refused too early
\* (an array is asked for one key more than it has members), or as many as an
\* array has holes.
CaptureExact(lenient, heap) ==
  LET fits == Visit(lenient, heap, Object(Root), 0, {}, Unvisited).fits IN
  /\ fits => Bounded(lenient, heap, 0)
  /\ Bounded(lenient, heap, 1 + Holes(heap)) => fits
=============================================================================
