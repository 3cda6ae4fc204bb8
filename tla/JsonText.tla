------------------------------- MODULE JsonText -------------------------------
(***************************************************************************)
(* JsonDocument.parse of src/json-document.ts: brackets are counted over   *)
(* the tokens of a text before the recursive parser and the recursive      *)
(* validation see it.                                                      *)
(*                                                                         *)
(* A text is its tokens, which are sequences of characters, and the tree   *)
(* the parser makes of it, Malformed if it reports an error. A leaf of a   *)
(* tree has its lexeme and its value; the children of an object are pairs  *)
(* of a key and a node. The byte limit a caller may ask for is the         *)
(* caller's.                                                               *)
(***************************************************************************)
EXTENDS Declarations, TLC

LOCAL SE == INSTANCE SequencesExt
LOCAL FN == INSTANCE Functions
LOCAL FS == INSTANCE FiniteSetsExt

CONSTANTS
  JsonTexts,
  MaxNesting,   \* 256
  Unparsed

VARIABLES
  given,    \* #text
  parsed    \* what the last parse() returned

parsing == <<given, parsed>>

Opens == {"{", "["}
Closing == ("{" :> "}") @@ ("[" :> "]")

\* Mutation of Bracket: characters are looked at inside of longer tokens too.
Bracket_Inside(token) == FN!Range(token) \cap (Opens \cup FN!Range(Closing))

\* Only a token of one character is a bracket.
Bracket(token) == IF Len(token) = 1 THEN FN!Range(token) \cap (Opens \cup FN!Range(Closing)) ELSE {}

NothingOpen == [error |-> "none", openings |-> <<>>]

Count(sum, c) ==
  IF c \in Opens THEN
    [openings |-> Append(sum.openings, c),
     error |-> IF Len(sum.openings) = MaxNesting THEN "json_nesting_limit" ELSE "none"]
  ELSE IF sum.openings = <<>> \/ Closing[SE!Last(sum.openings)] # c THEN [sum EXCEPT !.error = "invalid_json"]
  ELSE [sum EXCEPT !.openings = SE!Front(@)]

\* #checkNesting
Nesting(tokens) ==
  LET Scan(sum, token) ==
        IF sum.error # "none" \/ Bracket(token) = {} THEN sum ELSE Count(sum, CHOOSE c \in Bracket(token) : TRUE)
      end == SE!FoldLeft(Scan, NothingOpen, tokens) IN
  IF end.error = "none" /\ end.openings # <<>> THEN "invalid_json" ELSE end.error

MemberNames(node) == [i \in DOMAIN node.children |-> node.children[i].key.value]

\* #validate; which error comes first is left out.
RECURSIVE NodeErrors(_)
NodeErrors(node) ==
  (IF node.type = "number" /\ node.value \in {"infinite", "-0"} THEN {"invalid_json_number"} ELSE {})
    \cup (IF node.type = "string" /\ node.value = "ill-formed" THEN {"invalid_unicode"} ELSE {})
    \cup (IF node.type = "object" /\ ~ SE!IsInjective(MemberNames(node)) THEN {"duplicate_json_member"} ELSE {})
    \cup UNION {NodeErrors(node.children[i].node) \cup
                (IF node.type = "object" THEN NodeErrors(node.children[i].key) ELSE {}) : i \in DOMAIN node.children}

ParseErrors(t) ==
  IF Nesting(t.tokens) # "none" THEN {Nesting(t.tokens)}
  ELSE IF t.tree = Malformed THEN {"invalid_json"}
  ELSE NodeErrors(t.tree)

TextInit == given \in JsonTexts /\ parsed = Unparsed

Parse ==
  /\ ParseErrors(given) = {}
  /\ parsed' = given.tree
  /\ UNCHANGED given
-----------------------------------------------------------------------------
RECURSIVE Nested(_)
Nested(node) ==
  IF node.type \in {"object", "array"}
  THEN 1 + FS!Max({0} \cup {Nested(node.children[i].node) : i \in DOMAIN node.children})
  ELSE 0

RECURSIVE Nodes(_)
Nodes(node) ==
  {node} \cup UNION {Nodes(node.children[i].node) : i \in DOMAIN node.children}

\* A text is parsed exactly if it denotes a value that is not nested too deep, in
\* which no member has the name of another one, in whatever spelling, and every
\* number and text survives: brackets inside of texts count for nothing.
TextsExact ==
  /\ given.tree = Malformed => ParseErrors(given) # {}
  /\ given.tree # Malformed => (ParseErrors(given) = {} <=>
       /\ Nested(given.tree) <= MaxNesting
       /\ \A node \in Nodes(given.tree) :
            /\ node.type = "number" => node.value \notin {"infinite", "-0"}
            /\ node.type = "string" => node.value # "ill-formed"
            /\ node.type = "object" => \A i, j \in DOMAIN node.children :
                 /\ node.children[i].key.value # "ill-formed"
                 /\ i # j => node.children[i].key.value # node.children[j].key.value)
=============================================================================
