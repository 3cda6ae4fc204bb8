----------------------------- MODULE Declarations -----------------------------
(***************************************************************************)
(* DeclarationObject of src/declaration-object.ts, the reader of closed    *)
(* objects. An object is a record of the members it has, so that one too   *)
(* many or too few is seen in its DOMAIN; what is no object, no text or a  *)
(* blank text is Malformed.                                                *)
(***************************************************************************)
EXTENDS Naturals, Sequences, Checks

CONSTANT Malformed

\* fields(): what is missing is told apart from what is too much.
FieldsError(record, required, error, unsupported) ==
  IF record = Malformed THEN error
  ELSE FirstError(<<
    <<~ (required \subseteq DOMAIN record), error>>,
    <<~ (DOMAIN record \subseteq required), unsupported>> >>)

\* text() of each of the members.
Texts(record, members) == \A m \in members : record[m] # Malformed
=============================================================================
