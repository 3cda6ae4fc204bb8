----------------------- MODULE ProposalExchangeProofs -----------------------
(***************************************************************************)
(* Proofs about ProposalExchange, for all documents, schemas and limits:   *)
(* what one request, and one receipt hash, settle; and that the order of   *)
(* timestamp texts, which the checks compare, is the order of instants.    *)
(***************************************************************************)
EXTENDS ProposalExchange, Integers, SequenceTheorems, TLAPS

\* The evidence and the exchange that passed have the fields and the links the
\* checks read.
Linked(c) ==
  /\ IsRecord(c.answered) /\ Closed(c.answered, ResultFields)
  /\ IsRecord(c.context) /\ IsRecord(c.runtime) /\ IsRecord(c.app)
  /\ c.context # Malformed => IsRecord(c.context.policies)
  /\ c.answered.result = "success"
  /\ \A f \in CommonFields \ {"span_id"} : c.answered[f] = c.asked[f]
  /\ PairChecks(Evidence(c.asked, c.answered), c.context, c.runtime, c.app)

\* The inductive invariant.
IInv ==
  /\ TypeOK
  /\ pending # Nothing =>
       /\ pending = Evidence(retained, pending.result)
       /\ IsRecord(pending.result) /\ Closed(pending.result, ResultFields)
       /\ pending.result.result = "success"
       /\ \A f \in CommonFields \ {"span_id"} : pending.result[f] = retained[f]
  /\ inline # Nothing =>
       /\ IsRecord(inline.context) /\ IsRecord(inline.runtime)
       /\ inline.context # Malformed => IsRecord(inline.context.policies)
  /\ retained = Nothing => pending = Nothing /\ checked = Nothing
  /\ checked # Nothing =>
       /\ checked = Chain(Evidence(checked.asked, checked.answered), checked.context,
                          checked.runtime, checked.app)
       /\ Linked(checked)

-----------------------------------------------------------------------------
(***************************************************************************)
(* Records                                                                 *)
(***************************************************************************)

\* Closed records that agree in every member are equal.
LEMMA SameRecord ==
  ASSUME NEW a, NEW b, NEW fields,
         IsRecord(a), IsRecord(b), Closed(a, fields), Closed(b, fields),
         \A f \in fields : a[f] = b[f]
  PROVE  a = b
  BY DEF IsRecord, Closed

\* The hash of a canonical text stands for the text.
LEMMA HashInjective ==
  ASSUME NEW domain, NEW view, NEW other, Hash(domain, view) = Hash(domain, other)
  PROVE  view = other
<1>1. Hash(domain, view).view = view /\ Hash(domain, other).view = other
  BY DEF Hash
<1> QED BY <1>1

\* A receipt is settled by its hash, whatever its fields are.
LEMMA ReceiptOfHash ==
  ASSUME NEW a, NEW b, NEW fields,
         IsRecord(a), IsRecord(b), Closed(a, fields), Closed(b, fields),
         a.receipt_hash = b.receipt_hash,
         a.receipt_hash = ReceiptHash(a), b.receipt_hash = ReceiptHash(b)
  PROVE  a = b
<1>1. Without(a, "receipt_hash") = Without(b, "receipt_hash")
  BY HashInjective, Zenon DEF ReceiptHash
<1>2. \A f \in fields \ {"receipt_hash"} : a[f] = b[f]
  <2>1. DOMAIN a = fields /\ DOMAIN b = fields
    BY DEF Closed
  <2>2. ASSUME NEW f \in fields \ {"receipt_hash"} PROVE a[f] = b[f]
    <3>1. Without(a, "receipt_hash")[f] = a[f] /\ Without(b, "receipt_hash")[f] = b[f]
      BY <2>1 DEF Without
    <3> QED BY <3>1, <1>1
  <2> QED BY <2>2
<1>3. \A f \in fields : a[f] = b[f]
  BY <1>2
<1> QED BY <1>3, SameRecord
-----------------------------------------------------------------------------
(***************************************************************************)
(* Two exchanges that passed                                               *)
(***************************************************************************)

\* The request settles the runtime's receipt.
LEMMA RuntimeOfRequest ==
  ASSUME NEW a, NEW b, Linked(a), Linked(b), a.asked = b.asked
  PROVE  a.runtime = b.runtime
<1>1. RuntimeChecks(a.asked, a.context, a.runtime) /\ RuntimeChecks(b.asked, b.context, b.runtime)
  BY DEF Linked, PairChecks, Evidence
<1>2. /\ ReceiptStands(a.runtime, "runtime", a.context)
      /\ ReceiptStands(b.runtime, "runtime", b.context)
      /\ a.runtime.receipt_hash = b.runtime.receipt_hash
  BY <1>1 DEF RuntimeChecks
<1>3. /\ Closed(a.runtime, FieldsOf("runtime")) /\ Closed(b.runtime, FieldsOf("runtime"))
      /\ a.runtime.receipt_hash = ReceiptHash(a.runtime)
      /\ b.runtime.receipt_hash = ReceiptHash(b.runtime)
  BY <1>2 DEF ReceiptStands
<1> QED BY <1>2, <1>3, ReceiptOfHash DEF Linked

\* With the hash the result names, the application's receipt.
LEMMA AppOfResult ==
  ASSUME NEW a, NEW b, Linked(a), Linked(b),
         a.answered.receipt_hash = b.answered.receipt_hash
  PROVE  a.app = b.app
<1>1. /\ ReceiptStands(a.app, "app", a.context) /\ ReceiptStands(b.app, "app", b.context)
      /\ a.app.receipt_hash = b.app.receipt_hash
  BY DEF Linked, PairChecks, Evidence
<1>2. /\ Closed(a.app, FieldsOf("app")) /\ Closed(b.app, FieldsOf("app"))
      /\ a.app.receipt_hash = ReceiptHash(a.app) /\ b.app.receipt_hash = ReceiptHash(b.app)
  BY <1>1 DEF ReceiptStands
<1> QED BY <1>1, <1>2, ReceiptOfHash DEF Linked

\* The receipts and the request settle the result, its output included.
LEMMA ResultOfReceipt ==
  ASSUME NEW a, NEW b, Linked(a), Linked(b), a.asked = b.asked, a.app = b.app
  PROVE  a.answered = b.answered
<1>1. /\ a.app.receipt_id = a.answered.receipt_id /\ b.app.receipt_id = b.answered.receipt_id
      /\ a.app.receipt_hash = a.answered.receipt_hash /\ b.app.receipt_hash = b.answered.receipt_hash
      /\ a.app.span_id = a.answered.span_id /\ b.app.span_id = b.answered.span_id
      /\ a.app.output_hash = Hash("action-output", a.answered.output)
      /\ b.app.output_hash = Hash("action-output", b.answered.output)
  BY DEF Linked, PairChecks, Evidence
<1>2. a.answered.output = b.answered.output
  BY <1>1, HashInjective, Zenon
<1>3. \A f \in CommonFields \ {"span_id"} : a.answered[f] = b.answered[f]
  BY DEF Linked
<1>4. \A f \in {"span_id", "result", "output", "receipt_id", "receipt_hash"} :
        a.answered[f] = b.answered[f]
  BY <1>1, <1>2 DEF Linked
<1>5. \A f \in ResultFields : a.answered[f] = b.answered[f]
  BY <1>3, <1>4 DEF ResultFields
<1> QED BY <1>5, SameRecord DEF Linked

\* And the context, policies included.
LEMMA ContextOfReceipts ==
  ASSUME NEW a, NEW b, Linked(a), Linked(b),
         a.asked = b.asked, a.runtime = b.runtime, a.app = b.app
  PROVE  a.context = b.context
<1>1. /\ ContextFits(a.context, a.asked) /\ ContextFits(b.context, b.asked)
      /\ ReceiptStands(a.runtime, "runtime", a.context) /\ ReceiptStands(b.runtime, "runtime", b.context)
      /\ ReceiptStands(a.app, "app", a.context) /\ ReceiptStands(b.app, "app", b.context)
  BY DEF Linked, PairChecks, RuntimeChecks, Evidence
<1>2. /\ IsContext(a.context) /\ IsContext(b.context)
      /\ \A f \in RequestBound : a.context[f] = b.context[f]
  BY <1>1 DEF ContextFits
<1>3. \A f \in ContextBound : a.context[f] = b.context[f]
  BY <1>1 DEF ReceiptStands
<1>4. /\ Closed(a.context, ContextFields) /\ Closed(b.context, ContextFields)
      /\ Closed(a.context.policies, {"runtime", "application"})
      /\ Closed(b.context.policies, {"runtime", "application"})
  BY <1>2 DEF IsContext
<1>5. a.context.policies.runtime = b.context.policies.runtime
  <2>1. DecisionStands(a.runtime, "runtime", a.context) /\ DecisionStands(b.runtime, "runtime", b.context)
    BY <1>1 DEF ReceiptStands
  <2> QED BY <2>1 DEF DecisionStands, SelectedRole
<1>6. a.context.policies.application = b.context.policies.application
  <2>1. DecisionStands(a.app, "app", a.context) /\ DecisionStands(b.app, "app", b.context)
    BY <1>1 DEF ReceiptStands
  <2> QED BY <2>1 DEF DecisionStands, SelectedRole
<1>7. IsRecord(a.context.policies) /\ IsRecord(b.context.policies)
  BY <1>4 DEF Linked, Closed
<1>8. \A f \in {"runtime", "application"} : a.context.policies[f] = b.context.policies[f]
  BY <1>5, <1>6
<1>9. a.context.policies = b.context.policies
  BY <1>4, <1>7, <1>8, SameRecord
<1>10. \A f \in ContextFields : a.context[f] = b.context[f]
  BY <1>2, <1>3, <1>9 DEF RequestBound, ContextBound
<1> QED BY <1>4, <1>10, SameRecord DEF Linked
-----------------------------------------------------------------------------
(***************************************************************************)
(* The invariant                                                           *)
(***************************************************************************)

\* What a correlated result has in common with its request.
LEMMA CorrelatedResult ==
  ASSUME NEW request, NEW document, Correlates(request, document)
  PROVE  LET result == document.value.payload IN
         /\ document.value # Malformed
         /\ Closed(result, ResultFields)
         /\ result.result = "success"
         /\ \A f \in CommonFields \ {"span_id"} : result[f] = request[f]
<1>1. IsResult(document.value)
  BY DEF Correlates
<1>2. /\ document.value # Malformed
      /\ Closed(document.value.payload, ResultFields)
      /\ document.value.payload.result = "success"
  BY <1>1 DEF IsResult, Payload
<1>3. /\ \A f \in CorrelationFields : document.value.payload[f] = request[f]
      /\ document.value.payload["execution"] = request["execution"]
  BY DEF Correlates
<1>4. CommonFields \ {"span_id"} = CorrelationFields \cup {"execution"}
  BY DEF CommonFields, CorrelationFields
<1> QED BY <1>2, <1>3, <1>4

\* An exchange that passes a check is linked.
LEMMA PassedIsLinked ==
  ASSUME NEW evidence, NEW context, NEW runtime, NEW app,
         evidence = Evidence(evidence.request, evidence.result),
         IsRecord(evidence.result), Closed(evidence.result, ResultFields),
         evidence.result.result = "success",
         \A f \in CommonFields \ {"span_id"} : evidence.result[f] = evidence.request[f],
         IsRecord(context), IsRecord(runtime), IsRecord(app),
         context # Malformed => IsRecord(context.policies),
         PairChecks(evidence, context, runtime, app)
  PROVE  /\ Linked(Chain(evidence, context, runtime, app))
         /\ Chain(evidence, context, runtime, app).asked = evidence.request
<1> DEFINE c == Chain(evidence, context, runtime, app)
<1>1. /\ c.asked = evidence.request /\ c.answered = evidence.result /\ c.context = context
      /\ c.runtime = runtime /\ c.app = app
  BY DEF Chain
<1>2. PairChecks(Evidence(c.asked, c.answered), c.context, c.runtime, c.app)
  BY <1>1
<1> HIDE DEF c
<1>3. Linked(c)
  BY <1>1, <1>2 DEF Linked
<1> QED BY <1>1, <1>3 DEF c

\* A chain is the record of its parts.
LEMMA ChainOfParts ==
  ASSUME NEW evidence, NEW context, NEW runtime, NEW app,
         evidence = Evidence(evidence.request, evidence.result)
  PROVE  LET c == Chain(evidence, context, runtime, app) IN
         c = Chain(Evidence(c.asked, c.answered), c.context, c.runtime, c.app)
  BY DEF Chain

\* The invariant holds at first.
LEMMA InitIInv == Init => IInv
  BY DEF Init, IInv, TypeOK

\* Every call preserves it.
LEMMA NextIInv == IInv /\ [Next]_exchange => IInv'
<1> SUFFICES ASSUME IInv, [Next]_exchange PROVE IInv'
  OBVIOUS
<1>1. ASSUME NEW document \in RequestDocuments, Prepare(document) PROVE IInv'
  BY <1>1 DEF IInv, TypeOK, Prepare
<1>2. ASSUME NEW document \in ResultDocuments, Correlate(document) PROVE IInv'
  <2> DEFINE result == document.value.payload
  <2>1. Correlates(retained, document)
    BY <1>2 DEF Correlate
  <2>2. /\ document.value # Malformed /\ Closed(result, ResultFields) /\ result.result = "success"
        /\ \A f \in CommonFields \ {"span_id"} : result[f] = retained[f]
    BY <2>1, CorrelatedResult
  <2>3. IsRecord(result)
    BY <2>2, ExchangeAssumption
  <2>4. /\ pending' = Evidence(retained, result) /\ retained' = retained
        /\ inline' = inline /\ checked' = checked /\ inline = Nothing /\ retained # Nothing
    BY <1>2 DEF Correlate
  <2>5. pending'.request = retained /\ pending'.result = result
    BY <2>4 DEF Evidence
  <2> HIDE DEF result
  <2> QED BY <2>2, <2>3, <2>4, <2>5 DEF IInv, TypeOK
<1>3. ASSUME NEW p \in Presentations, CheckReceipts(p) PROVE IInv'
  <2>1. /\ pending # Nothing /\ PairChecks(pending, p.context, p.runtime, p.app)
        /\ checked' = Chain(pending, p.context, p.runtime, p.app)
        /\ UNCHANGED <<retained, inline, pending>>
    BY <1>3 DEF CheckReceipts
  <2>2. /\ pending.request = retained /\ pending = Evidence(pending.request, pending.result)
        /\ IsRecord(pending.result) /\ Closed(pending.result, ResultFields)
        /\ pending.result.result = "success"
        /\ \A f \in CommonFields \ {"span_id"} : pending.result[f] = pending.request[f]
    BY <2>1 DEF IInv, TypeOK
  <2>3. /\ IsRecord(p.context) /\ IsRecord(p.runtime) /\ IsRecord(p.app)
        /\ p.context # Malformed => IsRecord(p.context.policies)
    BY ExchangeAssumption
  <2>4. Linked(checked') /\ checked'.asked = retained
    BY <2>1, <2>2, <2>3, PassedIsLinked
  <2>5. checked' = Chain(Evidence(checked'.asked, checked'.answered), checked'.context,
                         checked'.runtime, checked'.app)
    BY <2>1, <2>2, ChainOfParts
  <2>6. TypeOK' /\ (retained' = Nothing => FALSE)
    BY <2>1, <2>4 DEF IInv, TypeOK
  <2> QED BY <2>1, <2>4, <2>5, <2>6 DEF IInv, Linked
<1>4. ASSUME NEW offer \in InlineOffers, PrepareInline(offer) PROVE IInv'
  <2>1. /\ retained = Nothing /\ OfferAccepted(offer)
        /\ inline'.context = offer.context
        /\ inline'.runtime = offer.document.value.carrier.receipt
        /\ UNCHANGED <<pending, checked>>
    BY <1>4 DEF PrepareInline
  <2>2. pending = Nothing /\ checked = Nothing
    BY <2>1 DEF IInv
  <2>3. offer.document.value # Malformed /\ offer.document.value.carrier # Malformed
    BY <2>1 DEF OfferAccepted, Carries
  <2>4. /\ IsRecord(offer.context) /\ IsRecord(offer.document.value.carrier.receipt)
        /\ offer.context # Malformed => IsRecord(offer.context.policies)
    BY <2>3, ExchangeAssumption
  <2>5. pending' = Nothing /\ checked' = Nothing
    BY <2>1, <2>2
  <2> QED BY <2>1, <2>4, <2>5 DEF IInv, TypeOK
<1>5. ASSUME NEW document \in InlineResults, CheckInline(document) PROVE IInv'
  <2> DEFINE result == document.value.payload
             receipt == document.value.carrier.receipt
             evidence == Evidence(retained, result)
  <2>1. /\ Carries(document, "action.result") /\ Correlates(retained, Message(document))
        /\ PairChecks(evidence, inline.context, inline.runtime, receipt)
        /\ checked' = Chain(evidence, inline.context, inline.runtime, receipt)
        /\ retained # Nothing /\ inline # Nothing
        /\ UNCHANGED <<retained, inline, pending>>
    BY <1>5 DEF CheckInline, InlineChecks
  <2>2. Message(document).value.payload = result
    BY DEF Message
  <2>3. /\ Closed(result, ResultFields) /\ result.result = "success"
        /\ \A f \in CommonFields \ {"span_id"} : result[f] = retained[f]
    BY <2>1, <2>2, CorrelatedResult
  <2>4. document.value # Malformed /\ document.value.carrier # Malformed
    BY <2>1 DEF Carries
  <2>5. /\ IsRecord(result) /\ IsRecord(receipt)
        /\ IsRecord(inline.context) /\ IsRecord(inline.runtime)
        /\ inline.context # Malformed => IsRecord(inline.context.policies)
    BY <2>1, <2>4, ExchangeAssumption DEF IInv
  <2>6. evidence.request = retained /\ evidence.result = result
    BY DEF Evidence
  <2> HIDE DEF result, receipt
  <2>7. evidence = Evidence(evidence.request, evidence.result)
    BY <2>6
  <2> HIDE DEF evidence
  <2>8. Linked(checked') /\ checked'.asked = retained
    BY <2>1, <2>3, <2>5, <2>6, <2>7, PassedIsLinked
  <2>9. checked' = Chain(Evidence(checked'.asked, checked'.answered), checked'.context,
                         checked'.runtime, checked'.app)
    BY <2>1, <2>7, ChainOfParts
  <2>10. TypeOK' /\ retained' # Nothing
    BY <2>1, <2>8 DEF IInv, TypeOK
  <2> QED BY <2>1, <2>8, <2>9, <2>10 DEF IInv, Linked
<1>6. ASSUME UNCHANGED exchange PROVE IInv'
  BY <1>6 DEF IInv, TypeOK, exchange, Linked
<1> QED BY <1>1, <1>2, <1>3, <1>4, <1>5, <1>6 DEF Next

\* The evidence is about the request that was retained, in every behaviour.
THEOREM TypeCorrect == Spec => []TypeOK
<1>1. IInv => TypeOK
  BY DEF IInv
<1> QED BY InitIInv, NextIInv, <1>1, PTL DEF Spec
-----------------------------------------------------------------------------
(***************************************************************************)
(* What the retained request settles                                       *)
(***************************************************************************)

\* A request, once retained, is retained for good; so two exchanges that pass
\* one after the other have it in common.
LEMMA SettledStep ==
  ASSUME IInv, IInv', [Next]_exchange, checked # Nothing, checked' # Nothing
  PROVE  /\ checked'.asked = checked.asked /\ checked'.runtime = checked.runtime
         /\ checked'.answered.receipt_hash = checked.answered.receipt_hash => checked' = checked
<1>1. retained # Nothing
  BY DEF IInv
<1>2. retained' = retained
  BY <1>1 DEF Next, Prepare, Correlate, CheckReceipts, PrepareInline, CheckInline, exchange
<1>3. checked'.asked = checked.asked
  BY <1>2 DEF IInv, TypeOK
<1>4. Linked(checked) /\ Linked(checked')
  BY DEF IInv
<1>5. checked'.runtime = checked.runtime
  BY <1>3, <1>4, RuntimeOfRequest
<1>6. ASSUME checked'.answered.receipt_hash = checked.answered.receipt_hash
      PROVE  checked' = checked
  <2>1. checked'.app = checked.app
    BY <1>4, <1>6, AppOfResult
  <2>2. checked'.answered = checked.answered
    BY <1>3, <1>4, <2>1, ResultOfReceipt
  <2>3. checked'.context = checked.context
    BY <1>3, <1>4, <1>5, <2>1, ContextOfReceipts
  <2>4. /\ checked = Chain(Evidence(checked.asked, checked.answered), checked.context,
                           checked.runtime, checked.app)
        /\ checked' = Chain(Evidence(checked'.asked, checked'.answered), checked'.context,
                            checked'.runtime, checked'.app)
    BY DEF IInv
  <2> QED BY <1>3, <1>5, <2>1, <2>2, <2>3, <2>4
<1> QED BY <1>3, <1>5, <1>6

\* No second runtime receipt passes for a request, and no second context, output
\* or receipt for a receipt hash.
THEOREM ReceiptSettlesExchange == Spec => OneExchangePerReceipt
<1>1. ASSUME IInv, IInv', [Next]_exchange
      PROVE  [checked # Nothing /\ checked' # Nothing =>
                /\ checked'.asked = checked.asked /\ checked'.runtime = checked.runtime
                /\ checked'.answered.receipt_hash = checked.answered.receipt_hash =>
                     checked' = checked]_exchange
  BY <1>1, SettledStep
<1> QED BY InitIInv, NextIInv, <1>1, PTL DEF Spec, OneExchangePerReceipt
-----------------------------------------------------------------------------
(***************************************************************************)
(* The order of texts is the order of instants.                            *)
(***************************************************************************)

\* Each year takes its 365 days and its leap day, if it has one.
LEMMA YearsAscend ==
  ASSUME NEW y \in Nat, NEW z \in Nat, y < z
  PROVE  DaysBefore(z) >= DaysBefore(y) + 365 + LeapDay(y)
<1> DEFINE Leaps(n) == n \div 4 - n \div 100 + n \div 400
<1>1. ASSUME NEW n \in Nat, NEW k \in Nat, n <= k PROVE Leaps(n) <= Leaps(k)
  <2>1. ASSUME NEW m \in Nat
        PROVE  m \div 100 = (m \div 4) \div 25 /\ m \div 400 = (m \div 4) \div 100
    BY Z3
  <2>2. ASSUME NEW p \in Nat, NEW q \in Nat, p <= q
        PROVE  p - p \div 25 + p \div 100 <= q - q \div 25 + q \div 100
    <3>1. \A m \in Nat :
            /\ m \div 25 \in Int /\ 25 * (m \div 25) <= m /\ m < 25 * (m \div 25) + 25
            /\ m \div 100 \in Int /\ 100 * (m \div 100) <= m /\ m < 100 * (m \div 100) + 100
      BY Z3
    <3>2. ASSUME NEW c \in Int, NEW e \in Int, NEW f \in Int, NEW g \in Int,
                 25 * c <= p, p < 25 * c + 25, 25 * e <= q, q < 25 * e + 25,
                 100 * f <= p, p < 100 * f + 100, 100 * g <= q, q < 100 * g + 100
          PROVE  p - c + f <= q - e + g
      <4>1. f <= g
        BY <2>2, <3>2
      <4>2. e - c <= q - p
        <5>1. 25 * (e - c) < (q - p) + 25
          BY <3>2
        <5>2. q - p \in Nat /\ e - c \in Int
          BY <2>2, <3>2
        <5>3. \A i \in Int, gap \in Nat : 25 * i < gap + 25 => i <= gap
          OBVIOUS
        <5> QED BY <5>1, <5>2, <5>3
      <4> QED BY <3>2, <4>1, <4>2
    <3> QED BY <3>1, <3>2
  <2>3. n \div 4 \in Nat /\ k \div 4 \in Nat /\ n \div 4 <= k \div 4
    <3>1. \A m \in Nat : m \div 4 \in Nat /\ 4 * (m \div 4) <= m /\ m < 4 * (m \div 4) + 4
      BY Z3
    <3>2. ASSUME NEW c \in Nat, NEW e \in Nat, 4 * c <= n, k < 4 * e + 4 PROVE c <= e
      BY <1>1, <3>2
    <3> QED BY <3>1, <3>2
  <2> QED BY <2>1, <2>2, <2>3
<1>2. ASSUME NEW n \in Nat, n > 0
      PROVE  Leaps(n) = Leaps(n - 1) + LeapDay(n)
  BY Z3 DEF Leap, LeapDay
<1>3. Leaps(0) = 0 /\ LeapDay(0) = 1
  BY Z3 DEF Leap, LeapDay
<1>4. \A n \in Nat : Leaps(n) \in Int /\ LeapDay(n) \in Int
  BY Z3 DEF LeapDay
<1> HIDE DEF Leaps
<1>5. DaysBefore(z) = 365 * z + 1 + Leaps(z - 1)
  BY DEF DaysBefore, Leaps
<1>6. CASE y = 0
  BY <1>1, <1>3, <1>4, <1>5, <1>6 DEF DaysBefore
<1>7. CASE y > 0
  <2>1. DaysBefore(y) = 365 * y + 1 + Leaps(y - 1)
    BY <1>7 DEF DaysBefore, Leaps
  <2>2. Leaps(y) <= Leaps(z - 1) /\ Leaps(y) = Leaps(y - 1) + LeapDay(y)
    BY <1>1, <1>2, <1>7
  <2> QED BY <1>4, <1>5, <1>7, <2>1, <2>2
<1> QED BY <1>6, <1>7

\* The numbers of a timestamp are in their ranges.
LEMMA UtcFields ==
  ASSUME NEW t, IsUtc(t)
  PROVE  /\ t.year \in Nat /\ t.month \in 1..12
         /\ t.day \in 1..DaysIn(t.year, t.month) /\ t.day \in Nat
         /\ t.hour \in 0..23 /\ t.minute \in 0..59 /\ t.second \in 0..59
<1>1. /\ t.year \in Nat /\ t.month \in 1..12
      /\ t.hour \in 0..23 /\ t.minute \in 0..59 /\ t.second \in 0..59
  BY DEF IsUtc
<1>2. t.day \in 1..DaysIn(t.year, t.month)
  BY DEF IsUtc
<1>3. DaysIn(t.year, t.month) \in 28..31
  BY <1>1 DEF DaysIn
<1> QED BY <1>1, <1>2, <1>3

\* A month ends before the next one starts, and the last one with the year.
LEMMA MonthsAscend ==
  ASSUME NEW year, NEW m \in 1..12
  PROVE  /\ MonthStart(year, m) \in Nat /\ DaysIn(year, m) \in 28..31 /\ LeapDay(year) \in 0..1
         /\ MonthStart(year, m) + DaysIn(year, m) <= 365 + LeapDay(year)
         /\ \A n \in 1..12 : m < n => MonthStart(year, m) + DaysIn(year, m) <= MonthStart(year, n)
<1>1. /\ DaysBeforeMonth[1] = 0 /\ DaysBeforeMonth[2] = 31 /\ DaysBeforeMonth[3] = 59
      /\ DaysBeforeMonth[4] = 90 /\ DaysBeforeMonth[5] = 120 /\ DaysBeforeMonth[6] = 151
      /\ DaysBeforeMonth[7] = 181 /\ DaysBeforeMonth[8] = 212 /\ DaysBeforeMonth[9] = 243
      /\ DaysBeforeMonth[10] = 273 /\ DaysBeforeMonth[11] = 304 /\ DaysBeforeMonth[12] = 334
  BY DEF DaysBeforeMonth
<1>2. LeapDay(year) \in 0..1 /\ (Leap(year) <=> LeapDay(year) = 1)
  BY DEF LeapDay
<1> DEFINE Year == LeapDay(year)
           End(k) == MonthStart(year, k) + DaysIn(year, k)
<1>3. /\ MonthStart(year, 1) = 0 /\ MonthStart(year, 2) = 31 /\ MonthStart(year, 3) = 59 + Year
      /\ MonthStart(year, 4) = 90 + Year /\ MonthStart(year, 5) = 120 + Year
      /\ MonthStart(year, 6) = 151 + Year /\ MonthStart(year, 7) = 181 + Year
      /\ MonthStart(year, 8) = 212 + Year /\ MonthStart(year, 9) = 243 + Year
      /\ MonthStart(year, 10) = 273 + Year /\ MonthStart(year, 11) = 304 + Year
      /\ MonthStart(year, 12) = 334 + Year
  BY <1>1, <1>2 DEF MonthStart
<1>4. /\ DaysIn(year, 1) = 31 /\ DaysIn(year, 2) = 28 + Year /\ DaysIn(year, 3) = 31
      /\ DaysIn(year, 4) = 30 /\ DaysIn(year, 5) = 31 /\ DaysIn(year, 6) = 30
      /\ DaysIn(year, 7) = 31 /\ DaysIn(year, 8) = 31 /\ DaysIn(year, 9) = 30
      /\ DaysIn(year, 10) = 31 /\ DaysIn(year, 11) = 30 /\ DaysIn(year, 12) = 31
  BY <1>2 DEF DaysIn
<1>5. Year \in 0..1
  BY <1>2
<1> HIDE DEF Year
<1>6. ASSUME NEW k \in 1..11 PROVE End(k) = MonthStart(year, k + 1)
  <2>1. \/ k = 1 \/ k = 2 \/ k = 3 \/ k = 4 \/ k = 5 \/ k = 6 \/ k = 7 \/ k = 8 \/ k = 9
        \/ k = 10 \/ k = 11
    OBVIOUS
  <2> QED BY <1>3, <1>4, <1>5, <2>1
<1>7. ASSUME NEW k \in 1..12
      PROVE  MonthStart(year, k) \in Nat /\ MonthStart(year, k) <= 334 + Year /\ DaysIn(year, k) \in 28..31
  <2>1. \/ k = 1 \/ k = 2 \/ k = 3 \/ k = 4 \/ k = 5 \/ k = 6 \/ k = 7 \/ k = 8 \/ k = 9
        \/ k = 10 \/ k = 11 \/ k = 12
    OBVIOUS
  <2> QED BY <1>3, <1>4, <1>5, <2>1
<1>8. \A k, n \in 1..12 : k < n => MonthStart(year, k + 1) <= MonthStart(year, n)
  <2> SUFFICES ASSUME NEW k \in 1..12, NEW n \in 1..12, k < n
               PROVE  MonthStart(year, k + 1) <= MonthStart(year, n)
    OBVIOUS
  <2>1. /\ \/ k = 1 \/ k = 2 \/ k = 3 \/ k = 4 \/ k = 5 \/ k = 6 \/ k = 7 \/ k = 8 \/ k = 9
           \/ k = 10 \/ k = 11
        /\ \/ n = 2 \/ n = 3 \/ n = 4 \/ n = 5 \/ n = 6 \/ n = 7 \/ n = 8 \/ n = 9
           \/ n = 10 \/ n = 11 \/ n = 12
    OBVIOUS
  <2> QED BY <1>3, <1>5, <2>1
<1>9. End(m) <= 365 + Year
  <2>1. m = 12 \/ m \in 1..11
    OBVIOUS
  <2>2. \A k \in 1..11 : k + 1 \in 1..12
    OBVIOUS
  <2>3. m \in 1..11 => End(m) = MonthStart(year, m + 1) /\ MonthStart(year, m + 1) \in Nat
                         /\ MonthStart(year, m + 1) <= 334 + Year
    BY <1>6, <1>7, <2>2
  <2>4. MonthStart(year, 12) + DaysIn(year, 12) = 365 + Year
    BY <1>3, <1>4, <1>5
  <2> QED BY <1>5, <2>1, <2>3, <2>4
<1>10. \A n \in 1..12 : m < n => End(m) <= MonthStart(year, n)
  <2>1. \A n \in 1..12 : m < n => m \in 1..11
    OBVIOUS
  <2> QED BY <1>6, <1>8, <2>1
<1> QED BY <1>2, <1>7, <1>9, <1>10 DEF Year

\* A day of the calendar falls into its month, and its month into its year.
LEMMA DaysAscend ==
  ASSUME NEW a, NEW b, IsUtc(a), IsUtc(b)
  PROVE  /\ DayOfYear(a) \in Nat /\ 1 <= DayOfYear(a) /\ DayOfYear(a) <= 365 + LeapDay(a.year)
         /\ a.year = b.year /\ a.month < b.month => DayOfYear(a) < DayOfYear(b)
<1>1. /\ a.month \in 1..12 /\ b.month \in 1..12 /\ a.day \in Nat /\ b.day \in Nat
      /\ a.day \in 1..DaysIn(a.year, a.month) /\ b.day \in 1..DaysIn(b.year, b.month)
  BY UtcFields
<1>2. /\ MonthStart(a.year, a.month) \in Nat /\ MonthStart(b.year, b.month) \in Nat
      /\ DaysIn(a.year, a.month) \in Nat /\ DaysIn(b.year, b.month) \in Nat
      /\ LeapDay(a.year) \in Nat
      /\ MonthStart(a.year, a.month) + DaysIn(a.year, a.month) <= 365 + LeapDay(a.year)
  BY <1>1, MonthsAscend
<1>3. 1 <= a.day /\ a.day <= DaysIn(a.year, a.month) /\ 1 <= b.day
  BY <1>1, <1>2
<1>4. /\ DayOfYear(a) = MonthStart(a.year, a.month) + a.day
      /\ DayOfYear(b) = MonthStart(b.year, b.month) + b.day
  BY DEF DayOfYear
<1>5. ASSUME a.year = b.year, a.month < b.month PROVE DayOfYear(a) < DayOfYear(b)
  <2>1. MonthStart(a.year, a.month) + DaysIn(a.year, a.month) <= MonthStart(b.year, b.month)
    BY <1>1, <1>5, MonthsAscend
  <2> QED BY <1>1, <1>2, <1>3, <1>4, <2>1
<1> QED BY <1>1, <1>2, <1>3, <1>4, <1>5

\* So the calendar orders days.
LEMMA CalendarAscends ==
  ASSUME NEW a, NEW b, IsUtc(a), IsUtc(b), DayNumber(a) >= DayNumber(b)
  PROVE  \/ a.year > b.year
         \/ a.year = b.year /\ a.month > b.month
         \/ a.year = b.year /\ a.month = b.month /\ a.day >= b.day
<1>1. /\ a.year \in Nat /\ b.year \in Nat /\ a.month \in Nat /\ b.month \in Nat
      /\ a.day \in Int /\ b.day \in Int
  BY UtcFields
<1>2. ASSUME a.year < b.year PROVE FALSE
  <2>1. DaysBefore(b.year) >= DaysBefore(a.year) + 365 + LeapDay(a.year)
    BY <1>1, <1>2, YearsAscend
  <2>2. /\ DayOfYear(a) \in Nat /\ DayOfYear(a) <= 365 + LeapDay(a.year)
        /\ DayOfYear(b) \in Nat /\ 1 <= DayOfYear(b)
        /\ LeapDay(a.year) \in Int
    BY DaysAscend DEF LeapDay
  <2>3. DaysBefore(a.year) \in Int /\ DaysBefore(b.year) \in Int
    BY <1>1, Z3 DEF DaysBefore
  <2> QED BY <2>1, <2>2, <2>3 DEF DayNumber
<1>3. ASSUME a.year = b.year PROVE a.month >= b.month
  <2>1. DayOfYear(a) >= DayOfYear(b)
    <3>1. DaysBefore(a.year) \in Int /\ DayOfYear(a) \in Int /\ DayOfYear(b) \in Int
      BY <1>1, DaysAscend, Z3 DEF DaysBefore
    <3> QED BY <1>3, <3>1 DEF DayNumber
  <2>2. DayOfYear(a) \in Int /\ DayOfYear(b) \in Int
    BY DaysAscend
  <2> QED BY <1>1, <1>3, <2>1, <2>2, DaysAscend
<1>4. ASSUME a.year = b.year, a.month = b.month PROVE a.day >= b.day
  <2>1. DaysBefore(a.year) \in Int
    BY <1>1, Z3 DEF DaysBefore
  <2>2. MonthStart(a.year, a.month) \in Int
    BY UtcFields, MonthsAscend
  <2> QED BY <1>1, <1>4, <2>1, <2>2 DEF DayNumber, DayOfYear
<1> QED BY <1>1, <1>2, <1>3, <1>4

\* The members of two sequences that are joined.
LEMMA Joined ==
  ASSUME NEW S, NEW u \in Seq(S), NEW v \in Seq(S)
  PROVE  /\ u \o v \in Seq(S) /\ Len(u \o v) = Len(u) + Len(v)
         /\ \A i \in 1..Len(u) : (u \o v)[i] = u[i]
         /\ \A i \in 1..Len(v) : (u \o v)[Len(u) + i] = v[i]
<1>1. /\ u \o v \in Seq(S) /\ Len(u \o v) = Len(u) + Len(v)
      /\ \A i \in 1..(Len(u) + Len(v)) : (u \o v)[i] = IF i <= Len(u) THEN u[i] ELSE v[i - Len(u)]
  BY ConcatProperties
<1>2. Len(u) \in Nat /\ Len(v) \in Nat
  BY LenProperties
<1>3. \A i \in 1..Len(u) : i \in 1..(Len(u) + Len(v)) /\ i <= Len(u)
  BY <1>2
<1>4. \A i \in 1..Len(v) :
        /\ Len(u) + i \in 1..(Len(u) + Len(v)) /\ ~ (Len(u) + i <= Len(u))
        /\ (Len(u) + i) - Len(u) = i
  BY <1>2
<1>5. \A i \in 1..Len(u) : (u \o v)[i] = u[i]
  BY <1>1, <1>3
<1>6. \A i \in 1..Len(v) : (u \o v)[Len(u) + i] = v[i]
  BY <1>1, <1>4
<1> QED BY <1>1, <1>5, <1>6

\* A sequence that is padded with zeros has its members, and then zeros.
LEMMA Padded ==
  ASSUME NEW D, 0 \in D, NEW s \in Seq(D), NEW w \in Nat, Len(s) <= w
  PROVE  /\ PadEnd(s, w) \in Seq(D) /\ Len(PadEnd(s, w)) = w
         /\ \A i \in 1..w : PadEnd(s, w)[i] = IF i \in DOMAIN s THEN s[i] ELSE 0
<1> DEFINE z == [i \in 1..(w - Len(s)) |-> 0]
<1>1. Len(s) \in Nat /\ DOMAIN s = 1..Len(s)
  BY LenProperties
<1>2. w - Len(s) \in Nat
  BY <1>1
<1>3. z \in Seq(D) /\ Len(z) = w - Len(s) /\ \A i \in 1..(w - Len(s)) : z[i] = 0
  <2>1. z \in Seq(D)
    BY <1>2
  <2> QED BY <1>2, <2>1
<1>4. PadEnd(s, w) = s \o z
  BY DEF PadEnd
<1> HIDE DEF z
<1>5. /\ s \o z \in Seq(D) /\ Len(s \o z) = Len(s) + Len(z)
      /\ \A i \in 1..Len(s) : (s \o z)[i] = s[i]
      /\ \A i \in 1..Len(z) : (s \o z)[Len(s) + i] = z[i]
  BY <1>3, Joined
<1>6. Len(s) + Len(z) = w
  BY <1>1, <1>2, <1>3
<1>7. ASSUME NEW i \in 1..w PROVE (s \o z)[i] = IF i \in DOMAIN s THEN s[i] ELSE 0
  <2>1. CASE i <= Len(s)
    BY <1>1, <1>5, <2>1
  <2>2. CASE ~ (i <= Len(s))
    <3>1. i \notin DOMAIN s /\ i - Len(s) \in 1..(w - Len(s)) /\ Len(s) + (i - Len(s)) = i
      BY <1>1, <2>2
    <3> QED BY <1>3, <1>5, <3>1
  <2> QED BY <2>1, <2>2
<1>8. Len(s \o z) = w
  BY <1>5, <1>6
<1> QED BY <1>4, <1>5, <1>7, <1>8

\* The fraction of a timestamp as it is compared.
LEMMA PaddedFraction ==
  ASSUME NEW t, IsUtc(t)
  PROVE  /\ PadEnd(t.fraction, 9) \in Seq(Nat) /\ Len(PadEnd(t.fraction, 9)) = 9
         /\ \A i \in 1..9 : /\ PadEnd(t.fraction, 9)[i] = Digit(t, i)
                            /\ Digit(t, i) \in Nat /\ Digit(t, i) <= 9
<1> DEFINE D == 0..9
           s == t.fraction
<1>1. s \in Seq(D) /\ Len(s) <= 9
  BY DEF IsUtc, FractionWidth
<1>2. /\ 0 \in D /\ 9 \in Nat /\ D \subseteq Nat
      /\ \A d \in D : d \in Nat /\ d <= 9
  OBVIOUS
<1> HIDE DEF D, s
<1>3. /\ PadEnd(s, 9) \in Seq(D) /\ Len(PadEnd(s, 9)) = 9
      /\ \A i \in 1..9 : PadEnd(s, 9)[i] = IF i \in DOMAIN s THEN s[i] ELSE 0
  <2>1. \A w \in Nat : Len(s) <= w =>
          /\ PadEnd(s, w) \in Seq(D) /\ Len(PadEnd(s, w)) = w
          /\ \A i \in 1..w : PadEnd(s, w)[i] = IF i \in DOMAIN s THEN s[i] ELSE 0
    BY <1>1, <1>2, Padded, Zenon
  <2> QED BY <1>1, <1>2, <2>1, Zenon
<1>4. PadEnd(s, 9) \in Seq(Nat)
  BY <1>2, <1>3, SeqMonotonic
<1>5. ASSUME NEW i \in 1..9 PROVE PadEnd(s, 9)[i] = Digit(t, i) /\ PadEnd(s, 9)[i] \in D
  <2>1. PadEnd(s, 9)[i] = Digit(t, i)
    BY <1>3 DEF Digit, s
  <2>2. PadEnd(s, 9)[i] \in D
    <3>1. i \in 1..Len(PadEnd(s, 9))
      BY <1>3
    <3> QED BY <1>3, <3>1, ElementOfSeq
  <2> QED BY <2>1, <2>2
<1>6. \A i \in 1..9 : PadEnd(s, 9)[i] = Digit(t, i) /\ Digit(t, i) \in Nat /\ Digit(t, i) <= 9
  BY <1>2, <1>5
<1> QED BY <1>3, <1>4, <1>6 DEF s

\* The comparison text: the six numbers, and the nine digits of the fraction.
LEMMA TextMembers ==
  ASSUME NEW t, IsUtc(t)
  PROVE  /\ DOMAIN UtcText(t) = 1..15
         /\ UtcText(t)[1] = t.year /\ UtcText(t)[2] = t.month /\ UtcText(t)[3] = t.day
         /\ UtcText(t)[4] = t.hour /\ UtcText(t)[5] = t.minute /\ UtcText(t)[6] = t.second
         /\ \A i \in 1..9 : UtcText(t)[6 + i] = Digit(t, i)
<1> DEFINE numbers == <<t.year, t.month, t.day, t.hour, t.minute, t.second>>
           padded == PadEnd(t.fraction, 9)
<1>1. /\ numbers \in Seq(Nat) /\ Len(numbers) = 6
      /\ numbers[1] = t.year /\ numbers[2] = t.month /\ numbers[3] = t.day
      /\ numbers[4] = t.hour /\ numbers[5] = t.minute /\ numbers[6] = t.second
  <2>1. /\ t.year \in Nat /\ t.month \in Nat /\ t.day \in Nat
        /\ t.hour \in Nat /\ t.minute \in Nat /\ t.second \in Nat
    BY UtcFields
  <2> QED BY <2>1
<1>2. padded \in Seq(Nat) /\ Len(padded) = 9 /\ \A i \in 1..9 : padded[i] = Digit(t, i)
  BY PaddedFraction
<1>3. UtcText(t) = numbers \o padded
  BY DEF UtcText, FractionWidth
<1> HIDE DEF numbers, padded
<1>4. /\ numbers \o padded \in Seq(Nat) /\ Len(numbers \o padded) = Len(numbers) + Len(padded)
      /\ \A i \in 1..Len(numbers) : (numbers \o padded)[i] = numbers[i]
      /\ \A i \in 1..Len(padded) : (numbers \o padded)[Len(numbers) + i] = padded[i]
  <2>1. \A u, v \in Seq(Nat) :
          /\ u \o v \in Seq(Nat) /\ Len(u \o v) = Len(u) + Len(v)
          /\ \A i \in 1..Len(u) : (u \o v)[i] = u[i]
          /\ \A i \in 1..Len(v) : (u \o v)[Len(u) + i] = v[i]
    BY Joined
  <2> QED BY <1>1, <1>2, <2>1, Zenon
<1>5. Len(numbers) = 6 /\ Len(padded) = 9
  BY <1>1, <1>2
<1>6. Len(UtcText(t)) = 15 /\ UtcText(t) \in Seq(Nat)
  BY <1>3, <1>4, <1>5
<1>7. \A i \in 1..6 : UtcText(t)[i] = numbers[i]
  BY <1>3, <1>4, <1>5
<1>8. \A i \in 1..9 : UtcText(t)[6 + i] = padded[i]
  BY <1>3, <1>4, <1>5
<1>9. DOMAIN UtcText(t) = 1..15
  BY <1>6, LenProperties
<1>10. /\ UtcText(t)[1] = t.year /\ UtcText(t)[2] = t.month /\ UtcText(t)[3] = t.day
       /\ UtcText(t)[4] = t.hour /\ UtcText(t)[5] = t.minute /\ UtcText(t)[6] = t.second
  BY <1>1, <1>7
<1>11. \A i \in 1..9 : UtcText(t)[6 + i] = Digit(t, i)
  BY <1>2, <1>8
<1> QED BY <1>9, <1>10, <1>11

\* Among the first k digits, one is greater and all before it are equal.
FirstDiffers(c, d, k) == \E i \in 1..k : c[i] > d[i] /\ \A j \in 1..(i - 1) : c[j] = d[j]

\* Numbers that the first digits order are ordered by one digit more.
LEMMA OneMoreDigit ==
  ASSUME NEW c \in [1..9 -> Nat], NEW d \in [1..9 -> Nat], NEW k \in 1..8,
         NEW x \in Nat, NEW y \in Nat, c[k + 1] <= 9, d[k + 1] <= 9,
         x > y => FirstDiffers(c, d, k),
         x = y => \A j \in 1..k : c[j] = d[j]
  PROVE  /\ 10 * x + c[k + 1] \in Nat /\ 10 * y + d[k + 1] \in Nat
         /\ 10 * x + c[k + 1] > 10 * y + d[k + 1] => FirstDiffers(c, d, k + 1)
         /\ 10 * x + c[k + 1] = 10 * y + d[k + 1] => \A j \in 1..(k + 1) : c[j] = d[j]
<1>1. c[k + 1] \in Nat /\ d[k + 1] \in Nat /\ k + 1 \in 1..9
  OBVIOUS
<1>2. ASSUME NEW p \in Nat, NEW q \in Nat, p <= 9, q <= 9
      PROVE  /\ 10 * x + p > 10 * y + q => (x > y \/ (x = y /\ p > q))
             /\ 10 * x + p = 10 * y + q => (x = y /\ p = q)
  BY <1>2, SMT
<1>3. /\ 10 * x + c[k + 1] > 10 * y + d[k + 1] => (x > y \/ (x = y /\ c[k + 1] > d[k + 1]))
      /\ 10 * x + c[k + 1] = 10 * y + d[k + 1] => (x = y /\ c[k + 1] = d[k + 1])
  BY <1>1, <1>2, Zenon
<1>4. 10 * x + c[k + 1] \in Nat /\ 10 * y + d[k + 1] \in Nat
  BY <1>1, SMT
<1>5. FirstDiffers(c, d, k) => FirstDiffers(c, d, k + 1)
  <2>1. \A i \in 1..k : i \in 1..(k + 1)
    OBVIOUS
  <2> QED BY <2>1 DEF FirstDiffers
<1>6. ASSUME \A j \in 1..k : c[j] = d[j], c[k + 1] > d[k + 1]
      PROVE  FirstDiffers(c, d, k + 1)
  <2>1. k + 1 \in 1..(k + 1) /\ (k + 1) - 1 = k
    OBVIOUS
  <2> QED BY <1>6, <2>1 DEF FirstDiffers
<1>7. ASSUME \A j \in 1..k : c[j] = d[j], c[k + 1] = d[k + 1]
      PROVE  \A j \in 1..(k + 1) : c[j] = d[j]
  <2>1. \A j \in 1..(k + 1) : j \in 1..k \/ j = k + 1
    OBVIOUS
  <2> QED BY <1>7, <2>1
<1> QED BY <1>3, <1>4, <1>5, <1>6, <1>7, Zenon

\* The first digit that differs decides which fraction is greater.
LEMMA NanosecondsAscend ==
  ASSUME NEW a, NEW b, IsUtc(a), IsUtc(b), Nanoseconds(a) > Nanoseconds(b)
  PROVE  \E i \in 1..9 : Digit(a, i) > Digit(b, i) /\ \A j \in 1..(i - 1) : Digit(a, j) = Digit(b, j)
<1> DEFINE c == [i \in 1..9 |-> Digit(a, i)]
           d == [i \in 1..9 |-> Digit(b, i)]
<1>1. \A i \in 1..9 : /\ c[i] = Digit(a, i) /\ Digit(a, i) \in Nat /\ c[i] <= 9
                     /\ d[i] = Digit(b, i) /\ Digit(b, i) \in Nat /\ d[i] <= 9
  BY PaddedFraction
<1>2. c \in [1..9 -> Nat] /\ d \in [1..9 -> Nat]
  BY <1>1
<1> HIDE DEF c, d
\* The numbers of the first digits, each from the one before.
<1> DEFINE x1 == c[1]
           x2 == 10 * x1 + c[2]
           x3 == 10 * x2 + c[3]
           x4 == 10 * x3 + c[4]
           x5 == 10 * x4 + c[5]
           x6 == 10 * x5 + c[6]
           x7 == 10 * x6 + c[7]
           x8 == 10 * x7 + c[8]
           x9 == 10 * x8 + c[9]
           y1 == d[1]
           y2 == 10 * y1 + d[2]
           y3 == 10 * y2 + d[3]
           y4 == 10 * y3 + d[4]
           y5 == 10 * y4 + d[5]
           y6 == 10 * y5 + d[6]
           y7 == 10 * y6 + d[7]
           y8 == 10 * y7 + d[8]
           y9 == 10 * y8 + d[9]
<1>3. x9 > y9
  <2>1. /\ Digit(a, 1) = c[1] /\ Digit(a, 2) = c[2] /\ Digit(a, 3) = c[3] /\ Digit(a, 4) = c[4]
        /\ Digit(a, 5) = c[5] /\ Digit(a, 6) = c[6] /\ Digit(a, 7) = c[7] /\ Digit(a, 8) = c[8]
        /\ Digit(a, 9) = c[9]
        /\ Digit(b, 1) = d[1] /\ Digit(b, 2) = d[2] /\ Digit(b, 3) = d[3] /\ Digit(b, 4) = d[4]
        /\ Digit(b, 5) = d[5] /\ Digit(b, 6) = d[6] /\ Digit(b, 7) = d[7] /\ Digit(b, 8) = d[8]
        /\ Digit(b, 9) = d[9]
    BY <1>1
  <2>2. Nanoseconds(a) = x9 /\ Nanoseconds(b) = y9
    BY <2>1 DEF Nanoseconds
  <2> QED BY <2>2
<1> DEFINE Decided(x, y, k) == /\ x \in Nat /\ y \in Nat
                               /\ x > y => FirstDiffers(c, d, k)
                               /\ x = y => \A j \in 1..k : c[j] = d[j]
<1>4. Decided(x1, y1, 1)
  <2>1. c[1] \in Nat /\ d[1] \in Nat
    BY <1>2
  <2>2. c[1] > d[1] => FirstDiffers(c, d, 1)
    BY DEF FirstDiffers
  <2>3. \A j \in 1..1 : j = 1
    OBVIOUS
  <2> QED BY <2>1, <2>2, <2>3
<1>5. ASSUME NEW x, NEW y, NEW k \in 1..8, Decided(x, y, k)
      PROVE  Decided(10 * x + c[k + 1], 10 * y + d[k + 1], k + 1)
  <2>1. k + 1 \in 1..9
    OBVIOUS
  <2> QED BY <1>1, <1>2, <1>5, <2>1, OneMoreDigit
<1>6. /\ 1 + 1 = 2 /\ 2 + 1 = 3 /\ 3 + 1 = 4 /\ 4 + 1 = 5 /\ 5 + 1 = 6 /\ 6 + 1 = 7 /\ 7 + 1 = 8
      /\ 8 + 1 = 9 /\ {1, 2, 3, 4, 5, 6, 7, 8} \subseteq 1..8
  OBVIOUS
<1> HIDE DEF Decided
<1>7. Decided(x2, y2, 2)
  BY <1>4, <1>5, <1>6, Zenon
<1>8. Decided(x3, y3, 3)
  BY <1>7, <1>5, <1>6, Zenon
<1>9. Decided(x4, y4, 4)
  BY <1>8, <1>5, <1>6, Zenon
<1>10. Decided(x5, y5, 5)
  BY <1>9, <1>5, <1>6, Zenon
<1>11. Decided(x6, y6, 6)
  BY <1>10, <1>5, <1>6, Zenon
<1>12. Decided(x7, y7, 7)
  BY <1>11, <1>5, <1>6, Zenon
<1>13. Decided(x8, y8, 8)
  BY <1>12, <1>5, <1>6, Zenon
<1>14. Decided(x9, y9, 9)
  BY <1>13, <1>5, <1>6, Zenon
<1>15. FirstDiffers(c, d, 9)
  BY <1>3, <1>14 DEF Decided
<1> HIDE DEF x9, y9
<1>16. PICK i \in 1..9 : c[i] > d[i] /\ \A j \in 1..(i - 1) : c[j] = d[j]
  BY <1>15 DEF FirstDiffers
<1>17. \A j \in 1..(i - 1) : j \in 1..9
  OBVIOUS
<1> QED BY <1>1, <1>16, <1>17

\* The seconds of hours, minutes and seconds.
Seconds(h, m, s) == 3600 * h + 60 * m + s

\* And the numbers of an hour, a minute and a second.
LEMMA SecondsAscend ==
  ASSUME NEW h \in Nat, NEW m \in Nat, NEW s \in Nat, NEW i \in Nat, NEW n \in Nat, NEW r \in Nat,
         m <= 59, s <= 59, n <= 59, r <= 59, Seconds(h, m, s) >= Seconds(i, n, r)
  PROVE  \/ h > i
         \/ h = i /\ m > n
         \/ h = i /\ m = n /\ s >= r
  BY SMT DEF Seconds

\* So the clock orders the times of a day.
LEMMA ClockAscends ==
  ASSUME NEW a, NEW b, IsUtc(a), IsUtc(b), SecondOfDay(a) >= SecondOfDay(b)
  PROVE  \/ a.hour > b.hour
         \/ a.hour = b.hour /\ a.minute > b.minute
         \/ a.hour = b.hour /\ a.minute = b.minute /\ a.second >= b.second
<1>1. /\ a.hour \in Nat /\ a.minute \in Nat /\ a.minute <= 59 /\ a.second \in Nat /\ a.second <= 59
      /\ b.hour \in Nat /\ b.minute \in Nat /\ b.minute <= 59 /\ b.second \in Nat /\ b.second <= 59
  BY UtcFields
<1>2. Seconds(a.hour, a.minute, a.second) >= Seconds(b.hour, b.minute, b.second)
  BY SMT DEF SecondOfDay, Seconds
<1> QED BY <1>1, <1>2, SecondsAscend, Zenon

\* What is later as an instant is after it as a text.
LEMMA LaterInText ==
  ASSUME NEW a, NEW b, IsUtc(a), IsUtc(b), Later(Instant(a), Instant(b))
  PROVE  TextAfter(UtcText(a), UtcText(b))
<1> DEFINE A == UtcText(a)
           B == UtcText(b)
<1>1. /\ DOMAIN A = 1..15
      /\ A[1] = a.year /\ A[2] = a.month /\ A[3] = a.day
      /\ A[4] = a.hour /\ A[5] = a.minute /\ A[6] = a.second
      /\ \A i \in 1..9 : A[6 + i] = Digit(a, i)
      /\ B[1] = b.year /\ B[2] = b.month /\ B[3] = b.day
      /\ B[4] = b.hour /\ B[5] = b.minute /\ B[6] = b.second
      /\ \A i \in 1..9 : B[6 + i] = Digit(b, i)
  BY TextMembers
<1>2. \/ DayNumber(a) > DayNumber(b)
      \/ DayNumber(a) = DayNumber(b) /\ SecondOfDay(a) > SecondOfDay(b)
      \/ /\ DayNumber(a) = DayNumber(b) /\ SecondOfDay(a) = SecondOfDay(b)
         /\ Nanoseconds(a) > Nanoseconds(b)
  BY DEF Later, Instant
<1>3. /\ a.year \in Nat /\ b.year \in Nat /\ a.month \in 1..12 /\ b.month \in 1..12
      /\ a.day \in Nat /\ b.day \in Nat
      /\ a.hour \in 0..23 /\ a.minute \in 0..59 /\ a.second \in 0..59
      /\ b.hour \in 0..23 /\ b.minute \in 0..59 /\ b.second \in 0..59
  BY UtcFields
<1>4. DayNumber(a) \in Int /\ DayNumber(b) \in Int
  <2>1. \A y \in Nat : DaysBefore(y) \in Int
    BY Z3 DEF DaysBefore
  <2>2. DayOfYear(a) \in Int /\ DayOfYear(b) \in Int
    BY DaysAscend
  <2> QED BY <1>3, <2>1, <2>2 DEF DayNumber
<1> DEFINE Day == a.year = b.year /\ a.month = b.month /\ a.day = b.day
<1>5. ASSUME DayNumber(a) > DayNumber(b)
      PROVE  \/ a.year > b.year
             \/ a.year = b.year /\ a.month > b.month
             \/ a.year = b.year /\ a.month = b.month /\ a.day > b.day
  <2>1. \/ a.year > b.year
        \/ a.year = b.year /\ a.month > b.month
        \/ a.year = b.year /\ a.month = b.month /\ a.day >= b.day
    BY <1>4, <1>5, CalendarAscends
  <2>2. ~ Day
    <3>1. Day => DayNumber(a) = DayNumber(b)
      BY DEF DayNumber, DayOfYear
    <3> QED BY <1>4, <1>5, <3>1
  <2> QED BY <1>3, <2>1, <2>2
<1>6. ASSUME DayNumber(a) = DayNumber(b) PROVE Day
  <2>1. \/ a.year > b.year
        \/ a.year = b.year /\ a.month > b.month
        \/ a.year = b.year /\ a.month = b.month /\ a.day >= b.day
    BY <1>4, <1>6, CalendarAscends
  <2>2. \/ b.year > a.year
        \/ b.year = a.year /\ b.month > a.month
        \/ b.year = a.year /\ b.month = a.month /\ b.day >= a.day
    BY <1>4, <1>6, CalendarAscends
  <2> QED BY <1>3, <2>1, <2>2
<1>7. /\ a.hour \in Nat /\ a.minute \in Nat /\ a.minute <= 59 /\ a.second \in Nat /\ a.second <= 59
      /\ b.hour \in Nat /\ b.minute \in Nat /\ b.minute <= 59 /\ b.second \in Nat /\ b.second <= 59
  BY <1>3
<1>8. /\ SecondOfDay(a) = 3600 * a.hour + 60 * a.minute + a.second
      /\ SecondOfDay(b) = 3600 * b.hour + 60 * b.minute + b.second
      /\ SecondOfDay(a) \in Int /\ SecondOfDay(b) \in Int
  BY <1>7, SMT DEF SecondOfDay
<1>9. SecondOfDay(a) >= SecondOfDay(b) =>
        \/ a.hour > b.hour
        \/ a.hour = b.hour /\ a.minute > b.minute
        \/ a.hour = b.hour /\ a.minute = b.minute /\ a.second >= b.second
  BY ClockAscends
<1>10. SecondOfDay(b) >= SecondOfDay(a) =>
        \/ b.hour > a.hour
        \/ b.hour = a.hour /\ b.minute > a.minute
        \/ b.hour = a.hour /\ b.minute = a.minute /\ b.second >= a.second
  BY ClockAscends
<1>11. ASSUME SecondOfDay(a) > SecondOfDay(b)
       PROVE  \/ a.hour > b.hour
              \/ a.hour = b.hour /\ a.minute > b.minute
              \/ a.hour = b.hour /\ a.minute = b.minute /\ a.second > b.second
  <2>1. ~ (SecondOfDay(b) >= SecondOfDay(a)) /\ SecondOfDay(a) >= SecondOfDay(b)
    BY <1>8, <1>11, SMT
  <2>2. ~ (a.hour = b.hour /\ a.minute = b.minute /\ a.second = b.second)
    BY <1>8, <1>11, SMT
  <2> QED BY <1>7, <1>9, <2>1, <2>2, SMT
<1>12. ASSUME SecondOfDay(a) = SecondOfDay(b)
       PROVE  a.hour = b.hour /\ a.minute = b.minute /\ a.second = b.second
  <2>1. SecondOfDay(b) >= SecondOfDay(a) /\ SecondOfDay(a) >= SecondOfDay(b)
    BY <1>8, <1>12, SMT
  <2> QED BY <1>7, <1>9, <1>10, <2>1, SMT
<1> HIDE DEF A, B
\* The position at which the texts differ first.
<1>13. \/ A[1] > B[1]
       \/ A[1] = B[1] /\ A[2] > B[2]
       \/ A[1] = B[1] /\ A[2] = B[2] /\ A[3] > B[3]
       \/ A[1] = B[1] /\ A[2] = B[2] /\ A[3] = B[3] /\ A[4] > B[4]
       \/ A[1] = B[1] /\ A[2] = B[2] /\ A[3] = B[3] /\ A[4] = B[4] /\ A[5] > B[5]
       \/ A[1] = B[1] /\ A[2] = B[2] /\ A[3] = B[3] /\ A[4] = B[4] /\ A[5] = B[5] /\ A[6] > B[6]
       \/ /\ A[1] = B[1] /\ A[2] = B[2] /\ A[3] = B[3] /\ A[4] = B[4] /\ A[5] = B[5] /\ A[6] = B[6]
          /\ Nanoseconds(a) > Nanoseconds(b)
  BY <1>1, <1>2, <1>5, <1>6, <1>11, <1>12
<1>14. ASSUME A[1] = B[1], A[2] = B[2], A[3] = B[3], A[4] = B[4], A[5] = B[5], A[6] = B[6],
              Nanoseconds(a) > Nanoseconds(b)
       PROVE  \E i \in 1..15 : A[i] > B[i] /\ \A j \in 1..(i - 1) : A[j] = B[j]
  <2>1. PICK d \in 1..9 : Digit(a, d) > Digit(b, d) /\ \A j \in 1..(d - 1) : Digit(a, j) = Digit(b, j)
    BY <1>14, NanosecondsAscend
  <2>2. 6 + d \in 1..15 /\ A[6 + d] > B[6 + d]
    BY <1>1, <2>1
  <2>3. ASSUME NEW j \in 1..((6 + d) - 1) PROVE A[j] = B[j]
    <3>1. CASE j \in 1..6
      BY <1>14, <3>1
    <3>2. CASE j \notin 1..6
      <4>1. j - 6 \in 1..(d - 1) /\ j - 6 \in 1..9 /\ 6 + (j - 6) = j
        BY <3>2
      <4>2. A[6 + (j - 6)] = Digit(a, j - 6) /\ B[6 + (j - 6)] = Digit(b, j - 6)
        BY <1>1, <4>1
      <4>3. Digit(a, j - 6) = Digit(b, j - 6)
        BY <2>1, <4>1
      <4> QED BY <4>1, <4>2, <4>3
    <3> QED BY <3>1, <3>2
  <2> QED BY <2>2, <2>3
<1>15. ASSUME NEW i \in 1..6, A[i] > B[i], \A j \in 1..6 : j < i => A[j] = B[j]
       PROVE  \E k \in 1..15 : A[k] > B[k] /\ \A j \in 1..(k - 1) : A[j] = B[j]
  <2>1. i \in 1..15 /\ \A j \in 1..(i - 1) : j \in 1..6 /\ j < i
    OBVIOUS
  <2> QED BY <1>15, <2>1
<1>16. \/ \E i \in 1..6 : A[i] > B[i] /\ \A j \in 1..6 : j < i => A[j] = B[j]
       \/ /\ A[1] = B[1] /\ A[2] = B[2] /\ A[3] = B[3] /\ A[4] = B[4] /\ A[5] = B[5] /\ A[6] = B[6]
          /\ Nanoseconds(a) > Nanoseconds(b)
  BY <1>13
<1>17. \E i \in 1..15 : A[i] > B[i] /\ \A j \in 1..(i - 1) : A[j] = B[j]
  BY <1>14, <1>15, <1>16
<1> QED BY <1>1, <1>17 DEF TextAfter, A, B

\* What passed, passed the comparison of texts, so that the decisions of both
\* receipts are no later than the receipts.
THEOREM DecisionsPrecede == Spec => []DecisionPrecedesReceipt
<1>1. IInv => DecisionPrecedesReceipt
  <2> SUFFICES ASSUME IInv, checked # Nothing, NEW receipt \in {checked.runtime, checked.app}
               PROVE  ~ Later(Instant(receipt.policy_decision.evaluated_at), Instant(receipt.timestamp))
    BY DEF DecisionPrecedesReceipt
  <2>1. PairChecks(Evidence(checked.asked, checked.answered), checked.context, checked.runtime,
                   checked.app)
    BY DEF IInv, Linked
  <2>2. /\ ReceiptStands(checked.runtime, "runtime", checked.context)
        /\ ReceiptStands(checked.app, "app", checked.context)
    BY <2>1 DEF PairChecks, RuntimeChecks
  <2>3. \E role \in {"runtime", "app"} : ReceiptStands(receipt, role, checked.context)
    BY <2>2
  <2>4. PICK role \in {"runtime", "app"} : ReceiptStands(receipt, role, checked.context)
    BY <2>3
  <2>5. IsUtc(receipt.timestamp) /\ DecisionStands(receipt, role, checked.context)
    BY <2>4 DEF ReceiptStands
  <2>6. /\ IsUtc(receipt.policy_decision.evaluated_at)
        /\ ~ TextAfter(UtcText(receipt.policy_decision.evaluated_at), UtcText(receipt.timestamp))
    BY <2>5 DEF DecisionStands
  <2> QED BY <2>5, <2>6, LaterInText
<1> QED BY InitIInv, NextIInv, <1>1, PTL DEF Spec
=============================================================================
