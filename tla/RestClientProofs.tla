-------------------------- MODULE RestClientProofs --------------------------
(***************************************************************************)
(* What a caller of RestClient can read off the outcome of its call, for    *)
(* any endpoints and bodies of any length.  What the call has met so far    *)
(* follows from where it is, so the last step alone decides the outcome.    *)
(***************************************************************************)
EXTENDS RestClient, TLAPS

Outcomes == {"none", "result", "AbrpApiError", "CancelledError", "OverflowError"} \cup GetterErrors
NoBody == [shape |-> "none"]

\* The fields of a call.
IsCall(c) ==
    c = [at |-> c.at, endpoint |-> c.endpoint, getter |-> c.getter, status |-> c.status,
         broke |-> c.broke, body |-> c.body, outcome |-> c.outcome, value |-> c.value]

\* What a call that is not over has met.
Progress ==
    /\ call.at # "out" =>
            /\ call.endpoint \in Endpoints /\ call.broke = "none" /\ call.body = NoBody
            /\ call.outcome = "none"
    /\ call.at = "token" => call.getter = "none" /\ call.status = 0
    /\ call.at = "request" => call.getter = "token" /\ call.status = 0
    /\ call.at = "body" => call.getter = "token" /\ call.status = 200

CallInv == IsCall(call) /\ TypeOK /\ Progress /\ AuthExactlyWhenRejected /\ OutcomeTellsCause

-----------------------------------------------------------------------------
\* The first of some positions is one of them.
LEMMA FirstPosition ==
    ASSUME NEW S \in SUBSET Nat, S # {}
    PROVE  Min(S) \in S
  <1>1. \E x \in S : \A y \in S : x <= y
    BY Catalog!LeastNat
  <1> QED
    BY <1>1 DEF Min

\* The same, of positions in a list.
LEMMA FirstIndex ==
    ASSUME NEW S, NEW s \in Lists(S), NEW T \in SUBSET DOMAIN s, T # {}
    PROVE  Min(T) \in T
  <1>1. PICK n \in 0..MaxRecords : s \in [1..n -> S]
    BY DEF Lists
  <1>2. MaxRecords \in Nat
    BY EndpointsAssumption
  <1>3. DOMAIN s \in SUBSET Nat
    BY <1>1, <1>2
  <1> QED
    BY <1>3, FirstPosition

\* An ending has the outcome it names.
LEMMA Endings == (\A o : Raised(o).outcome = o) /\ (\A v : Returned(v).outcome = "result")
  BY DEF Raised, Returned

\* What a record fails with.
LEMMA RecordErrors ==
    ASSUME NEW record, RecordError(record) # "none"
    PROVE  \/ RecordError(record) = "AbrpApiError"
           \/ RecordError(record) = "OverflowError" /\ record = "infinite id"
  <1>1. CASE record = "malformed"
    BY <1>1, Zenon DEF RecordError
  <1>2. CASE record = "infinite id"
    BY <1>2, Zenon DEF RecordError
  <1>3. CASE record # "malformed" /\ record # "infinite id"
    <2>1. RecordError(record) = "none"
      BY <1>3, Zenon DEF RecordError
    <2> QED
      BY <2>1
  <1> QED
    BY <1>1, <1>2, <1>3

\* A garage fails with the error of one of its records.
LEMMA GarageOutcome ==
    ASSUME NEW body \in Bodies("garage"), body.shape # "not a dict"
    PROVE  LET o == ParseGarage(body).outcome IN
           /\ o \in {"result", "AbrpApiError", "AbrpAuthError", "OverflowError"}
           /\ o = "AbrpAuthError" <=> body.shape = "auth error"
           /\ o = "OverflowError" => body.shape = "list" /\ "infinite id" \in ToSet(body.records)
  <1>1. body \in [shape : {"not a dict"}] \cup GarageBodies
    BY Zenon DEF Bodies
  <1>2. CASE body.shape = "auth error"
    <2>1. ParseGarage(body) = Raised("AbrpAuthError")
      BY <1>2, Zenon DEF ParseGarage
    <2> QED
      BY <1>2, <2>1, Endings
  <1>3. CASE body.shape \in {"error", "no list"}
    <2>1. ParseGarage(body) = Raised("AbrpApiError")
      BY <1>3, Zenon DEF ParseGarage
    <2> QED
      BY <1>3, <2>1, Endings
  <1>4. CASE body.shape = "list"
    <2> DEFINE bad == {i \in DOMAIN body.records : RecordError(body.records[i]) # "none"}
    <2>1. ParseGarage(body) = IF bad = {} THEN Returned(body.records)
                              ELSE Raised(RecordError(body.records[Min(bad)]))
      BY <1>4, Zenon DEF ParseGarage
    <2>2. body.records \in Lists(GarageRecords)
      BY <1>1, <1>4 DEF GarageBodies
    <2>3. CASE bad = {}
      BY <1>4, <2>1, <2>3, Endings
    <2>4. CASE bad # {}
      <3> DEFINE record == body.records[Min(bad)]
      <3>1. bad \in SUBSET DOMAIN body.records
        OBVIOUS
      <3>2. Min(bad) \in bad
        BY <2>2, <2>4, <3>1, FirstIndex
      <3>3. Min(bad) \in DOMAIN body.records /\ RecordError(record) # "none"
        BY <3>2
      <3>4. ParseGarage(body) = Raised(RecordError(record)) /\ record \in ToSet(body.records)
        BY <2>1, <2>4, <3>3 DEF ToSet
      <3> HIDE DEF record
      <3>5. ParseGarage(body).outcome = RecordError(record)
        BY <3>4, Endings
      <3> QED
        <4>1. \/ RecordError(record) = "AbrpApiError"
              \/ RecordError(record) = "OverflowError" /\ record = "infinite id"
          BY <3>3, RecordErrors
        <4> QED
          BY <1>4, <3>4, <3>5, <4>1
    <2> QED
      BY <2>3, <2>4
  <1> QED
    BY <1>1, <1>2, <1>3, <1>4 DEF GarageBodies

\* How a body that was read ends the call.
LEMMA ParseOutcome ==
    ASSUME NEW endpoint \in Endpoints, NEW body \in Bodies(endpoint)
    PROVE  LET o == Parse(endpoint, body).outcome IN
           /\ o \in {"result", "AbrpApiError", "AbrpAuthError", "OverflowError"}
           /\ o = "AbrpAuthError" <=> endpoint = "garage" /\ body.shape = "auth error"
           /\ o = "OverflowError" =>
                \/ body.shape = "infinite leaf"
                \/ /\ endpoint = "garage" /\ body.shape = "list"
                   /\ "infinite id" \in ToSet(body.records)
  <1>1. endpoint \in {"garage", "catalog", "telemetry", "display"}
    BY EndpointsAssumption
  <1>2. CASE body.shape = "not a dict"
    <2>1. Parse(endpoint, body) = Raised("AbrpApiError")
      BY <1>2, Zenon DEF Parse
    <2> QED
      BY <1>2, <2>1, Endings
  <1>3. CASE body.shape # "not a dict" /\ endpoint = "garage"
    <2>1. Parse(endpoint, body) = ParseGarage(body)
      BY <1>3, Zenon DEF Parse
    <2>2. body \in Bodies("garage")
      BY <1>3
    <2> QED
      BY <1>3, <2>1, <2>2, GarageOutcome
  <1>4. CASE body.shape # "not a dict" /\ endpoint = "catalog"
    <2>1. Parse(endpoint, body) = ParseCatalog(body)
      BY <1>4, Zenon DEF Parse
    <2> QED
      BY <1>4, <2>1, Endings DEF ParseCatalog
  <1>5. CASE body.shape # "not a dict" /\ endpoint = "telemetry"
    <2>1. Parse(endpoint, body) = ParseTelemetry(body)
      BY <1>5, Zenon DEF Parse
    <2> QED
      BY <1>5, <2>1, Endings DEF ParseTelemetry
  <1>6. CASE body.shape # "not a dict" /\ endpoint = "display"
    <2>1. Parse(endpoint, body) = ParseDisplay(body)
      BY <1>6, Zenon DEF Parse
    <2> QED
      BY <1>6, <2>1, Endings DEF ParseDisplay
  <1> QED
    BY <1>1, <1>2, <1>3, <1>4, <1>5, <1>6

\* A call that ends keeps what it has met.
LEMMA EndsFields ==
    ASSUME NEW c, IsCall(c), NEW ending, Ends(c, ending)
    PROVE  /\ IsCall(call') /\ call'.at = "out" /\ call'.outcome = ending.outcome
           /\ call'.endpoint = c.endpoint /\ call'.getter = c.getter /\ call'.status = c.status
           /\ call'.broke = c.broke /\ call'.body = c.body
  <1>1. call' = [at |-> "out", endpoint |-> c.endpoint, getter |-> c.getter, status |-> c.status,
                 broke |-> c.broke, body |-> c.body, outcome |-> ending.outcome,
                 value |-> ending.value]
    BY DEF IsCall, Ends
  <1> QED
    BY <1>1 DEF IsCall

\* A field is set.
LEMMA SetFields ==
    ASSUME NEW c, IsCall(c), NEW x
    PROVE  /\ [c EXCEPT !.getter = x] =
                [at |-> c.at, endpoint |-> c.endpoint, getter |-> x, status |-> c.status,
                 broke |-> c.broke, body |-> c.body, outcome |-> c.outcome, value |-> c.value]
           /\ [c EXCEPT !.status = x] =
                [at |-> c.at, endpoint |-> c.endpoint, getter |-> c.getter, status |-> x,
                 broke |-> c.broke, body |-> c.body, outcome |-> c.outcome, value |-> c.value]
           /\ [c EXCEPT !.broke = x] =
                [at |-> c.at, endpoint |-> c.endpoint, getter |-> c.getter, status |-> c.status,
                 broke |-> x, body |-> c.body, outcome |-> c.outcome, value |-> c.value]
           /\ [c EXCEPT !.body = x] =
                [at |-> c.at, endpoint |-> c.endpoint, getter |-> c.getter, status |-> c.status,
                 broke |-> c.broke, body |-> x, outcome |-> c.outcome, value |-> c.value]
  BY DEF IsCall

\* Who rejected the credentials, where a number was infinite, whose failure it
\* was: the properties, of any call.
Rejected(c) ==
    \/ c.getter = "AbrpAuthError"
    \/ c.status \in Rejections
    \/ c.endpoint = "garage" /\ c.body.shape = "auth error"
    \/ c.endpoint = "identity" /\ (c.body.payload = "dict" => c.body.sub \in {"empty", "number"})

Infinite(c) ==
    \/ c.body.shape = "infinite leaf"
    \/ /\ c.endpoint = "garage" /\ c.body.shape = "list"
       /\ "infinite id" \in ToSet(c.body.records)

Told(c, o) ==
    IF c.getter \in GetterErrors THEN o = c.getter
    ELSE IF c.broke = "cancelled" THEN o = "CancelledError"
    ELSE IF c.broke # "none" \/ c.status # 200 THEN o \in {"AbrpApiError", "AbrpAuthError"}
    ELSE o \in {"result", "AbrpApiError", "AbrpAuthError"} \/ (o = "OverflowError" /\ Infinite(c))

\* The end of a call that met what it did.
LEMMA EndInv ==
    ASSUME NEW c, IsCall(c), NEW ending, Ends(c, ending),
           c.endpoint \in Endpoints \cup {"identity"},
           c.getter \in GetterErrors \cup {"token", "none"},
           c.status \in Statuses \cup {0},
           c.broke \in {"none", "ClientError", "TimeoutError", "ValueError", "cancelled"},
           ending.outcome \in Outcomes \ {"none"},
           ending.outcome = "AbrpAuthError" <=> Rejected(c),
           c.endpoint \in Endpoints => Told(c, ending.outcome)
    PROVE  CallInv'
  <1>1. /\ IsCall(call') /\ call'.at = "out" /\ call'.outcome = ending.outcome
        /\ call'.endpoint = c.endpoint /\ call'.getter = c.getter /\ call'.status = c.status
        /\ call'.broke = c.broke /\ call'.body = c.body
    BY EndsFields
  <1>2. TypeOK'
    BY <1>1 DEF TypeOK, Outcomes
  <1>3. Progress'
    BY <1>1 DEF Progress
  <1>4. AuthExactlyWhenRejected'
    BY <1>1 DEF AuthExactlyWhenRejected, Rejected
  <1>5. OutcomeTellsCause'
    <2>1. Infinite(c) => HasInfinity'
      BY <1>1 DEF Infinite, HasInfinity
    <2> QED
      BY <1>1, <2>1 DEF OutcomeTellsCause, Told
  <1> QED
    BY <1>1, <1>2, <1>3, <1>4, <1>5 DEF CallInv

\* The step of a call to its next await.
LEMMA MoveInv ==
    ASSUME IsCall(call'), call'.at # "out", call'.endpoint \in Endpoints, call'.broke = "none",
           call'.body = NoBody, call'.outcome = "none",
           \/ call'.at = "token" /\ call'.getter = "none" /\ call'.status = 0
           \/ call'.at = "request" /\ call'.getter = "token" /\ call'.status = 0
           \/ call'.at = "body" /\ call'.getter = "token" /\ call'.status = 200
    PROVE  CallInv'
  <1>1. TypeOK'
    BY DEF TypeOK, Statuses
  <1>2. Progress'
    BY DEF Progress
  <1>3. AuthExactlyWhenRejected'
    BY EndpointsAssumption DEF AuthExactlyWhenRejected, NoBody, Rejections
  <1>4. OutcomeTellsCause'
    BY DEF OutcomeTellsCause
  <1> QED
    BY <1>1, <1>2, <1>3, <1>4 DEF CallInv

\* Every step of a call keeps the invariant.
LEMMA CallInvStep ==
    ASSUME CallInv, Next
    PROVE  CallInv'
  <1>1. IsCall(call) /\ Endpoints \subseteq {"garage", "catalog", "telemetry", "display"}
    BY EndpointsAssumption DEF CallInv
  <1>2. call.at # "out" =>
            /\ call.endpoint \in Endpoints /\ call.endpoint # "identity"
            /\ call.broke = "none" /\ call.body = NoBody /\ call.outcome = "none"
            /\ \/ call.at = "token" /\ call.getter = "none" /\ call.status = 0
               \/ call.at = "request" /\ call.getter = "token" /\ call.status = 0
               \/ call.at = "body" /\ call.getter = "token" /\ call.status = 200
    BY <1>1 DEF CallInv, TypeOK, Progress
  <1>3. ASSUME NEW endpoint \in Endpoints, Begins(endpoint)
        PROVE  CallInv'
    <2>1. call' = [at |-> "token", endpoint |-> endpoint, getter |-> "none", status |-> 0,
                   broke |-> "none", body |-> NoBody, outcome |-> "none", value |-> <<>>]
      BY <1>3 DEF Begins, NoCall, NoBody
    <2>2. /\ IsCall(call') /\ call'.at = "token" /\ call'.endpoint = endpoint
          /\ call'.getter = "none" /\ call'.status = 0 /\ call'.broke = "none"
          /\ call'.body = NoBody /\ call'.outcome = "none"
      BY <2>1 DEF IsCall
    <2> QED
      BY <2>2, MoveInv
  <1>4. CASE TokenFetched
    <2>1. call.at = "token"
      BY <1>4 DEF TokenFetched
    <2>2. call' = [at |-> "request", endpoint |-> call.endpoint, getter |-> "token",
                   status |-> call.status, broke |-> call.broke, body |-> call.body,
                   outcome |-> call.outcome, value |-> call.value]
      BY <1>1, <1>4 DEF TokenFetched, IsCall
    <2>3. /\ IsCall(call') /\ call'.at = "request" /\ call'.endpoint = call.endpoint
          /\ call'.getter = "token" /\ call'.status = call.status /\ call'.broke = call.broke
          /\ call'.body = call.body /\ call'.outcome = call.outcome
      BY <2>2 DEF IsCall
    <2> QED
      BY <1>2, <2>1, <2>3, MoveInv
  <1>5. ASSUME NEW e \in GetterErrors, TokenRaises(e)
        PROVE  CallInv'
    <2> DEFINE met == [call EXCEPT !.getter = e]
    <2>1. met = [at |-> call.at, endpoint |-> call.endpoint, getter |-> e, status |-> call.status,
                 broke |-> call.broke, body |-> call.body, outcome |-> call.outcome,
                 value |-> call.value]
      BY <1>1, SetFields
    <2>2. call.at = "token" /\ Ends(met, Raised(e))
      BY <1>5 DEF TokenRaises, GetterOutcome
    <2> HIDE DEF met
    <2>3. /\ IsCall(met) /\ met.endpoint = call.endpoint /\ met.getter = e
          /\ met.status = call.status /\ met.broke = call.broke /\ met.body = call.body
      BY <2>1 DEF IsCall
    <2>4. /\ met.endpoint \in Endpoints /\ met.endpoint # "identity"
          /\ met.status = 0 /\ met.broke = "none" /\ met.body = NoBody
      BY <1>2, <2>2, <2>3
    <2>5. Rejected(met) <=> e = "AbrpAuthError"
      BY <2>3, <2>4 DEF Rejected, NoBody, Rejections
    <2>6. Told(met, e)
      BY <2>3 DEF Told
    <2>7. Raised(e).outcome = e /\ e \in Outcomes \ {"none"}
      BY Endings DEF Outcomes, GetterErrors
    <2> QED
      BY <2>2, <2>3, <2>4, <2>5, <2>6, <2>7, EndInv
  <1>6. ASSUME NEW status \in Statuses, Answered(status)
        PROVE  CallInv'
    <2> DEFINE met == [call EXCEPT !.status = status]
    <2>1. met = [at |-> call.at, endpoint |-> call.endpoint, getter |-> call.getter,
                 status |-> status, broke |-> call.broke, body |-> call.body,
                 outcome |-> call.outcome, value |-> call.value]
      BY <1>1, SetFields
    <2>2. /\ call.at = "request"
          /\ IF StatusOutcome(status) # "none" THEN Ends(met, Raised(StatusOutcome(status)))
             ELSE call' = [met EXCEPT !.at = "body"]
      BY <1>6 DEF Answered
    <2> HIDE DEF met
    <2>3. /\ IsCall(met) /\ met.endpoint = call.endpoint /\ met.getter = call.getter
          /\ met.status = status /\ met.broke = call.broke /\ met.body = call.body
      BY <2>1 DEF IsCall
    <2>4. CASE StatusOutcome(status) # "none"
      <3>1. /\ status # 200 /\ StatusOutcome(status) \in {"AbrpAuthError", "AbrpApiError"}
            /\ StatusOutcome(status) = "AbrpAuthError" <=> status \in Rejections
        BY <2>4 DEF StatusOutcome, Statuses, Rejections
      <3>2. /\ met.endpoint \in Endpoints /\ met.endpoint # "identity"
            /\ met.getter = "token" /\ met.broke = "none" /\ met.body = NoBody
        BY <1>2, <2>2, <2>3
      <3>3. Rejected(met) <=> status \in Rejections
        BY <2>3, <3>2 DEF Rejected, NoBody
      <3>4. Told(met, StatusOutcome(status))
        BY <2>3, <3>1, <3>2 DEF Told, GetterErrors
      <3>5. /\ Raised(StatusOutcome(status)).outcome = StatusOutcome(status)
            /\ StatusOutcome(status) \in Outcomes \ {"none"}
        BY <3>1, Endings DEF Outcomes, GetterErrors
      <3>6. Ends(met, Raised(StatusOutcome(status)))
        BY <2>2, <2>4
      <3> QED
        BY <2>3, <3>1, <3>2, <3>3, <3>4, <3>5, <3>6, EndInv
    <2>5. CASE StatusOutcome(status) = "none"
      <3>1. status = 200
        BY <2>5 DEF StatusOutcome, Statuses, Rejections
      <3>2. call' = [at |-> "body", endpoint |-> call.endpoint, getter |-> call.getter,
                     status |-> status, broke |-> call.broke, body |-> call.body,
                     outcome |-> call.outcome, value |-> call.value]
        BY <2>1, <2>2, <2>5
      <3>3. /\ IsCall(call') /\ call'.at = "body" /\ call'.endpoint = call.endpoint
            /\ call'.getter = call.getter /\ call'.status = 200 /\ call'.broke = call.broke
            /\ call'.body = call.body /\ call'.outcome = call.outcome
        BY <3>1, <3>2 DEF IsCall
      <3> QED
        BY <1>2, <2>2, <3>3, MoveInv
    <2> QED
      BY <2>4, <2>5
  <1>7. ASSUME NEW b, NEW o, call.at # "out", Ends([call EXCEPT !.broke = b], Raised(o)),
               b \in {"ClientError", "TimeoutError", "ValueError", "cancelled"},
               o = IF b = "cancelled" THEN "CancelledError" ELSE "AbrpApiError"
        PROVE  CallInv'
    <2> DEFINE met == [call EXCEPT !.broke = b]
    <2>1. met = [at |-> call.at, endpoint |-> call.endpoint, getter |-> call.getter,
                 status |-> call.status, broke |-> b, body |-> call.body,
                 outcome |-> call.outcome, value |-> call.value]
      BY <1>1, SetFields
    <2>2. Ends(met, Raised(o))
      BY <1>7
    <2> HIDE DEF met
    <2>3. /\ IsCall(met) /\ met.endpoint = call.endpoint /\ met.getter = call.getter
          /\ met.status = call.status /\ met.broke = b /\ met.body = call.body
      BY <2>1 DEF IsCall
    <2>4. /\ met.endpoint \in Endpoints /\ met.endpoint # "identity"
          /\ met.getter \in {"none", "token"} /\ met.status \in {0, 200} /\ met.body = NoBody
      BY <1>2, <1>7, <2>3
    <2>5. ~Rejected(met)
      BY <2>4 DEF Rejected, NoBody, Rejections
    <2>6. Told(met, o)
      BY <1>7, <2>3, <2>4 DEF Told, GetterErrors
    <2>7. Raised(o).outcome = o /\ o \in Outcomes \ {"none"} /\ o # "AbrpAuthError"
      BY <1>7, Endings DEF Outcomes, GetterErrors
    <2>8. met.status \in Statuses \cup {0}
      BY <2>4 DEF Statuses
    <2> QED
      BY <1>7, <2>2, <2>3, <2>4, <2>5, <2>6, <2>7, <2>8, EndInv
  <1>8. CASE \/ RequestFails("ClientError") \/ RequestFails("TimeoutError")
             \/ BodyMalformed \/ Cancelled
    <2>1. CASE RequestFails("ClientError") \/ RequestFails("TimeoutError")
      BY <1>7, <2>1 DEF RequestFails, Band
    <2>2. CASE BodyMalformed
      BY <1>7, <2>2 DEF BodyMalformed
    <2>3. CASE Cancelled
      BY <1>7, <2>3 DEF Cancelled, GetterOutcome, Band
    <2> QED
      BY <1>8, <2>1, <2>2, <2>3
  <1>9. ASSUME call.at = "body", NEW body \in Bodies(call.endpoint), BodyRead(body)
        PROVE  CallInv'
    <2> DEFINE ending == Parse(call.endpoint, body)
               met == [call EXCEPT !.body = body]
    <2>1. call.endpoint \in Endpoints
      BY <1>2, <1>9
    <2>2. /\ ending.outcome \in {"result", "AbrpApiError", "AbrpAuthError", "OverflowError"}
          /\ ending.outcome = "AbrpAuthError"
                <=> call.endpoint = "garage" /\ body.shape = "auth error"
          /\ ending.outcome = "OverflowError" =>
                \/ body.shape = "infinite leaf"
                \/ /\ call.endpoint = "garage" /\ body.shape = "list"
                   /\ "infinite id" \in ToSet(body.records)
      BY <1>9, <2>1, ParseOutcome
    <2>3. met = [at |-> call.at, endpoint |-> call.endpoint, getter |-> call.getter,
                 status |-> call.status, broke |-> call.broke, body |-> body,
                 outcome |-> call.outcome, value |-> call.value]
      BY <1>1, SetFields
    <2>4. Ends(met, ending)
      BY <1>9 DEF BodyRead
    <2> HIDE DEF ending, met
    <2>5. /\ IsCall(met) /\ met.endpoint = call.endpoint /\ met.getter = "token"
          /\ met.status = 200 /\ met.broke = "none" /\ met.body = body
      BY <1>2, <1>9, <2>3 DEF IsCall
    <2>6. met.endpoint # "identity" /\ met.status \notin Rejections
      BY <1>2, <1>9, <2>5 DEF Rejections
    <2>7. Rejected(met) <=> ending.outcome = "AbrpAuthError"
      BY <2>2, <2>5, <2>6 DEF Rejected
    <2>8. Told(met, ending.outcome)
      BY <2>2, <2>5 DEF Told, GetterErrors, Infinite
    <2>9. ending.outcome \in Outcomes \ {"none"} /\ met.status \in Statuses
      BY <2>2, <2>5, ZenonT(60) DEF Outcomes, GetterErrors, Statuses
    <2> QED
      BY <2>1, <2>4, <2>5, <2>7, <2>8, <2>9, EndInv
  <1>10. ASSUME NEW token \in Tokens, IdentityParsed(token)
         PROVE  CallInv'
    <2> DEFINE ending == ParseIdentity(token)
               met == [NoCall EXCEPT !.endpoint = "identity", !.body = token]
    <2>1. /\ ending.outcome \in {"result", "AbrpAuthError"}
          /\ ending.outcome = "AbrpAuthError" <=>
                (token.payload = "dict" => token.sub \in {"empty", "number"})
      BY Endings DEF ParseIdentity, Tokens
    <2>2. met = [at |-> "out", endpoint |-> "identity", getter |-> "none", status |-> 0,
                 broke |-> "none", body |-> token, outcome |-> "none", value |-> <<>>]
      <3> DEFINE first == [NoCall EXCEPT !.endpoint = "identity"]
      <3>1. first = [at |-> "out", endpoint |-> "identity", getter |-> "none", status |-> 0,
                     broke |-> "none", body |-> NoBody, outcome |-> "none", value |-> <<>>]
        BY DEF NoCall, NoBody
      <3>2. met = [first EXCEPT !.body = token]
        OBVIOUS
      <3> HIDE DEF first, met
      <3> QED
        BY <3>1, <3>2
    <2>3. Ends(met, ending)
      BY <1>10 DEF IdentityParsed
    <2> HIDE DEF ending, met
    <2>4. /\ IsCall(met) /\ met.endpoint = "identity" /\ met.getter = "none" /\ met.status = 0
          /\ met.broke = "none" /\ met.body = token
      BY <2>2 DEF IsCall
    <2>5. Rejected(met) <=> ending.outcome = "AbrpAuthError"
      BY <2>1, <2>4 DEF Rejected, Rejections
    <2>6. "identity" \notin Endpoints /\ ending.outcome \in Outcomes \ {"none"}
      BY <1>1, <2>1 DEF Outcomes, GetterErrors
    <2> QED
      BY <2>3, <2>4, <2>5, <2>6, EndInv
  <1> QED
    BY <1>3, <1>4, <1>5, <1>6, <1>8, <1>9, <1>10 DEF Next

\* So it always holds.
LEMMA CallInvariant == Spec => []CallInv
  <1>1. Init => CallInv
    BY EndpointsAssumption DEF Init, NoCall, CallInv, IsCall, TypeOK, Progress,
       AuthExactlyWhenRejected, OutcomeTellsCause, GetterErrors, Statuses, Rejections
  <1>2. CallInv /\ [Next]_call => CallInv'
    <2> SUFFICES ASSUME CallInv, [Next]_call PROVE CallInv'
      OBVIOUS
    <2>1. CASE UNCHANGED call
      <3>1. IsCall(call)' /\ TypeOK' /\ Progress'
        BY <2>1 DEF CallInv, IsCall, TypeOK, Progress
      <3>2. AuthExactlyWhenRejected' /\ OutcomeTellsCause'
        BY <2>1 DEF CallInv, AuthExactlyWhenRejected, OutcomeTellsCause, HasInfinity
      <3> QED
        BY <3>1, <3>2 DEF CallInv
    <2> QED
      BY <2>1, CallInvStep
  <1> QED
    BY <1>1, <1>2, PTL DEF Spec

\* The call always has its type, and an outcome exactly when it is over.
THEOREM CallTyped == Spec => []TypeOK
  <1>1. CallInv => TypeOK
    BY DEF CallInv
  <1> QED
    BY <1>1, CallInvariant, PTL

\* A terminal auth failure is reported exactly when somebody rejected the
\* credentials.
THEOREM AuthFailureIsRejection == Spec => []AuthExactlyWhenRejected
  <1>1. CallInv => AuthExactlyWhenRejected
    BY DEF CallInv
  <1> QED
    BY <1>1, CallInvariant, PTL

\* The caller can tell from the outcome whose failure it was.
THEOREM CauseIsTold == Spec => []OutcomeTellsCause
  <1>1. CallInv => OutcomeTellsCause
    BY DEF CallInv
  <1> QED
    BY <1>1, CallInvariant, PTL

-----------------------------------------------------------------------------
(* What becomes of the records of a body.                                  *)

CatalogItems == CatalogRecords \cup {[typecode |-> "not a dict"]}

\* Of the records with a typecode, the last.
LastOf(records, t, i) ==
    /\ i \in DOMAIN records /\ records[i].typecode = t
    /\ \A j \in DOMAIN records : j > i => records[j].typecode # t

\* A catalog finds the last record of every usable typecode.
Finds(catalog, records) ==
    \A t \in {"t1", "t2"} :
        /\ t \in DOMAIN catalog <=> \E i \in DOMAIN records : LastOf(records, t, i)
        /\ \A i \in DOMAIN records :
              LastOf(records, t, i) => catalog[t] = CatalogEntry(records[i])

\* A record changes the entry of its own typecode and no other.
LEMMA CatalogEntrySet ==
    ASSUME NEW catalog, NEW record
    PROVE  LET next == CatalogAfter(catalog, record) IN
           IF record.typecode \in {"not a dict", "unusable"} THEN next = catalog
           ELSE /\ DOMAIN next = DOMAIN catalog \cup {record.typecode}
                /\ next[record.typecode] = CatalogEntry(record)
                /\ \A t \in DOMAIN catalog : t # record.typecode => next[t] = catalog[t]
  BY DEF CatalogAfter

\* One more record moves the last of its typecode to the end, and only that.
LEMMA LastOfAppend ==
    ASSUME NEW R, NEW s \in Seq(R), NEW c \in R, NEW t
    PROVE  LET n == Append(s, c) IN
           /\ DOMAIN n = DOMAIN s \cup {Len(s) + 1} /\ n[Len(s) + 1] = c
           /\ \A i \in DOMAIN s : n[i] = s[i] /\ i # Len(s) + 1
           /\ LastOf(n, t, Len(s) + 1) <=> c.typecode = t
           /\ \A i \in DOMAIN s : LastOf(n, t, i) <=> LastOf(s, t, i) /\ c.typecode # t
  <1> DEFINE n == Append(s, c)
  <1>1. /\ DOMAIN n = DOMAIN s \cup {Len(s) + 1} /\ n[Len(s) + 1] = c
        /\ \A i \in DOMAIN s : n[i] = s[i] /\ i # Len(s) + 1
        /\ \A i \in DOMAIN s : Len(s) + 1 > i /\ ~(i > Len(s) + 1)
        /\ ~(Len(s) + 1 > Len(s) + 1)
    OBVIOUS
  <1> HIDE DEF n
  <1>2. LastOf(n, t, Len(s) + 1) <=> c.typecode = t
    BY <1>1 DEF LastOf
  <1>3. ASSUME NEW i \in DOMAIN s
        PROVE  LastOf(n, t, i) <=> LastOf(s, t, i) /\ c.typecode # t
    BY <1>1 DEF LastOf
  <1> QED
    BY <1>1, <1>2, <1>3 DEF n

\* One more record keeps a catalog right.
LEMMA FindsAppend ==
    ASSUME NEW s \in Seq(CatalogItems), NEW c \in CatalogItems, NEW catalog, Finds(catalog, s)
    PROVE  Finds(CatalogAfter(catalog, c), Append(s, c))
  <1> DEFINE next == CatalogAfter(catalog, c)
             n == Append(s, c)
             last == Len(s) + 1
  <1>1. IF c.typecode \in {"not a dict", "unusable"} THEN next = catalog
        ELSE /\ DOMAIN next = DOMAIN catalog \cup {c.typecode}
             /\ next[c.typecode] = CatalogEntry(c)
             /\ \A t \in DOMAIN catalog : t # c.typecode => next[t] = catalog[t]
    BY CatalogEntrySet
  <1> SUFFICES ASSUME NEW t \in {"t1", "t2"}
               PROVE  /\ t \in DOMAIN next <=> \E i \in DOMAIN n : LastOf(n, t, i)
                      /\ \A i \in DOMAIN n : LastOf(n, t, i) => next[t] = CatalogEntry(n[i])
    BY DEF Finds
  <1>2. /\ DOMAIN n = DOMAIN s \cup {last} /\ n[last] = c
        /\ \A i \in DOMAIN s : n[i] = s[i] /\ i # last
        /\ LastOf(n, t, last) <=> c.typecode = t
        /\ \A i \in DOMAIN s : LastOf(n, t, i) <=> LastOf(s, t, i) /\ c.typecode # t
    BY LastOfAppend
  <1>3. /\ t \in DOMAIN catalog <=> \E i \in DOMAIN s : LastOf(s, t, i)
        /\ \A i \in DOMAIN s : LastOf(s, t, i) => catalog[t] = CatalogEntry(s[i])
    BY DEF Finds
  <1> HIDE DEF next, n, last
  <1>4. CASE c.typecode = t
    BY <1>1, <1>2, <1>4
  <1>5. CASE c.typecode # t
    <2>1. t \in DOMAIN next <=> t \in DOMAIN catalog
      BY <1>1, <1>5
    <2>2. t \in DOMAIN catalog => next[t] = catalog[t]
      BY <1>1, <1>5
    <2> QED
      BY <1>2, <1>3, <1>5, <2>1, <2>2
  <1> QED
    BY <1>4, <1>5

\* So the loop over any records builds a catalog that is right.
LEMMA CatalogFinds ==
    ASSUME NEW records \in Seq(CatalogItems)
    PROVE  Finds(Catalog!Fold(<<>>, records), records)
  <1> DEFINE P == {s \in Seq(CatalogItems) : Finds(Catalog!Fold(<<>>, s), s)}
  <1>1. <<>> \in P
    <2>1. Catalog!Fold(<<>>, <<>>) = <<>>
      BY Catalog!FoldEmpty
    <2>2. Finds(<<>>, <<>>)
      BY DEF Finds
    <2> QED
      BY <2>1, <2>2
  <1>2. ASSUME NEW s \in Seq(CatalogItems), NEW c \in CatalogItems, s \in P
        PROVE  Append(s, c) \in P
    <2>1. Catalog!Fold(<<>>, Append(s, c)) = CatalogAfter(Catalog!Fold(<<>>, s), c)
      BY Catalog!FoldAppend
    <2>2. Finds(CatalogAfter(Catalog!Fold(<<>>, s), c), Append(s, c))
      BY <1>2, FindsAppend
    <2>3. Append(s, c) \in Seq(CatalogItems)
      OBVIOUS
    <2> QED
      BY <2>1, <2>2, <2>3
  <1> HIDE DEF P
  <1>3. Seq(CatalogItems) \subseteq P
    BY <1>1, <1>2, Catalog!SeqSets
  <1> QED
    BY <1>3 DEF P

\* What is returned of a garage or a catalog.
LEMMA GarageKept ==
    ASSUME NEW body \in Bodies("garage"), Parse("garage", body).outcome = "result"
    PROVE  LET value == Parse("garage", body).value IN
           /\ value = body.records
           /\ \A i \in DOMAIN value : value[i] \in {"nameless", "named"}
  <1>1. body \in [shape : {"not a dict"}] \cup GarageBodies
    BY Zenon DEF Bodies
  <1>2. ASSUME body.shape = "not a dict" PROVE FALSE
    <2>1. Parse("garage", body) = Raised("AbrpApiError")
      BY <1>2, Zenon DEF Parse
    <2> QED
      BY <2>1, Endings
  <1>3. Parse("garage", body) = ParseGarage(body)
    BY <1>2, Zenon DEF Parse
  <1>4. ASSUME body.shape = "auth error" PROVE FALSE
    <2>1. ParseGarage(body) = Raised("AbrpAuthError")
      BY <1>4, Zenon DEF ParseGarage
    <2> QED
      BY <1>3, <2>1, Endings
  <1>5. ASSUME body.shape \in {"error", "no list"} PROVE FALSE
    <2>1. ParseGarage(body) = Raised("AbrpApiError")
      BY <1>5, Zenon DEF ParseGarage
    <2> QED
      BY <1>3, <2>1, Endings
  <1>6. body.shape = "list" /\ body.records \in Lists(GarageRecords)
    BY <1>1, <1>2, <1>4, <1>5 DEF GarageBodies
  <1> DEFINE bad == {i \in DOMAIN body.records : RecordError(body.records[i]) # "none"}
  <1>7. ParseGarage(body) = IF bad = {} THEN Returned(body.records)
                            ELSE Raised(RecordError(body.records[Min(bad)]))
    BY <1>6, Zenon DEF ParseGarage
  <1>8. CASE bad # {}
    <2> DEFINE record == body.records[Min(bad)]
    <2>1. bad \in SUBSET DOMAIN body.records
      OBVIOUS
    <2>2. Min(bad) \in bad
      BY <1>6, <1>8, <2>1, FirstIndex
    <2>3. RecordError(record) # "none" /\ ParseGarage(body) = Raised(RecordError(record))
      BY <1>7, <1>8, <2>2
    <2> HIDE DEF record
    <2>4. RecordError(record) # "result"
      BY <2>3, RecordErrors
    <2> QED
      BY <1>3, <2>3, <2>4, Endings
  <1>9. CASE bad = {}
    <2>1. ParseGarage(body).value = body.records
      BY <1>7, <1>9 DEF Returned
    <2>2. ASSUME NEW i \in DOMAIN body.records PROVE body.records[i] \in {"nameless", "named"}
      <3>1. RecordError(body.records[i]) = "none"
        BY <1>9
      <3>2. RecordError("malformed") # "none"
        BY Zenon DEF RecordError
      <3>3. RecordError("infinite id") # "none"
        BY Zenon DEF RecordError
      <3>4. body.records[i] \in GarageRecords
        BY <1>6 DEF Lists
      <3> QED
        BY <3>1, <3>2, <3>3, <3>4 DEF GarageRecords
    <2> QED
      BY <1>3, <2>1, <2>2
  <1> QED
    BY <1>8, <1>9

\* A catalog that is returned has what its records stand for.
LEMMA CatalogKept ==
    ASSUME NEW body \in Bodies("catalog"), Parse("catalog", body).outcome = "result"
    PROVE  Finds(Parse("catalog", body).value, body.records)
  <1>1. body \in [shape : {"not a dict"}] \cup CatalogBodies
    BY Zenon DEF Bodies
  <1>2. ASSUME body.shape = "not a dict" PROVE FALSE
    <2>1. Parse("catalog", body) = Raised("AbrpApiError")
      BY <1>2, Zenon DEF Parse
    <2> QED
      BY <2>1, Endings
  <1>3. Parse("catalog", body) = ParseCatalog(body)
    BY <1>2, Zenon DEF Parse
  <1>4. ASSUME body.shape = "no list" PROVE FALSE
    BY <1>3, <1>4, Endings DEF ParseCatalog
  <1>5. body.records \in Lists(CatalogItems)
    BY <1>1, <1>2, <1>4 DEF CatalogBodies, CatalogItems
  <1>6. body.records \in Seq(CatalogItems)
    BY <1>5, EndpointsAssumption DEF Lists
  <1>7. Parse("catalog", body).value = Catalog!Fold(<<>>, body.records)
    <2>1. ParseCatalog(body) = Returned(Catalog!Fold(<<>>, body.records))
      BY <1>4, Zenon DEF ParseCatalog
    <2>2. \A v : Returned(v).value = v
      BY DEF Returned
    <2> QED
      BY <1>3, <2>1, <2>2, Zenon
  <1> QED
    BY <1>6, <1>7, CatalogFinds

\* Only a body that was read is a result of the two endpoints.
LEMMA ResultRead ==
    ASSUME CallInv, Next, call'.outcome = "result", call'.endpoint \in Endpoints
    PROVE  /\ call'.body \in Bodies(call'.endpoint)
           /\ Parse(call'.endpoint, call'.body).outcome = "result"
           /\ call'.value = Parse(call'.endpoint, call'.body).value
  <1>1. /\ IsCall(call) /\ Endpoints \subseteq {"garage", "catalog", "telemetry", "display"}
        /\ call.at # "out" => call.outcome = "none"
    BY EndpointsAssumption DEF CallInv, Progress
  <1>2. ASSUME NEW c, NEW o, o # "result", Ends(c, Raised(o)), IsCall(c) PROVE FALSE
    <2>1. call'.outcome = Raised(o).outcome
      BY <1>2, EndsFields
    <2> QED
      BY <1>2, <2>1, Endings
  <1>3. ASSUME NEW endpoint \in Endpoints, Begins(endpoint) PROVE FALSE
    BY <1>3 DEF Begins, NoCall
  <1>4. ASSUME TokenFetched PROVE FALSE
    BY <1>1, <1>4 DEF TokenFetched, IsCall
  <1>5. ASSUME NEW x
        PROVE  IsCall([call EXCEPT !.getter = x]) /\ IsCall([call EXCEPT !.status = x])
               /\ IsCall([call EXCEPT !.broke = x])
    <2>1. IsCall([call EXCEPT !.getter = x])
      BY <1>1, SetFields DEF IsCall
    <2>2. IsCall([call EXCEPT !.status = x])
      BY <1>1, SetFields DEF IsCall
    <2>3. IsCall([call EXCEPT !.broke = x])
      BY <1>1, SetFields DEF IsCall
    <2> QED
      BY <2>1, <2>2, <2>3
  <1>6. ASSUME NEW e \in GetterErrors, TokenRaises(e) PROVE FALSE
    <2>1. e # "result"
      BY DEF GetterErrors
    <2> QED
      BY <1>2, <1>5, <1>6, <2>1 DEF TokenRaises, GetterOutcome
  <1>7. ASSUME NEW status \in Statuses, Answered(status) PROVE FALSE
    <2>1. StatusOutcome(status) # "result"
      BY DEF StatusOutcome
    <2>2. StatusOutcome(status) = "none"
      BY <1>2, <1>5, <1>7, <2>1 DEF Answered
    <2>3. call' = [[call EXCEPT !.status = status] EXCEPT !.at = "body"] /\ call.at = "request"
      BY <1>7, <2>2 DEF Answered
    <2>4. call'.outcome = call.outcome
      BY <1>1, <2>3 DEF IsCall
    <2> QED
      BY <1>1, <2>3, <2>4
  <1>8. ASSUME \/ RequestFails("ClientError") \/ RequestFails("TimeoutError")
               \/ BodyMalformed \/ Cancelled
        PROVE  FALSE
    <2>1. ASSUME RequestFails("ClientError") PROVE FALSE
      BY <1>2, <1>5, <2>1 DEF RequestFails, Band
    <2>2. ASSUME RequestFails("TimeoutError") PROVE FALSE
      BY <1>2, <1>5, <2>2 DEF RequestFails, Band
    <2>3. ASSUME BodyMalformed PROVE FALSE
      BY <1>2, <1>5, <2>3 DEF BodyMalformed
    <2>4. ASSUME Cancelled PROVE FALSE
      BY <1>2, <1>5, <2>4 DEF Cancelled, GetterOutcome, Band
    <2> QED
      BY <1>8, <2>1, <2>2, <2>3, <2>4
  <1>9. ASSUME NEW token \in Tokens, IdentityParsed(token) PROVE FALSE
    <2>1. call'.endpoint = "identity"
      BY <1>9 DEF IdentityParsed, Ends, NoCall
    <2> QED
      BY <1>1, <2>1
  <1>10. PICK body \in Bodies(call.endpoint) : BodyRead(body)
    BY <1>3, <1>4, <1>6, <1>7, <1>8, <1>9 DEF Next
  <1> DEFINE ending == Parse(call.endpoint, body)
             met == [call EXCEPT !.body = body]
  <1>11. Ends(met, ending) /\ IsCall(met) /\ met.body = body /\ met.endpoint = call.endpoint
    BY <1>1, <1>10, SetFields DEF BodyRead, IsCall
  <1>12. call'.value = ending.value
    BY <1>11 DEF Ends, IsCall
  <1> HIDE DEF met, ending
  <1>13. call'.outcome = ending.outcome /\ call'.endpoint = call.endpoint /\ call'.body = body
    BY <1>11, EndsFields
  <1> QED
    BY <1>12, <1>13 DEF ending

\* A garage counts every record and keeps their order, a catalog finds the
\* last usable record of a typecode: for bodies of any length.
THEOREM RecordsAreKept == Spec => []RecordsKept
  <1>1. Init => RecordsKept
    BY DEF Init, NoCall, RecordsKept
  <1>2. CallInv /\ RecordsKept /\ [Next]_call => RecordsKept'
    <2> SUFFICES ASSUME CallInv, RecordsKept, [Next]_call PROVE RecordsKept'
      OBVIOUS
    <2>1. CASE UNCHANGED call
      BY <2>1 DEF RecordsKept
    <2>2. CASE Next
      <3> DEFINE body == call'.body
      <3>0. ASSUME call'.outcome = "result", call'.endpoint \in {"garage", "catalog"}
            PROVE  /\ body \in Bodies(call'.endpoint)
                   /\ Parse(call'.endpoint, body).outcome = "result"
                   /\ call'.value = Parse(call'.endpoint, body).value
        <4>1. call'.endpoint \in Endpoints
          BY <2>2, <3>0, CallInvStep DEF CallInv, TypeOK
        <4> QED
          BY <2>2, <3>0, <4>1, ResultRead
      <3> HIDE DEF body
      <3>1. ASSUME call'.outcome = "result", call'.endpoint = "garage"
            PROVE  /\ call'.value = body.records
                   /\ \A i \in DOMAIN call'.value : call'.value[i] \in {"nameless", "named"}
        <4>1. /\ body \in Bodies("garage") /\ Parse("garage", body).outcome = "result"
              /\ call'.value = Parse("garage", body).value
          BY <3>0, <3>1
        <4> QED
          BY <4>1, GarageKept, Zenon
      <3>2. ASSUME call'.outcome = "result", call'.endpoint = "catalog"
            PROVE  Finds(call'.value, body.records)
        <4>1. /\ body \in Bodies("catalog") /\ Parse("catalog", body).outcome = "result"
              /\ call'.value = Parse("catalog", body).value
          BY <3>0, <3>2
        <4> QED
          BY <4>1, CatalogKept, Zenon
      <3> QED
        BY <3>1, <3>2 DEF body, RecordsKept, Finds, LastOf
    <2> QED
      BY <2>1, <2>2
  <1> QED
    BY <1>1, <1>2, CallInvariant, PTL DEF Spec
=============================================================================
