----------------------------- MODULE RestClient -----------------------------
(***************************************************************************)
(* The calls of AbrpClient, src/src/aioabrp/client.py: a token from the    *)
(* consumer's getter, one request, its body, and what the body is parsed   *)
(* to; and parse_unverified_identity of auth.py, with which a consumer      *)
(* reads the token it was given at login.  Every await may fail in its own *)
(* way, or be cancelled.  The client is stateless and its calls share      *)
(* nothing, so one at a time is enough.                                    *)
(*                                                                         *)
(* A JSON value is represented by what the code tests about it.            *)
(***************************************************************************)
EXTENDS Naturals, SequencesExt

CONSTANTS
    Endpoints,  \* "garage", "catalog", "telemetry", "display"
    MaxRecords  \* bound on the records of a body

ASSUME EndpointsAssumption ==
    /\ Endpoints \subseteq {"garage", "catalog", "telemetry", "display"}
    /\ MaxRecords \in Nat

VARIABLE call   \* where the last call is, what it met and how it ended

Statuses == {200, 401, 403, 404, 500}
Rejections == {401, 403}

\* What a getter may raise; a refresh over aiohttp raises aiohttp's errors.
GetterErrors == {"AbrpAuthError", "ClientError", "TimeoutError", "other"}

Lists(S) == UNION {[1..n -> S] : n \in 0..MaxRecords}

\* The v1 envelope: its error text is auth-flavoured or not.  An id may be too
\* large for int(), a garage record may have no nickname.
GarageRecords == {"malformed", "infinite id", "nameless", "named"}
GarageBodies == [shape : {"error", "auth error", "no list"}]
                \cup [shape : {"list"}, records : Lists(GarageRecords)]

\* A catalog record of any shape, each column a value of the class named.
CatalogRecords == [typecode : {"t1", "t2", "unusable"},
                   model : {"text", "padded", "blank", "number"},
                   endYear : {"int", "bool", "text"}]
CatalogBodies == [shape : {"no list"}]
                 \cup [shape : {"list"},
                       records : Lists(CatalogRecords \cup {[typecode |-> "not a dict"]})]

\* A snapshot needs no field; one of its leaves may have no float.
TelemetryBodies == [shape : {"empty", "metrics", "infinite leaf"}]

Required == {"manufacturer", "model", "years", "title"}
DisplayBodies == [shape : {"display"}, strings : [Required -> {"text", "padded", "null"}],
                  endYear : {"int", "bool", "text"}]

Bodies(endpoint) ==
    [shape : {"not a dict"}] \cup
    CASE endpoint = "garage" -> GarageBodies
      [] endpoint = "catalog" -> CatalogBodies
      [] endpoint = "telemetry" -> TelemetryBodies
      [] endpoint = "display" -> DisplayBodies

Tokens == [payload : {"malformed", "not a dict"}]
          \cup [payload : {"dict"}, sub : {"text", "blank", "empty", "number"},
                name : {"text", "padded", "blank", "number"},
                email : {"text", "padded", "blank", "number"}]

NoCall == [at |-> "out", endpoint |-> "none", getter |-> "none", status |-> 0,
           broke |-> "none", body |-> [shape |-> "none"], outcome |-> "none", value |-> <<>>]

-----------------------------------------------------------------------------
(* The exception bands.                                                    *)

\* The getter is called before the band, so what it raises is not touched.
GetterOutcome(e) == e

BandCatchesAll(e) == "AbrpApiError"      \* slip: `except BaseException'

\* `except (ClientError, TimeoutError)' around the request and its body.
Band(e) == IF e \in {"ClientError", "TimeoutError"} THEN "AbrpApiError" ELSE e

StatusOutcomeCoarse(status) ==           \* slip: 4xx is tested first
    IF status >= 400 THEN "AbrpApiError" ELSE "none"

StatusOutcome(status) ==
    IF status \in Rejections THEN "AbrpAuthError"
    ELSE IF status >= 400 THEN "AbrpApiError"
    ELSE "none"

-----------------------------------------------------------------------------
(* The bodies.                                                             *)

Returned(value) == [outcome |-> "result", value |-> value]
Raised(error) == [outcome |-> error, value |-> <<>>]

StrOrNone(x) == IF x \in {"text", "padded"} THEN "text" ELSE "none"
IntOrNone(x) == IF x = "int" THEN "int" ELSE "none"

\* What _parse_vehicle raises for a record: int() of an infinite number raises
\* what nobody translates.
RecordError(record) ==
    CASE record = "malformed" -> "AbrpApiError"
      [] record = "infinite id" -> "OverflowError"
      [] OTHER -> "none"

\* The envelope, then the records in order: the first bad one ends the call.
ParseGarage(body) ==
    CASE body.shape = "auth error" -> Raised("AbrpAuthError")
      [] body.shape \in {"error", "no list"} -> Raised("AbrpApiError")
      [] body.shape = "list" ->
            LET bad == {i \in DOMAIN body.records : RecordError(body.records[i]) # "none"} IN
            IF bad = {} THEN Returned(body.records)
            ELSE Raised(RecordError(body.records[Min(bad)]))

\* One catalog record: its typecode is the key, so without one it is skipped.
CatalogEntry(record) ==
    [model |-> StrOrNone(record.model), end_year |-> IntOrNone(record.endYear)]

CatalogAfterFirst(catalog, record) ==    \* slip: an entry is not overwritten
    IF record.typecode \in {"not a dict", "unusable"} THEN catalog
    ELSE [t \in DOMAIN catalog \cup {record.typecode} |->
             IF t \in DOMAIN catalog THEN catalog[t] ELSE CatalogEntry(record)]

CatalogAfter(catalog, record) ==
    IF record.typecode \in {"not a dict", "unusable"} THEN catalog
    ELSE [t \in DOMAIN catalog \cup {record.typecode} |->
             IF t = record.typecode THEN CatalogEntry(record) ELSE catalog[t]]

Catalog == INSTANCE PrefixFold WITH Step <- CatalogAfter

ParseCatalog(body) ==
    IF body.shape = "no list" THEN Raised("AbrpApiError")
    ELSE Returned(Catalog!Fold(<<>>, body.records))

\* The extraction of a snapshot is total but for numbers without a float.
ParseTelemetry(body) ==
    IF body.shape = "infinite leaf" THEN Raised("OverflowError") ELSE Returned(<<>>)

\* The required strings are taken verbatim, or the record is refused.
ParseDisplay(body) ==
    IF \E k \in Required : body.strings[k] \notin {"text", "padded"}
    THEN Raised("AbrpApiError")
    ELSE Returned([strings |-> body.strings, end_year |-> IntOrNone(body.endYear)])

Parse(endpoint, body) ==
    CASE body.shape = "not a dict" -> Raised("AbrpApiError")
      [] OTHER -> CASE endpoint = "garage" -> ParseGarage(body)
                    [] endpoint = "catalog" -> ParseCatalog(body)
                    [] endpoint = "telemetry" -> ParseTelemetry(body)
                    [] endpoint = "display" -> ParseDisplay(body)

\* parse_unverified_identity: sub verbatim; the display name is the first of
\* name and email that is not blank, stripped.
ParseIdentity(token) ==
    IF token.payload # "dict" \/ token.sub \notin {"text", "blank"} THEN Raised("AbrpAuthError")
    ELSE Returned([subject |-> token.sub,
                   display_name |-> IF StrOrNone(token.name) # "none"
                                    THEN StrOrNone(token.name) ELSE StrOrNone(token.email)])

-----------------------------------------------------------------------------
Init == call = NoCall

EndsInPlace(met, ending) ==              \* slip: the call goes on after its end
    call' = [met EXCEPT !.outcome = ending.outcome, !.value = ending.value]

Ends(met, ending) ==
    call' = [met EXCEPT !.at = "out", !.outcome = ending.outcome, !.value = ending.value]

Begins(endpoint) ==
    /\ call.at = "out"
    /\ call' = [NoCall EXCEPT !.at = "token", !.endpoint = endpoint]

TokenFetched ==
    /\ call.at = "token"
    /\ call' = [call EXCEPT !.at = "request", !.getter = "token"]

TokenRaises(e) ==
    /\ call.at = "token"
    /\ Ends([call EXCEPT !.getter = e], Raised(GetterOutcome(e)))

\* The status line and the headers of the response.
Answered(status) ==
    /\ call.at = "request"
    /\ LET met == [call EXCEPT !.status = status] IN
       IF StatusOutcome(status) # "none"
       THEN Ends(met, Raised(StatusOutcome(status)))
       ELSE call' = [met EXCEPT !.at = "body"]

\* The transport fails, or the budget of the call is used up.
RequestFails(e) ==
    /\ call.at \in {"request", "body"}
    /\ Ends([call EXCEPT !.broke = e], Raised(Band(e)))

\* response.json() raises ValueError, which has a handler of its own.
BodyMalformed ==
    /\ call.at = "body"
    /\ Ends([call EXCEPT !.broke = "ValueError"], Raised("AbrpApiError"))

BodyRead(body) ==
    /\ call.at = "body"
    /\ Ends([call EXCEPT !.body = body], Parse(call.endpoint, body))

\* The caller's task is cancelled at an await.
Cancelled ==
    /\ call.at # "out"
    /\ Ends([call EXCEPT !.broke = "cancelled"],
            Raised(IF call.at = "token" THEN GetterOutcome("CancelledError")
                   ELSE Band("CancelledError")))

\* A plain function: no await, no request.
IdentityParsed(token) ==
    /\ call.at = "out"
    /\ Ends([NoCall EXCEPT !.endpoint = "identity", !.body = token], ParseIdentity(token))

Next ==
    \/ \E endpoint \in Endpoints : Begins(endpoint)
    \/ TokenFetched
    \/ \E e \in GetterErrors : TokenRaises(e)
    \/ \E status \in Statuses : Answered(status)
    \/ RequestFails("ClientError") \/ RequestFails("TimeoutError")
    \/ BodyMalformed
    \/ call.at = "body" /\ \E body \in Bodies(call.endpoint) : BodyRead(body)
    \/ Cancelled
    \/ \E token \in Tokens : IdentityParsed(token)

Spec == Init /\ [][Next]_call

-----------------------------------------------------------------------------
(* Properties.                                                             *)

\* The call has its type; it has an outcome exactly when it is over.
TypeOK ==
    /\ call.at \in {"out", "token", "request", "body"}
    /\ call.endpoint \in Endpoints \cup {"identity", "none"}
    /\ call.getter \in GetterErrors \cup {"token", "none"}
    /\ call.status \in Statuses \cup {0}
    /\ call.broke \in {"none", "ClientError", "TimeoutError", "ValueError", "cancelled"}
    /\ call.outcome \in {"none", "result", "AbrpApiError", "CancelledError",
                         "OverflowError"} \cup GetterErrors
    /\ call.endpoint # "none" => (call.outcome # "none" <=> call.at = "out")

\* A terminal auth failure is reported exactly when the getter gave up, the
\* server rejected the session, the v1 envelope says so, or the login token is
\* of no use: a consumer starts a new login for these, and retries all else.
AuthExactlyWhenRejected ==
    LET rejected ==
            \/ call.getter = "AbrpAuthError"
            \/ call.status \in Rejections
            \/ call.endpoint = "garage" /\ call.body.shape = "auth error"
            \/ /\ call.endpoint = "identity"
               /\ call.body.payload = "dict" => call.body.sub \in {"empty", "number"}
    IN call.outcome = "AbrpAuthError" <=> rejected

HasInfinity ==
    \/ call.body.shape = "infinite leaf"
    \/ call.endpoint = "garage" /\ call.body.shape = "list"
       /\ "infinite id" \in ToSet(call.body.records)

\* The caller can tell whose failure it was: its own getter's errors and its
\* own cancellation come through as they are, at whatever await; a result means
\* that nothing failed; all else is an error of the library, but for a number
\* the conversions cannot hold (the OverflowError nobody translates).
OutcomeTellsCause ==
    call.at = "out" /\ call.endpoint \in Endpoints =>
        IF call.getter \in GetterErrors THEN call.outcome = call.getter
        ELSE IF call.broke = "cancelled" THEN call.outcome = "CancelledError"
        ELSE IF call.broke # "none" \/ call.status # 200
             THEN call.outcome \in {"AbrpApiError", "AbrpAuthError"}
        ELSE call.outcome \in {"result", "AbrpApiError", "AbrpAuthError"}
             \/ (call.outcome = "OverflowError" /\ HasInfinity)

\* What a bad record costs: the whole garage, in which every record counts and
\* the order is kept; but only itself in the catalog, where of the usable
\* records of a typecode the last one is found, whatever stands around it.
RecordsKept ==
    call.outcome = "result" =>
        /\ call.endpoint = "garage" =>
                call.value = call.body.records
                /\ \A i \in DOMAIN call.value : call.value[i] \in {"nameless", "named"}
        /\ call.endpoint = "catalog" =>
                LET records == call.body.records
                    LastOf(t, i) == records[i].typecode = t
                                  /\ \A j \in DOMAIN records : j > i => records[j].typecode # t
                IN \A t \in {"t1", "t2"} :
                      /\ t \in DOMAIN call.value <=> \E i \in DOMAIN records : LastOf(t, i)
                      /\ \A i \in DOMAIN records :
                            LastOf(t, i) => call.value[t] = CatalogEntry(records[i])
=============================================================================
