-------------------------- MODULE MetricExtraction --------------------------
(***************************************************************************)
(* extract_metrics of src/src/aioabrp/_extract.py: a wire frame becomes     *)
(* typed metrics, whatever shape its blocks have, and drift of the two      *)
(* closed enums is reported once by each client or stream.                  *)
(*                                                                         *)
(* One metric stands for each rule of extraction: "soc" for fractions and  *)
(* "power" for the other numbers.  A frame maps the metrics that have a    *)
(* dict block to that block; a leaf is represented by what the code tests  *)
(* about it.  "huge" is an integer beyond the range of a float.             *)
(***************************************************************************)
EXTENDS Naturals, Sequences

CONSTANTS
    Sources,    \* the client and stream instances
    Unknown,    \* enum members the library does not know
    Leaves      \* leaves of location, mapInfo and calibratedConfidence

AllLeaves == {"absent", "null", "text", "bool", "nonfinite", "number", "huge"}

ASSUME LeavesAssumption == Leaves \subseteq AllLeaves
ASSUME UnknownAssumption == Unknown \cap {"not a string", "", "PARK", "PLUGGED_IN"} = {}

VARIABLES
    seen,       \* the two dedup sets of each source
    warned,     \* how often a source has warned of a member of an enum
    last        \* the last frame extracted and what came out of it

vars == <<seen, warned, last>>

-----------------------------------------------------------------------------
(* Blocks.                                                                 *)

Enums == {"charging_state", "driving_state"}

\* The metrics in the order in which WIRE_KEYS is read.
WireOrder == <<"soc", "power", "charging_state", "location", "driving_state", "map_info",
               "calibrated_confidence">>
Metrics == {WireOrder[i] : i \in DOMAIN WireOrder}
Rank == [m \in Metrics |-> CHOOSE i \in DOMAIN WireOrder : WireOrder[i] = m]

\* A member of one enum is unknown to the other.
Known == [charging_state |-> {"PLUGGED_IN"}, driving_state |-> {"PARK"}]
Members == {"PLUGGED_IN", "PARK"} \cup Unknown

\* Arrays of at most two items.
Arrays == {<<>>} \cup {<<a>> : a \in Leaves} \cup (Leaves \X Leaves)

Contents(m) ==
    CASE m \in {"soc", "power"} -> [leaf : AllLeaves]
      [] m \in Enums -> [state : {"not a string", ""} \cup Members]
      [] m = "location" -> [lat : Leaves, long : Leaves]
      [] m = "map_info" -> [region : {"EUROPE", "unknown"}, country_3 : {"text", "null"},
                            speedLimitMs : Leaves, isFreeSpeedZone : {"bool", "null"}]
      [] m = "calibrated_confidence" -> [list : {TRUE}, frac : Arrays]
                                        \cup [list : {FALSE}, frac : {<<>>}]

\* Times and providers are independent of the rest: a number takes them all.
GoodStamp == [time : {"aware"}, provider : {"clean"}]
AnyStamp == [time : {"absent", "not a string", "malformed", "naive", "aware"},
             provider : {"not a string", "empty", "padded", "clean"}]

Blocks(m) ==
    [content : Contents(m), stamp : GoodStamp]
    \cup IF m = "power" THEN [content : {[leaf |-> "number"]}, stamp : AnyStamp] ELSE {}

-----------------------------------------------------------------------------
(* The values.  An extracted value is a tuple, empty for None.             *)

None == <<>>
Raises == <<"OverflowError">>

LocationOfEither(b) ==                   \* slip: half a coordinate is surfaced
    IF "number" \in {b.lat, b.long} THEN <<b.lat, b.long>> ELSE None

\* math.isfinite converts its argument, and a huge integer has no float.
CoerceFiniteNumber(leaf) ==
    IF leaf = "huge" THEN Raises ELSE IF leaf = "number" THEN <<"float">> ELSE None

Percent(value) == IF value = <<"float">> THEN <<"percent">> ELSE value

DriftOrEmpty(m, b) ==                    \* slip: the empty string is a member
    {b.state} \ ({"not a string"} \cup Known[m])

\* The member of a block the library does not know, if it has one.
Drift(m, b) == {b.state} \ ({"not a string", ""} \cup Known[m])

EnumState(m, b) == IF b.state \in Known[m] THEN <<b.state>> ELSE None

\* Both coordinates are read before either is tested.
Location(b) ==
    LET lat == CoerceFiniteNumber(b.lat)
        long == CoerceFiniteNumber(b.long)
    IN IF Raises \in {lat, long} THEN Raises
       ELSE IF None \in {lat, long} THEN None
       ELSE lat \o long

\* The array is read up to the first item that is not usable.
CalibratedConfidence(b) ==
    LET Item(i) == CoerceFiniteNumber(b.frac[i])
        bad == {i \in DOMAIN b.frac : Item(i) \in {None, Raises}}
    IN IF ~b.list \/ b.frac = <<>> THEN None
       ELSE IF bad = {} THEN [i \in DOMAIN b.frac |-> "float"]
       ELSE Item(CHOOSE i \in bad : \A j \in bad : i <= j)

\* country_3 stands for address too, which is read by the same rule.
MapInfo(b) ==
    LET limit == CoerceFiniteNumber(b.speedLimitMs)
        fields == <<IF b.region = "EUROPE" THEN "EUROPE" ELSE "None",
                    IF b.country_3 = "text" THEN "text" ELSE "None",
                    IF limit = None THEN "None" ELSE "float",
                    IF b.isFreeSpeedZone = "bool" THEN "bool" ELSE "None">>
    IN IF limit = Raises THEN Raises
       ELSE IF \A i \in DOMAIN fields : fields[i] = "None" THEN None
       ELSE fields

Value(m, b) ==
    CASE m \in Enums -> EnumState(m, b)
      [] m = "location" -> Location(b)
      [] m = "map_info" -> MapInfo(b)
      [] m = "calibrated_confidence" -> CalibratedConfidence(b)
      [] m = "soc" -> Percent(CoerceFiniteNumber(b.leaf))
      [] m = "power" -> CoerceFiniteNumber(b.leaf)

ParseBlockTime(block) == IF block.stamp.time = "aware" THEN "aware" ELSE "None"
CleanProvider(block) == IF block.stamp.provider = "clean" THEN "clean" ELSE "None"

-----------------------------------------------------------------------------
(* extract_metrics.                                                        *)

Init ==
    /\ seen = [s \in Sources |-> [e \in Enums |-> {}]]
    /\ warned = [s \in Sources |-> [e \in Enums |-> [u \in Members |-> 0]]]
    /\ last = [source |-> "none"]

SeenForgets(sets, drift) == sets         \* slip: the member is not remembered
SeenShared(sets, drift) ==               \* slip: one set for the two enums
    [e \in Enums |-> sets[e] \cup UNION {drift[d] : d \in Enums}]

SeenAfter(sets, drift) == [e \in Enums |-> sets[e] \cup drift[e]]

Idle == last.source = "none"

\* The metrics are read in order, up to the first one that raises: what the
\* frame has warned of by then stays remembered, its metrics are lost.
ExtractMetrics(s, frame) ==
    LET value == [m \in DOMAIN frame |-> Value(m, frame[m].content)]
        raising == {m \in DOMAIN frame : value[m] = Raises}
        read == {m \in DOMAIN frame : \A r \in raising : Rank[m] <= Rank[r]}
        drift == [e \in Enums |->
                    IF e \in read THEN Drift(e, frame[e].content) \ seen[s][e] ELSE {}]
    IN /\ seen' = [seen EXCEPT ![s] = SeenAfter(@, drift)]
       /\ warned' = [warned EXCEPT ![s] = [e \in Enums |-> [u \in Members |->
                        IF u \in drift[e] THEN @[e][u] + 1 ELSE @[e][u]]]]
       /\ last' = [source |-> s, frame |-> frame, raised |-> raising # {},
                   result |-> [m \in {k \in DOMAIN frame : raising = {} /\ value[k] # None} |->
                        [value |-> value[m], time |-> ParseBlockTime(frame[m]),
                         provider |-> CleanProvider(frame[m])]]]

\* The caller has taken the result.
ResultTaken ==
    /\ ~Idle
    /\ last' = [source |-> "none"]
    /\ UNCHANGED <<seen, warned>>

\* Frames of one or two blocks.
FrameArrives ==
    /\ Idle
    /\ \E s \in Sources, m1 \in Metrics, m2 \in Metrics :
       \E b1 \in Blocks(m1), b2 \in Blocks(m2) :
            /\ Rank[m1] <= Rank[m2]
            /\ ExtractMetrics(s, [m \in {m1, m2} |-> IF m = m1 THEN b1 ELSE b2])

Next == FrameArrives \/ ResultTaken

Spec == Init /\ [][Next]_vars

-----------------------------------------------------------------------------
(* Properties.                                                             *)

\* Every variable has its type.
TypeOK ==
    /\ seen \in [Sources -> [Enums -> SUBSET Members]]
    /\ warned \in [Sources -> [Enums -> [Members -> Nat]]]
    /\ last.source \in Sources \cup {"none"}
    /\ ~Idle => DOMAIN last.frame \subseteq Metrics /\ last.raised \in BOOLEAN

\* Each source warns of a member of an enum at most once, however often the
\* server sends it and whatever the other enum and the other sources have seen,
\* and remembers exactly what it has warned of.
WarnedOnce ==
    \A s \in Sources, e \in Enums, u \in Members :
        warned[s][e][u] = IF u \in seen[s][e] THEN 1 ELSE 0

\* Drift always leaves a trace: a member that was dropped from a frame has been
\* warned of, by this source and for this enum.
DriftReported ==
    ~Idle =>
        \A e \in Enums \cap DOMAIN last.frame :
            LET state == last.frame[e].content.state IN
            state \in Members \ Known[e] /\ ~last.raised
                => warned[last.source][e][state] > 0

\* A block of metric m has usable data.
Usable(m, b) ==
    CASE m \in {"soc", "power"} -> b.leaf = "number"
      [] m \in Enums -> b.state \in Known[m]
      [] m = "location" -> {b.lat, b.long} = {"number"}
      [] m = "map_info" -> \/ b.region = "EUROPE" \/ b.country_3 = "text"
                           \/ b.speedLimitMs = "number" \/ b.isFreeSpeedZone = "bool"
      [] m = "calibrated_confidence" ->
            b.frac # <<>> /\ \A i \in DOMAIN b.frac : b.frac[i] = "number"

\* The tolerance matrix: a frame that is extracted yields exactly the metrics
\* with usable data, whatever the other blocks of the frame look like.
TolerantExtraction ==
    ~Idle /\ ~last.raised =>
        /\ DOMAIN last.result = {m \in DOMAIN last.frame : Usable(m, last.frame[m].content)}
        /\ \A m \in DOMAIN last.result :
            /\ last.result[m].value = <<"percent">> <=> m = "soc"
            /\ last.result[m].time # "None" <=> last.frame[m].stamp.time = "aware"

\* "Extraction never raises on frame content": an unusable leaf costs its own
\* metric and nothing else.
ExtractionTotal == ~Idle => ~last.raised
=============================================================================
