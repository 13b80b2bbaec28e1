-------------------------- MODULE ExtractionProofs --------------------------
(***************************************************************************)
(* extract_metrics for any sources, any drift and frames of any number of  *)
(* blocks: a source warns of a member exactly when it enters the dedup set *)
(* of its enum, and a block has a value exactly when it has usable data.    *)
(***************************************************************************)
EXTENDS MetricExtraction, TLAPS

WarnedType == warned \in [Sources -> [Enums -> [Members -> Nat]]]
SeenType == seen \in [Sources -> [Enums -> SUBSET Members]]

\* A block of an enum that is unknown names a member.
LEMMA DriftType ==
    ASSUME NEW e \in Enums, NEW b \in Blocks(e)
    PROVE  Drift(e, b.content) \subseteq Members
  <1>1. e \notin {"soc", "power", "location", "map_info", "calibrated_confidence"}
    BY DEF Enums
  <1>2. Contents(e) = [state : {"not a string", ""} \cup Members]
    BY <1>1 DEF Contents
  <1>3. b.content \in Contents(e)
    BY <1>1 DEF Blocks
  <1>4. b.content.state \in {"not a string", ""} \cup Members
    BY <1>2, <1>3
  <1> QED
    BY <1>4 DEF Drift

\* What a frame adds to the dedup sets is what it adds to the warnings.
LEMMA ExtractStep ==
    ASSUME WarnedType, SeenType, WarnedOnce,
           NEW s \in Sources, NEW frame,
           \A e \in Enums \cap DOMAIN frame : Drift(e, frame[e].content) \subseteq Members,
           ExtractMetrics(s, frame)
    PROVE  WarnedType' /\ SeenType' /\ WarnedOnce'
  <1> DEFINE value == [m \in DOMAIN frame |-> Value(m, frame[m].content)]
             raising == {m \in DOMAIN frame : value[m] = Raises}
             read == {m \in DOMAIN frame : \A r \in raising : Rank[m] <= Rank[r]}
             drift == [e \in Enums |->
                        IF e \in read THEN Drift(e, frame[e].content) \ seen[s][e] ELSE {}]
  <1>1. /\ seen' = [seen EXCEPT ![s] = SeenAfter(@, drift)]
        /\ warned' = [warned EXCEPT ![s] = [e \in Enums |-> [u \in Members |->
                        IF u \in drift[e] THEN @[e][u] + 1 ELSE @[e][u]]]]
    BY DEF ExtractMetrics
  <1>2. \A e \in Enums : drift[e] \subseteq Members /\ drift[e] \cap seen[s][e] = {}
    OBVIOUS
  <1> HIDE DEF value, raising, read, drift
  <1>3. SeenAfter(seen[s], drift) \in [Enums -> SUBSET Members]
    BY <1>2 DEF SeenAfter, SeenType
  <1>4. SeenType'
    BY <1>1, <1>3 DEF SeenType
  <1>5. [e \in Enums |-> [u \in Members |->
            IF u \in drift[e] THEN warned[s][e][u] + 1 ELSE warned[s][e][u]]]
        \in [Enums -> [Members -> Nat]]
    BY DEF WarnedType
  <1>6. WarnedType'
    BY <1>1, <1>5 DEF WarnedType
  <1>7. ASSUME NEW t \in Sources, NEW e \in Enums, NEW u \in Members
        PROVE  warned'[t][e][u] = IF u \in seen'[t][e] THEN 1 ELSE 0
    <2>1. warned[t][e][u] = IF u \in seen[t][e] THEN 1 ELSE 0
      BY DEF WarnedOnce
    <2>2. CASE t # s
      BY <1>1, <2>1, <2>2 DEF WarnedType, SeenType
    <2>3. CASE t = s
      <3>1. seen'[t][e] = seen[s][e] \cup drift[e]
        BY <1>1, <2>3 DEF SeenAfter, SeenType
      <3>2. warned'[t][e][u] = IF u \in drift[e] THEN warned[s][e][u] + 1 ELSE warned[s][e][u]
        BY <1>1, <2>3 DEF WarnedType
      <3> QED
        BY <1>2, <2>1, <2>3, <3>1, <3>2
    <2> QED
      BY <2>2, <2>3
  <1> QED
    BY <1>4, <1>6, <1>7 DEF WarnedOnce

-----------------------------------------------------------------------------
(* What each metric is extracted to.                                       *)

MetricNames == {"soc", "power", "charging_state", "location", "driving_state", "map_info",
                "calibrated_confidence"}

LEMMA MetricsNamed == Metrics = MetricNames
  BY DEF Metrics, WireOrder, MetricNames

\* What the content of a block can be.
LEMMA ContentCases ==
    ASSUME NEW m
    PROVE  /\ m \in {"soc", "power"} => Contents(m) = [leaf : AllLeaves]
           /\ m \in Enums => Contents(m) = [state : {"not a string", ""} \cup Members]
           /\ m = "location" => Contents(m) = [lat : Leaves, long : Leaves]
           /\ m = "map_info" =>
                Contents(m) = [region : {"EUROPE", "unknown"}, country_3 : {"text", "null"},
                               speedLimitMs : Leaves, isFreeSpeedZone : {"bool", "null"}]
           /\ m = "calibrated_confidence" =>
                Contents(m) = [list : {TRUE}, frac : Arrays] \cup [list : {FALSE}, frac : {<<>>}]
  <1>1. m \in {"soc", "power"} => Contents(m) = [leaf : AllLeaves]
    BY Zenon DEF Contents, Enums
  <1>2. m \in Enums => Contents(m) = [state : {"not a string", ""} \cup Members]
    BY Zenon DEF Contents, Enums
  <1>3. m = "location" => Contents(m) = [lat : Leaves, long : Leaves]
    BY Zenon DEF Contents, Enums
  <1>4. m = "map_info" =>
            Contents(m) = [region : {"EUROPE", "unknown"}, country_3 : {"text", "null"},
                           speedLimitMs : Leaves, isFreeSpeedZone : {"bool", "null"}]
    BY Zenon DEF Contents, Enums
  <1>5. m = "calibrated_confidence" =>
            Contents(m) = [list : {TRUE}, frac : Arrays] \cup [list : {FALSE}, frac : {<<>>}]
    BY Zenon DEF Contents, Enums
  <1> QED
    BY <1>1, <1>2, <1>3, <1>4, <1>5

LEMMA ValueCases ==
    ASSUME NEW m, NEW b
    PROVE  /\ m \in Enums => Value(m, b) = EnumState(m, b)
           /\ m = "location" => Value(m, b) = Location(b)
           /\ m = "map_info" => Value(m, b) = MapInfo(b)
           /\ m = "calibrated_confidence" => Value(m, b) = CalibratedConfidence(b)
           /\ m = "soc" => Value(m, b) = Percent(CoerceFiniteNumber(b.leaf))
           /\ m = "power" => Value(m, b) = CoerceFiniteNumber(b.leaf)
  <1>1. m \in Enums => Value(m, b) = EnumState(m, b)
    BY Zenon DEF Value, Enums
  <1>2. m = "location" => Value(m, b) = Location(b)
    BY Zenon DEF Value, Enums
  <1>3. m = "map_info" => Value(m, b) = MapInfo(b)
    BY Zenon DEF Value, Enums
  <1>4. m = "calibrated_confidence" => Value(m, b) = CalibratedConfidence(b)
    BY Zenon DEF Value, Enums
  <1>5. m = "soc" => Value(m, b) = Percent(CoerceFiniteNumber(b.leaf))
    BY Zenon DEF Value, Enums
  <1>6. m = "power" => Value(m, b) = CoerceFiniteNumber(b.leaf)
    BY Zenon DEF Value, Enums
  <1> QED
    BY <1>1, <1>2, <1>3, <1>4, <1>5, <1>6

LEMMA UsableCases ==
    ASSUME NEW m, NEW b
    PROVE  /\ m \in {"soc", "power"} => (Usable(m, b) <=> b.leaf = "number")
           /\ m \in Enums => (Usable(m, b) <=> b.state \in Known[m])
           /\ m = "location" => (Usable(m, b) <=> {b.lat, b.long} = {"number"})
           /\ m = "map_info" =>
                (Usable(m, b) <=> \/ b.region = "EUROPE" \/ b.country_3 = "text"
                                  \/ b.speedLimitMs = "number" \/ b.isFreeSpeedZone = "bool")
           /\ m = "calibrated_confidence" =>
                (Usable(m, b) <=>
                    b.frac # <<>> /\ \A i \in DOMAIN b.frac : b.frac[i] = "number")
  <1>1. m \in {"soc", "power"} => (Usable(m, b) <=> b.leaf = "number")
    BY Zenon DEF Usable, Enums
  <1>2. m \in Enums => (Usable(m, b) <=> b.state \in Known[m])
    BY Zenon DEF Usable, Enums
  <1>3. m = "location" => (Usable(m, b) <=> {b.lat, b.long} = {"number"})
    BY Zenon DEF Usable, Enums
  <1>4. m = "map_info" =>
            (Usable(m, b) <=> \/ b.region = "EUROPE" \/ b.country_3 = "text"
                              \/ b.speedLimitMs = "number" \/ b.isFreeSpeedZone = "bool")
    BY Zenon DEF Usable, Enums
  <1>5. m = "calibrated_confidence" =>
            (Usable(m, b) <=> b.frac # <<>> /\ \A i \in DOMAIN b.frac : b.frac[i] = "number")
    BY Zenon DEF Usable, Enums
  <1> QED
    BY <1>1, <1>2, <1>3, <1>4, <1>5

\* The three ends of a conversion to a finite number are distinct.
LEMMA NumberOutcomes ==
    ASSUME NEW leaf
    PROVE  /\ CoerceFiniteNumber(leaf) \in {Raises, None, <<"float">>}
           /\ CoerceFiniteNumber(leaf) = <<"float">> <=> leaf = "number"
           /\ CoerceFiniteNumber(leaf) = Raises <=> leaf = "huge"
  <1>1. Raises # None /\ Raises # <<"float">> /\ None # <<"float">>
    BY DEF Raises, None
  <1> QED
    BY <1>1 DEF CoerceFiniteNumber

\* What is to be shown of the value of a block: it is there exactly when the
\* block has usable data, and a percentage exactly for a fraction.
Sound(m, b) ==
    Value(m, b) # Raises =>
        /\ Value(m, b) # None <=> Usable(m, b)
        /\ Value(m, b) # None => (Value(m, b) = <<"percent">> <=> m = "soc")

LEMMA NumbersSound ==
    ASSUME NEW m \in {"soc", "power"}, NEW b
    PROVE  Sound(m, b)
  <1>1. /\ Raises # None /\ None # <<"float">> /\ <<"percent">> # None
        /\ <<"percent">> # <<"float">>
    BY DEF Raises, None
  <1>2. Raises # <<"percent">>
    BY DEF Raises
  <1>3. Usable(m, b) <=> b.leaf = "number"
    BY UsableCases
  <1>4. CASE m = "soc"
    <2>1. Value(m, b) = Percent(CoerceFiniteNumber(b.leaf))
      BY <1>4, ValueCases
    <2> QED
      BY <1>1, <1>2, <1>3, <1>4, <2>1, NumberOutcomes DEF Percent, Sound
  <1>5. CASE m = "power"
    <2>1. Value(m, b) = CoerceFiniteNumber(b.leaf)
      BY <1>5, ValueCases
    <2> QED
      BY <1>1, <1>3, <1>5, <2>1, NumberOutcomes DEF Sound
  <1> QED
    BY <1>4, <1>5

LEMMA EnumsSound ==
    ASSUME NEW m \in Enums, NEW b
    PROVE  Sound(m, b)
  <1>1. Value(m, b) = EnumState(m, b) /\ (Usable(m, b) <=> b.state \in Known[m])
    BY ValueCases, UsableCases
  <1>2. m # "soc" /\ \A k \in Known[m] : k # "percent"
    BY DEF Enums, Known
  <1>3. <<b.state>> # None /\ (<<b.state>> = <<"percent">> => b.state = "percent")
    BY DEF None
  <1> QED
    BY <1>1, <1>2, <1>3 DEF EnumState, Sound

LEMMA LocationSound ==
    ASSUME NEW b
    PROVE  Sound("location", b)
  <1> DEFINE lat == CoerceFiniteNumber(b.lat)
             long == CoerceFiniteNumber(b.long)
  <1>1. Value("location", b) = Location(b) /\ (Usable("location", b) <=> {b.lat, b.long} = {"number"})
    BY ValueCases, UsableCases
  <1>2. <<"float">> \o <<"float">> # None /\ <<"float">> \o <<"float">> # <<"percent">>
    <2>1. Len(<<"float">> \o <<"float">>) = 2
      OBVIOUS
    <2> QED
      BY <2>1 DEF None
  <1>3. /\ lat \in {Raises, None, <<"float">>} /\ long \in {Raises, None, <<"float">>}
        /\ lat = <<"float">> <=> b.lat = "number"
        /\ long = <<"float">> <=> b.long = "number"
    BY NumberOutcomes
  <1>4. Location(b) = IF Raises \in {lat, long} THEN Raises
                      ELSE IF None \in {lat, long} THEN None ELSE lat \o long
    BY DEF Location
  <1>5. <<"float">> # None /\ <<"float">> # Raises
    BY DEF None, Raises
  <1> HIDE DEF lat, long
  <1>6. CASE Raises \in {lat, long}
    BY <1>1, <1>4, <1>6 DEF Sound
  <1>7. CASE Raises \notin {lat, long} /\ None \in {lat, long}
    BY <1>1, <1>3, <1>4, <1>5, <1>7 DEF Sound
  <1>8. CASE Raises \notin {lat, long} /\ None \notin {lat, long}
    <2>1. lat = <<"float">> /\ long = <<"float">> /\ {b.lat, b.long} = {"number"}
      BY <1>3, <1>8
    <2>2. Location(b) = <<"float">> \o <<"float">>
      BY <1>4, <1>8, <2>1
    <2> QED
      BY <1>1, <1>2, <2>1, <2>2 DEF Sound
  <1> QED
    BY <1>6, <1>7, <1>8

LEMMA MapInfoSound ==
    ASSUME NEW b
    PROVE  Sound("map_info", b)
  <1> DEFINE limit == CoerceFiniteNumber(b.speedLimitMs)
             f1 == IF b.region = "EUROPE" THEN "EUROPE" ELSE "None"
             f2 == IF b.country_3 = "text" THEN "text" ELSE "None"
             f3 == IF limit = None THEN "None" ELSE "float"
             f4 == IF b.isFreeSpeedZone = "bool" THEN "bool" ELSE "None"
  <1>1. /\ Value("map_info", b) = MapInfo(b)
        /\ Usable("map_info", b) <=> \/ b.region = "EUROPE" \/ b.country_3 = "text"
                                     \/ b.speedLimitMs = "number" \/ b.isFreeSpeedZone = "bool"
    BY ValueCases, UsableCases
  <1>2. /\ limit \in {Raises, None, <<"float">>}
        /\ limit = <<"float">> <=> b.speedLimitMs = "number"
    BY NumberOutcomes
  <1>3. <<"float">> # None
    BY DEF None
  <1>4. /\ f1 # "None" <=> b.region = "EUROPE"
        /\ f2 # "None" <=> b.country_3 = "text"
        /\ limit # Raises => (f3 # "None" <=> b.speedLimitMs = "number")
        /\ f4 # "None" <=> b.isFreeSpeedZone = "bool"
    BY <1>2, <1>3
  <1>5. MapInfo(b) = IF limit = Raises THEN Raises
                     ELSE IF \A i \in DOMAIN <<f1, f2, f3, f4>> : <<f1, f2, f3, f4>>[i] = "None" THEN None
                     ELSE <<f1, f2, f3, f4>>
    BY DEF MapInfo
  <1> HIDE DEF limit, f1, f2, f3, f4
  <1>6. (\A i \in DOMAIN <<f1, f2, f3, f4>> : <<f1, f2, f3, f4>>[i] = "None")
            <=> f1 = "None" /\ f2 = "None" /\ f3 = "None" /\ f4 = "None"
    <2>1. DOMAIN <<f1, f2, f3, f4>> = {1, 2, 3, 4}
      OBVIOUS
    <2> QED
      BY <2>1
  <1>7. <<f1, f2, f3, f4>> # None /\ <<f1, f2, f3, f4>> # <<"percent">>
    <2>1. Len(<<f1, f2, f3, f4>>) = 4
      OBVIOUS
    <2> QED
      BY <2>1 DEF None
  <1> QED
    BY <1>1, <1>4, <1>5, <1>6, <1>7 DEF Sound

\* An array that is read to the end is a tuple of floats; one that is not ends at
\* its first item that is no number.
LEMMA ConfidenceSound ==
    ASSUME NEW b \in Contents("calibrated_confidence")
    PROVE  Sound("calibrated_confidence", b)
  <1> DEFINE Item(i) == CoerceFiniteNumber(b.frac[i])
             bad == {i \in DOMAIN b.frac : Item(i) \in {None, Raises}}
             first == CHOOSE i \in bad : \A j \in bad : i <= j
  <1>1. /\ Value("calibrated_confidence", b) = CalibratedConfidence(b)
        /\ Usable("calibrated_confidence", b)
            <=> b.frac # <<>> /\ \A i \in DOMAIN b.frac : b.frac[i] = "number"
    BY ValueCases, UsableCases
  <1>2. CalibratedConfidence(b) =
            IF ~b.list \/ b.frac = <<>> THEN None
            ELSE IF bad = {} THEN [i \in DOMAIN b.frac |-> "float"] ELSE Item(first)
    BY Zenon DEF CalibratedConfidence
  <1>3. (b.list \in BOOLEAN) /\ (b.frac \in Arrays) /\ (b.frac # <<>> => b.list)
    <2>1. b \in [list : {TRUE}, frac : Arrays] \cup [list : {FALSE}, frac : {<<>>}]
      BY ContentCases
    <2>2. <<>> \in Arrays
      BY DEF Arrays
    <2> QED
      BY <2>1, <2>2
  <1>4. b.frac # <<>> => DOMAIN b.frac = {1} \/ DOMAIN b.frac = {1, 2}
    BY <1>3 DEF Arrays
  <1>5. \A i : /\ Item(i) \in {Raises, None, <<"float">>}
               /\ Item(i) = <<"float">> <=> b.frac[i] = "number"
    BY NumberOutcomes
  <1>6. <<"float">> # None /\ <<"float">> # Raises
    BY DEF None, Raises
  <1>7. bad = {} <=> \A i \in DOMAIN b.frac : b.frac[i] = "number"
    BY <1>5, <1>6
  <1>8. b.frac # <<>> /\ bad # {} => first \in bad
    <2>1. bad \subseteq DOMAIN b.frac
      OBVIOUS
    <2> HIDE DEF bad
    <2>2. ASSUME b.frac # <<>>, bad # {} PROVE \E i \in bad : \A j \in bad : i <= j
      BY <1>4, <2>1, <2>2
    <2> QED
      BY <2>2
  <1>9. first \in bad => Item(first) \in {None, Raises}
    OBVIOUS
  <1>10. b.frac # <<>> =>
            /\ [i \in DOMAIN b.frac |-> "float"] # None
            /\ [i \in DOMAIN b.frac |-> "float"] # <<"percent">>
    <2> SUFFICES ASSUME b.frac # <<>> PROVE
            /\ [i \in DOMAIN b.frac |-> "float"] # None
            /\ [i \in DOMAIN b.frac |-> "float"] # <<"percent">>
      OBVIOUS
    <2>1. 1 \in DOMAIN b.frac
      BY <1>4
    <2>2. [i \in DOMAIN b.frac |-> "float"][1] = "float"
      BY <2>1
    <2>3. DOMAIN None = {} /\ <<"percent">>[1] = "percent"
      BY DEF None
    <2> QED
      BY <2>1, <2>2, <2>3
  <1> HIDE DEF bad, first, Item
  <1>11. CASE b.frac = <<>>
    BY <1>1, <1>2, <1>11 DEF Sound
  <1>12. CASE b.frac # <<>> /\ bad # {}
    BY <1>1, <1>2, <1>3, <1>7, <1>8, <1>9, <1>12 DEF Sound
  <1>13. CASE b.frac # <<>> /\ bad = {}
    BY <1>1, <1>2, <1>3, <1>7, <1>10, <1>13 DEF Sound
  <1> QED
    BY <1>11, <1>12, <1>13

LEMMA ValueSound ==
    ASSUME NEW m \in Metrics, NEW b \in Contents(m)
    PROVE  Sound(m, b)
  <1>1. \/ m \in {"soc", "power"} \/ m \in Enums \/ m = "location" \/ m = "map_info"
        \/ m = "calibrated_confidence"
    BY MetricsNamed DEF MetricNames, Enums
  <1> QED
    BY <1>1, NumbersSound, EnumsSound, LocationSound, MapInfoSound, ConfidenceSound

\* The last frame extracted has no block that raised.
LEMMA FrameExtracted ==
    ASSUME NEW s, NEW frame, ExtractMetrics(s, frame)
    PROVE  /\ last'.source = s /\ last'.frame = frame /\ last'.raised \in BOOLEAN
           /\ ~last'.raised => \A m \in DOMAIN frame : Value(m, frame[m].content) # Raises
  <1> DEFINE value == [m \in DOMAIN frame |-> Value(m, frame[m].content)]
             raising == {m \in DOMAIN frame : value[m] = Raises}
             result == [m \in {k \in DOMAIN frame : raising = {} /\ value[k] # None} |->
                            [value |-> value[m], time |-> ParseBlockTime(frame[m]),
                             provider |-> CleanProvider(frame[m])]]
  <1>1. last' = [source |-> s, frame |-> frame, raised |-> raising # {}, result |-> result]
    BY DEF ExtractMetrics
  <1>2. raising = {} => \A m \in DOMAIN frame : Value(m, frame[m].content) # Raises
    OBVIOUS
  <1> HIDE DEF value, raising, result
  <1> QED
    BY <1>1, <1>2

\* What it left: the metrics that have a value, each with its own block's time.
LEMMA ResultOfFrame ==
    ASSUME NEW s, NEW frame, ExtractMetrics(s, frame), ~last'.raised
    PROVE  last'.result =
                [m \in {k \in DOMAIN frame : Value(k, frame[k].content) # None} |->
                    [value |-> Value(m, frame[m].content), time |-> ParseBlockTime(frame[m]),
                     provider |-> CleanProvider(frame[m])]]
  <1> DEFINE value == [m \in DOMAIN frame |-> Value(m, frame[m].content)]
             raising == {m \in DOMAIN frame : value[m] = Raises}
             there == {k \in DOMAIN frame : raising = {} /\ value[k] # None}
             result == [m \in there |->
                            [value |-> value[m], time |-> ParseBlockTime(frame[m]),
                             provider |-> CleanProvider(frame[m])]]
  <1>1. last' = [source |-> s, frame |-> frame, raised |-> raising # {}, result |-> result]
    BY DEF ExtractMetrics
  <1>2. \A m \in DOMAIN frame : value[m] = Value(m, frame[m].content)
    OBVIOUS
  <1>3. raising = {} => there = {k \in DOMAIN frame : Value(k, frame[k].content) # None}
    OBVIOUS
  <1>4. there \subseteq DOMAIN frame
    OBVIOUS
  <1>5. result = [m \in there |->
                [value |-> Value(m, frame[m].content), time |-> ParseBlockTime(frame[m]),
                 provider |-> CleanProvider(frame[m])]]
    BY <1>2, <1>4
  <1> HIDE DEF value, raising, there, result
  <1>6. raising = {} /\ last'.result = result
    BY <1>1
  <1> QED
    BY <1>3, <1>5, <1>6

LEMMA BlockContent ==
    ASSUME NEW m \in Metrics, NEW block \in Blocks(m)
    PROVE  block.content \in Contents(m)
  <1>1. m = "power" => Contents(m) = [leaf : AllLeaves]
    BY ContentCases
  <1>2. [leaf |-> "number"] \in [leaf : AllLeaves]
    BY DEF AllLeaves
  <1> QED
    BY <1>1, <1>2 DEF Blocks

\* Both tolerance and the order of the blocks: what is read of one block is
\* independent of the others.
LEMMA FrameTolerated ==
    ASSUME NEW s \in Sources, NEW frame, DOMAIN frame \subseteq Metrics,
           \A m \in DOMAIN frame : frame[m] \in Blocks(m),
           ExtractMetrics(s, frame)
    PROVE  TolerantExtraction'
  <1> SUFFICES ASSUME ~last'.raised
      PROVE  /\ DOMAIN last'.result = {m \in DOMAIN last'.frame : Usable(m, last'.frame[m].content)}
             /\ \A m \in DOMAIN last'.result :
                 /\ last'.result[m].value = <<"percent">> <=> m = "soc"
                 /\ last'.result[m].time # "None" <=> last'.frame[m].stamp.time = "aware"
    BY DEF TolerantExtraction
  <1> DEFINE there == {k \in DOMAIN frame : Value(k, frame[k].content) # None}
  <1>1. /\ last'.frame = frame
        /\ \A m \in DOMAIN frame : Value(m, frame[m].content) # Raises
        /\ last'.result = [m \in there |->
                [value |-> Value(m, frame[m].content), time |-> ParseBlockTime(frame[m]),
                 provider |-> CleanProvider(frame[m])]]
    BY FrameExtracted, ResultOfFrame
  <1>2. \A m \in DOMAIN frame :
            /\ Value(m, frame[m].content) # None <=> Usable(m, frame[m].content)
            /\ Value(m, frame[m].content) # None =>
                    (Value(m, frame[m].content) = <<"percent">> <=> m = "soc")
    BY <1>1, BlockContent, ValueSound DEF Sound
  <1>3. DOMAIN last'.result = there /\ there = {m \in DOMAIN frame : Usable(m, frame[m].content)}
    BY <1>1, <1>2
  <1>4. ASSUME NEW m \in there
        PROVE  /\ last'.result[m].value = <<"percent">> <=> m = "soc"
               /\ last'.result[m].time # "None" <=> frame[m].stamp.time = "aware"
    <2>1. /\ last'.result[m].value = Value(m, frame[m].content)
          /\ last'.result[m].time = ParseBlockTime(frame[m])
      BY <1>1
    <2>2. ParseBlockTime(frame[m]) # "None" <=> frame[m].stamp.time = "aware"
      BY DEF ParseBlockTime
    <2> QED
      BY <1>2, <2>1, <2>2
  <1> QED
    BY <1>1, <1>3, <1>4

\* A member that is dropped was warned of before, or is now.
LEMMA DriftTraced ==
    ASSUME SeenType, WarnedOnce', NEW s \in Sources, NEW frame, ExtractMetrics(s, frame)
    PROVE  DriftReported'
  <1>0. /\ last'.source = s /\ last'.frame = frame
        /\ ~last'.raised => \A m \in DOMAIN frame : Value(m, frame[m].content) # Raises
    BY FrameExtracted
  <1> SUFFICES ASSUME NEW k \in Enums, k \in DOMAIN frame, ~last'.raised,
                      frame[k].content.state \in Members \ Known[k]
               PROVE  warned'[s][k][frame[k].content.state] > 0
    BY <1>0, Zenon DEF DriftReported
  <1> DEFINE value == [m \in DOMAIN frame |-> Value(m, frame[m].content)]
             raising == {m \in DOMAIN frame : value[m] = Raises}
             read == {m \in DOMAIN frame : \A r \in raising : Rank[m] <= Rank[r]}
             drift == [e \in Enums |->
                        IF e \in read THEN Drift(e, frame[e].content) \ seen[s][e] ELSE {}]
             state == frame[k].content.state
  <1>1. seen' = [seen EXCEPT ![s] = SeenAfter(@, drift)]
    BY DEF ExtractMetrics
  <1>2. raising = {}
    BY <1>0
  <1>3. drift[k] = Drift(k, frame[k].content) \ seen[s][k]
    BY <1>2
  <1> HIDE DEF value, raising, read, drift
  <1>4. state \notin {"not a string", ""}
    BY UnknownAssumption DEF Members
  <1>5. state \in Drift(k, frame[k].content)
    BY <1>4 DEF Drift
  <1>6. seen'[s][k] = seen[s][k] \cup drift[k]
    BY <1>1 DEF SeenAfter, SeenType
  <1>7. state \in seen'[s][k]
    BY <1>3, <1>5, <1>6
  <1> QED
    BY <1>7 DEF WarnedOnce

\* What arrives is blocks of metrics.
LEMMA FrameShape ==
    ASSUME FrameArrives
    PROVE  \E s \in Sources : \E frame :
                /\ DOMAIN frame \subseteq Metrics
                /\ \A m \in DOMAIN frame : frame[m] \in Blocks(m)
                /\ ExtractMetrics(s, frame)
  <1>1. PICK s \in Sources, m1 \in Metrics, m2 \in Metrics :
            \E b1 \in Blocks(m1), b2 \in Blocks(m2) :
                /\ Rank[m1] <= Rank[m2]
                /\ ExtractMetrics(s, [m \in {m1, m2} |-> IF m = m1 THEN b1 ELSE b2])
    BY DEF FrameArrives
  <1>2. PICK b1 \in Blocks(m1), b2 \in Blocks(m2) :
            ExtractMetrics(s, [m \in {m1, m2} |-> IF m = m1 THEN b1 ELSE b2])
    BY <1>1
  <1> DEFINE frame == [m \in {m1, m2} |-> IF m = m1 THEN b1 ELSE b2]
  <1>3. DOMAIN frame \subseteq Metrics /\ \A m \in DOMAIN frame : frame[m] \in Blocks(m)
    OBVIOUS
  <1> HIDE DEF frame
  <1>4. ExtractMetrics(s, frame)
    BY <1>2 DEF frame
  <1> QED
    BY <1>3, <1>4

-----------------------------------------------------------------------------
(* The invariant: the types, the warnings, and what the last frame left.   *)

ExtractInv == TypeOK /\ WarnedOnce /\ DriftReported /\ TolerantExtraction

LEMMA ExtractInvariant == Spec => []ExtractInv
  <1>1. Init => ExtractInv
    BY DEF Init, ExtractInv, TypeOK, WarnedOnce, DriftReported, TolerantExtraction, Idle
  <1>2. ExtractInv /\ [Next]_vars => ExtractInv'
    <2> SUFFICES ASSUME ExtractInv, [Next]_vars PROVE ExtractInv'
      OBVIOUS
    <2>0. WarnedType /\ SeenType /\ WarnedOnce
      BY DEF ExtractInv, TypeOK, WarnedType, SeenType
    <2>1. CASE FrameArrives
      <3>1. PICK s \in Sources : \E frame :
                /\ DOMAIN frame \subseteq Metrics
                /\ \A m \in DOMAIN frame : frame[m] \in Blocks(m)
                /\ ExtractMetrics(s, frame)
        BY <2>1, FrameShape
      <3>2. PICK frame : /\ DOMAIN frame \subseteq Metrics
                         /\ \A m \in DOMAIN frame : frame[m] \in Blocks(m)
                         /\ ExtractMetrics(s, frame)
        BY <3>1
      <3>3. \A e \in Enums \cap DOMAIN frame : Drift(e, frame[e].content) \subseteq Members
        BY <3>2, DriftType
      <3>4. WarnedType' /\ SeenType' /\ WarnedOnce'
        BY <2>0, <3>2, <3>3, ExtractStep
      <3>5. last'.source = s /\ last'.frame = frame /\ last'.raised \in BOOLEAN
        BY <3>2, FrameExtracted
      <3>6. TypeOK'
        BY <3>2, <3>4, <3>5 DEF TypeOK, WarnedType, SeenType
      <3>7. TolerantExtraction'
        BY <3>2, FrameTolerated
      <3>8. DriftReported'
        BY <2>0, <3>2, <3>4, DriftTraced
      <3> QED
        BY <3>4, <3>6, <3>7, <3>8 DEF ExtractInv
    <2>2. CASE ResultTaken
      <3>1. last'.source = "none" /\ Idle'
        BY <2>2 DEF ResultTaken, Idle
      <3> QED
        BY <2>2, <3>1
           DEF ResultTaken, ExtractInv, TypeOK, WarnedOnce, DriftReported, TolerantExtraction
    <2>3. CASE UNCHANGED vars
      BY <2>3 DEF vars, ExtractInv, TypeOK, WarnedOnce, DriftReported, TolerantExtraction, Idle
    <2> QED
      BY <2>1, <2>2, <2>3 DEF Next
  <1> QED
    BY <1>1, <1>2, PTL DEF Spec

\* Every variable of the extraction has its type.
THEOREM ExtractionTyped == Spec => []TypeOK
  BY ExtractInvariant, PTL DEF ExtractInv

\* Each source warns of a member of an enum exactly once.
THEOREM EachDriftWarnedOnce == Spec => []WarnedOnce
  BY ExtractInvariant, PTL DEF ExtractInv

\* A member that is dropped from a frame has always been warned of by the
\* source that dropped it (_enum_state).
THEOREM DriftLeavesTrace == Spec => []DriftReported
  BY ExtractInvariant, PTL DEF ExtractInv

\* A frame that is extracted yields exactly the metrics with usable data,
\* whatever the shape of its other blocks (extract_metrics).
THEOREM ToleranceMatrix == Spec => []TolerantExtraction
  BY ExtractInvariant, PTL DEF ExtractInv
=============================================================================
