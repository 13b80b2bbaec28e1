----------------------------- MODULE SseEvents -----------------------------
(***************************************************************************)
(* The SSE reader of src/src/aioabrp/_sse.py as TelemetryStream uses it:   *)
(* iter_sse_events turns the chunks of a response into event blocks,       *)
(* parse_sse_event turns a block into a frame.  The network may cut the    *)
(* bytes anywhere: within a character, within a CR LF pair, within a blank *)
(* line.                                                                   *)
(*                                                                         *)
(* One symbol stands for each class of bytes the code tells apart: "data"  *)
(* is the field name with its colon, "lead" and "cont" are the halves of a *)
(* two-byte character, decoded to "pair" (or, torn apart, to "bad").  Of   *)
(* the text, "f" stands for a frame and "o" marks an object without        *)
(* vehicleId; empty or blank text stands for all that is no JSON object.   *)
(***************************************************************************)
EXTENDS SequencesExt, FiniteSetsExt, Naturals

CONSTANTS
    Alphabet,   \* the byte classes the server sends
    MaxBytes    \* bound on the length of a response

ASSUME BoundsAssumption == MaxBytes \in Nat

VARIABLES
    received,   \* every byte received so far (read by the properties only)
    lead,       \* the incremental decoder holds the first half of a character
    buffer,     \* the text not yet yielded
    frames,     \* the payloads of the frames yielded
    status      \* open, ended, malformed (AbrpApiError) or broken off

vars == <<received, lead, buffer, frames, status>>

CR == "CR"
LF == "LF"

-----------------------------------------------------------------------------
(* iter_sse_events.                                                        *)

\* One byte through the incremental decoder with errors="replace".
DecodeByte(d, byte) ==
    LET torn == IF d.lead THEN <<"bad">> ELSE <<>> IN
    IF byte = "lead" THEN [text |-> d.text \o torn, lead |-> TRUE]
    ELSE IF byte = "cont"
    THEN [text |-> Append(d.text, IF d.lead THEN "pair" ELSE "bad"), lead |-> FALSE]
    ELSE [text |-> Append(d.text \o torn, byte), lead |-> FALSE]

Decoder == INSTANCE PrefixFold WITH Step <- DecodeByte

Decode(held, bytes, final) ==
    LET d == Decoder!Fold([text |-> <<>>, lead |-> held], bytes) IN
    IF final /\ d.lead THEN [text |-> Append(d.text, "bad"), lead |-> FALSE] ELSE d

PairsNormalized(text) ==                 \* slip: a CR of its own is no line end
    LET Step(out, c) ==
            IF c = LF /\ out # <<>> /\ Last(out) = CR THEN Append(Front(out), LF)
            ELSE Append(out, c)
    IN FoldLeft(Step, <<>>, text)

\* CR LF and CR become LF.
NormalizeChar(n, c) ==
    [out |-> IF c = CR THEN Append(n.out, LF)
             ELSE IF c = LF /\ n.cr THEN n.out
             ELSE Append(n.out, c),
     cr |-> c = CR]

Normalizer == INSTANCE PrefixFold WITH Step <- NormalizeChar

Normalized(text) == Normalizer!Fold([out |-> <<>>, cr |-> FALSE], text).out

NormalizedAtOnce(text) == Normalized(text)      \* slip: the last CR is not held back

\* A CR at the end may be half of a CR LF: it stays as it is.
NormalizedButLast(text) ==
    IF text # <<>> /\ Last(text) = CR
    THEN Append(Normalized(Front(text)), CR) ELSE Normalized(text)

\* Position of the first blank line, 0 if there is none.
BlankLine(text) ==
    LET blanks == {i \in 1..(Len(text) - 1) : text[i] = LF /\ text[i + 1] = LF} IN
    IF blanks = {} THEN 0 ELSE Min(blanks)

-----------------------------------------------------------------------------
(* parse_sse_event.                                                        *)

\* The value of a data line: what follows the colon and at most one blank.
DataValue(line) ==
    LET value == Tail(line) IN
    IF value # <<>> /\ Head(value) = " " THEN Tail(value) ELSE value

IsData(line) == line # <<>> /\ Head(line) = "data"

\* event.split("\n"): the lines that are over and the one begun.
SplitChar(split, c) ==
    IF c = LF THEN [lines |-> Append(split.lines, split.line), line |-> <<>>]
    ELSE [lines |-> split.lines, line |-> Append(split.line, c)]

Splitter == INSTANCE PrefixFold WITH Step <- SplitChar

Split(event) == Splitter!Fold([lines |-> <<>>, line |-> <<>>], event)

PartAdded(parts, line) == IF IsData(line) THEN Append(parts, DataValue(line)) ELSE parts

Collector == INSTANCE PrefixFold WITH Step <- PartAdded

\* The values of the data lines of an event, in order.
DataParts(event) == Collector!Fold(<<>>, Append(Split(event).lines, Split(event).line))

Chars(parts) == UNION {ToSet(parts[i]) : i \in DOMAIN parts}

\* What json.loads and the checks after it make of the joined values.
Verdict(parts) ==
    IF parts = <<>> THEN "nothing"
    ELSE IF Chars(parts) \subseteq {" "} THEN "malformed"
    ELSE IF "o" \in Chars(parts) THEN "nothing"
    ELSE "frame"

-----------------------------------------------------------------------------
Init ==
    /\ received = <<>> /\ lead = FALSE /\ buffer = <<>>
    /\ frames = <<>> /\ status = "open"

\* The iterator is back at the response: every complete event is yielded.
AtResponse == status = "open" /\ BlankLine(buffer) = 0

ChunkArrives(chunk) ==
    /\ AtResponse
    /\ received' = received \o chunk
    /\ LET d == Decode(lead, chunk, FALSE) IN
       /\ lead' = d.lead
       /\ buffer' = NormalizedButLast(buffer \o d.text)
    /\ UNCHANGED <<frames, status>>

Deliver(parts, next) ==
    /\ frames' = IF Verdict(parts) = "frame" THEN Append(frames, parts) ELSE frames
    /\ status' = IF Verdict(parts) = "malformed" THEN "malformed" ELSE next

\* The text up to the first blank line is yielded and parsed.
EventYielded ==
    /\ status = "open" /\ BlankLine(buffer) # 0
    /\ LET at == BlankLine(buffer) IN
       /\ buffer' = SubSeq(buffer, at + 2, Len(buffer))
       /\ Deliver(DataParts(SubSeq(buffer, 1, at - 1)), "open")
    /\ UNCHANGED <<received, lead>>

FlushedAsIs(text) == text                \* slip: a held CR stays in the flushed text

Flushed(text) == Normalized(text)

\* The response is over: what is left is an event too, unless it is blank.
ResponseEnds ==
    /\ AtResponse
    /\ LET rest == Flushed(buffer \o Decode(lead, <<>>, TRUE).text) IN
       Deliver(IF ToSet(rest) \subseteq {" ", LF, CR} THEN <<>> ELSE DataParts(rest), "ended")
    /\ lead' = FALSE /\ buffer' = <<>>
    /\ UNCHANGED received

\* The transport fails, or the consumer closes the generator.
BrokenOff ==
    /\ status = "open"
    /\ status' = "broken"
    /\ UNCHANGED <<received, lead, buffer, frames>>

Next ==
    \/ \E n \in 1..(MaxBytes - Len(received)) :
          \E chunk \in [1..n -> Alphabet] : ChunkArrives(chunk)
    \/ EventYielded \/ ResponseEnds \/ BrokenOff

Spec == Init /\ [][Next]_vars

-----------------------------------------------------------------------------
(* What the event stream means, by the line grammar of the SSE standard:   *)
(* lines end with LF, CR LF or CR, a blank line dispatches the data read    *)
(* since the last one, nothing follows a malformed event.                  *)

Yield(yielded, parts) ==
    IF yielded.failed \/ Verdict(parts) = "nothing" THEN yielded
    ELSE IF Verdict(parts) = "frame"
    THEN [frames |-> Append(yielded.frames, parts), failed |-> FALSE]
    ELSE [frames |-> yielded.frames, failed |-> TRUE]

LineEnded(r, c) ==
    [yielded |-> IF r.line = <<>> THEN Yield(r.yielded, r.parts) ELSE r.yielded,
     parts   |-> IF r.line = <<>> THEN <<>> ELSE PartAdded(r.parts, r.line),
     line    |-> <<>>,
     cr      |-> c = CR]

LineGrows(r, c) ==
    [yielded |-> r.yielded, parts |-> r.parts, line |-> Append(r.line, c), cr |-> FALSE]

SecondHalf(r) == [yielded |-> r.yielded, parts |-> r.parts, line |-> r.line, cr |-> FALSE]

ReadChar(r, c) ==
    IF c = LF /\ r.cr THEN SecondHalf(r)
    ELSE IF c \in {CR, LF} THEN LineEnded(r, c)
    ELSE LineGrows(r, c)

Reader == INSTANCE PrefixFold WITH Step <- ReadChar

\* At the start of an event, after some frames.
Fresh(earlier) ==
    [yielded |-> [frames |-> earlier, failed |-> FALSE],
     parts |-> <<>>, line |-> <<>>, cr |-> FALSE]

Reading(text) == Reader!Fold(Fresh(<<>>), text)

\* A response that is over: the unfinished event counts.
Finished(r) == Yield(r.yielded, PartAdded(r.parts, r.line))

\* All but a CR at the very end.
Settled(text) == IF text # <<>> /\ Last(text) = CR THEN Front(text) ELSE text

-----------------------------------------------------------------------------
(* Properties.                                                             *)

\* Every variable has its type.  The buffer holds no CR but perhaps its last
\* character, so that one is all the flush has to normalise.
TypeOK ==
    /\ received \in Seq(Alphabet) /\ Len(received) <= MaxBytes
    /\ lead \in BOOLEAN
    /\ buffer \in Seq((Alphabet \ {"lead", "cont"}) \cup {"pair", "bad", LF})
    /\ \A i \in DOMAIN buffer : buffer[i] = CR => i = Len(buffer)
    /\ \A i \in DOMAIN frames : Verdict(frames[i]) = "frame"
    /\ status \in {"open", "ended", "malformed", "broken"}

\* However the bytes were cut into chunks, a response that is over has yielded
\* the frames its bytes mean, the unterminated last one included, and it has
\* failed exactly if they contain a malformed event.
ChunkingInvisible ==
    status \in {"ended", "malformed"} =>
        LET meant == Finished(Reading(Decode(FALSE, received, TRUE).text)) IN
        /\ frames = meant.frames
        /\ status = "malformed" <=> meant.failed

\* Nothing lags behind: when the reader waits for the next chunk, every event
\* completed by the bytes so far has been yielded, and nothing else has.  Only
\* a CR at the very end, which may be half of a CR LF, waits for its successor.
NothingLags ==
    AtResponse =>
        frames = Reading(Settled(Decode(FALSE, received, FALSE).text)).yielded.frames
=============================================================================
