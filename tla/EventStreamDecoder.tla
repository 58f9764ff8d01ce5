-------------------------- MODULE EventStreamDecoder --------------------------
(***************************************************************************)
(* Frames out of the bytes of the upstream (kiro/parser/decoder.rs,         *)
(* parse_frame in frame.rs) and the loops that feed the decoder: chunk by   *)
(* chunk in the streams, the whole body at once everywhere else.            *)
(*                                                                          *)
(* A byte is known by its frame and its place there.  All frames have       *)
(* FrameBytes bytes; damage is in the prelude, whose length and checksum    *)
(* are then worth nothing, or behind it.  No two checksums agree by chance. *)
(***************************************************************************)
EXTENDS Integers, Sequences

CONSTANTS
    FrameBytes, PRELUDE_SIZE,
    MaxErrors,              \* DEFAULT_MAX_ERRORS
    MaxBufferSize,          \* DEFAULT_MAX_BUFFER_SIZE
    MaxFrames               \* bound on the frames the upstream sends

ASSUME DecoderAssumption ==
    /\ FrameBytes \in Nat /\ PRELUDE_SIZE \in 1 .. FrameBytes
    /\ MaxErrors \in 1 .. FrameBytes - 1
    /\ MaxBufferSize \in Nat /\ MaxFrames \in Nat

VARIABLES
    damage,                 \* of each frame, before it is sent
    arrived,                \* bytes the upstream has sent
    reading,                \* the loop over decode_iter is running
    buffer, decoderState, errorCount,
    delivered,              \* frames the handler got
    overflowed,             \* history: a chunk was refused, and is lost
    eof                     \* the upstream's body has ended

decoderVars == <<damage, arrived, reading, buffer, decoderState, errorCount, delivered,
                 overflowed, eof>>

Damages == {"none", "data", "prelude"}
Wire == [i \in 1 .. Len(damage) * FrameBytes |->
            [frame |-> (i - 1) \div FrameBytes + 1, at |-> ((i - 1) % FrameBytes) + 1]]

DecoderInit ==
    /\ damage \in [1 .. MaxFrames -> Damages]
    /\ arrived = 0 /\ reading = FALSE
    /\ buffer = <<>> /\ decoderState = "Ready" /\ errorCount = 0
    /\ delivered = <<>> /\ overflowed = FALSE /\ eof = FALSE

-----------------------------------------------------------------------------
\* The next chunk, of any size, goes into the buffer or is dropped with a warning.
Feed ==
    /\ ~reading /\ ~eof
    /\ \E to \in arrived + 1 .. Len(Wire) :
           LET chunk == SubSeq(Wire, arrived + 1, to)
           IN  /\ arrived' = to
               /\ IF Len(buffer) + Len(chunk) > MaxBufferSize
                    THEN overflowed' = TRUE /\ UNCHANGED <<buffer, decoderState>>
                    ELSE /\ buffer' = buffer \o chunk
                         /\ decoderState' = IF decoderState = "Recovering" THEN "Ready"
                                            ELSE decoderState
                         /\ UNCHANGED overflowed
    /\ reading' = TRUE
    /\ UNCHANGED <<damage, errorCount, delivered, eof>>

EndOfBody ==
    /\ ~reading /\ ~eof
    /\ eof' = TRUE
    /\ UNCHANGED <<damage, arrived, reading, buffer, decoderState, errorCount, delivered, overflowed>>

-----------------------------------------------------------------------------
(* decode, while the iterator is not stopped by an error. *)

Decodes == reading /\ decoderState \notin {"Stopped", "Recovering"}

\* The prelude at the head of the buffer has a length to go by.
Aligned == buffer # <<>> /\ Head(buffer).at = 1 /\ damage[Head(buffer).frame] # "prelude"

WholeFrame == Aligned /\ Len(buffer) >= FrameBytes

Intact ==
    LET f == Head(buffer).frame
    IN  /\ damage[f] = "none"
        /\ \A i \in 1 .. FrameBytes : buffer[i] = [frame |-> f, at |-> i]

Consume(n) == buffer' = SubSeq(buffer, n + 1, Len(buffer))

\* decode_iter is at its end: an error was returned, or there is nothing to decode.
IteratorEnds ==
    /\ reading /\ decoderState \in {"Stopped", "Recovering"}
    /\ reading' = FALSE
    /\ UNCHANGED <<damage, arrived, buffer, decoderState, errorCount, delivered, overflowed, eof>>

\* Not enough bytes for a prelude or for the length it has, which may be any length.
NeedsMore ==
    /\ Decodes /\ ~WholeFrame
    /\ decoderState' = "Ready"
    /\ reading' = FALSE
    /\ UNCHANGED <<damage, arrived, buffer, errorCount, delivered, overflowed, eof>>

DecodesFrame ==
    /\ Decodes /\ WholeFrame /\ Intact
    /\ Consume(FrameBytes)
    /\ decoderState' = "Ready" /\ errorCount' = 0
    /\ delivered' = Append(delivered, Head(buffer).frame)
    /\ UNCHANGED <<damage, arrived, reading, overflowed, eof>>

\* Fault: the bytes of a bad frame are skipped one by one.
TryRecoverByByte(n) == Consume(1)

\* try_recover skips n bytes: the frame whose length is known, or one.
TryRecover(n) == Consume(n)

DecodeFails(n) ==
    /\ errorCount' = errorCount + 1
    /\ IF errorCount' >= MaxErrors
         THEN decoderState' = "Stopped" /\ UNCHANGED buffer
         ELSE decoderState' = "Recovering" /\ TryRecover(n)
    /\ UNCHANGED <<damage, arrived, reading, delivered, overflowed, eof>>

\* MessageCrcMismatch, HeaderParseFailed
BadData == Decodes /\ WholeFrame /\ ~Intact /\ DecodeFails(FrameBytes)

\* MessageTooSmall, MessageTooLarge, PreludeCrcMismatch
BadPrelude == Decodes /\ ~Aligned /\ Len(buffer) >= PRELUDE_SIZE /\ DecodeFails(1)

DecoderNext ==
    \/ Feed \/ EndOfBody
    \/ IteratorEnds \/ NeedsMore \/ DecodesFrame \/ BadData \/ BadPrelude

DecoderSpec == DecoderInit /\ [][DecoderNext]_decoderVars

-----------------------------------------------------------------------------
\* Some of frame f has arrived.
HasBegun(f) == (f - 1) * FrameBytes < arrived

\* The intact ones of the first m frames have been delivered, in order, and no other.
HasDelivered(m) ==
    /\ \A i, j \in DOMAIN delivered : i < j => delivered[i] < delivered[j]
    /\ {delivered[i] : i \in DOMAIN delivered} = {f \in 1 .. m : damage[f] = "none"}

\* A frame whose data is damaged costs nothing but itself, as long as its length can
\* be read, nothing was refused and a chunk follows it: when the iterator is at its
\* end without an error, every intact frame that has arrived was delivered, and in
\* order.  What is delivered is always a beginning of these.
DamagedDataSkipped ==
    LET whole == arrived \div FrameBytes
    IN  (\A f \in DOMAIN damage : HasBegun(f) => damage[f] # "prelude") /\ ~overflowed =>
            /\ \E m \in 0 .. whole : HasDelivered(m)
            /\ ~reading /\ decoderState = "Ready" => HasDelivered(whole)

=============================================================================
