---------------------------- MODULE FrameReader -----------------------------
(***************************************************************************)
(* The reader task of the broker client and its codec                      *)
(* (gadarah-broker/src/client.rs:286, codec.rs:62): the byte stream of the *)
(* session is cut into length-prefixed frames, and every decoded frame is  *)
(* handed to handle_incoming.                                              *)
(*                                                                         *)
(* Bytes are counted, not written out: the wire holds a number of bytes,   *)
(* the buffer the bytes from the start of frame `next` on.  A frame is     *)
(* "ok", "bad" (its body does not decode) or "huge" (its length exceeds    *)
(* MAX_FRAME_SIZE), and `at` says at which byte of the stream it starts.   *)
(***************************************************************************)
EXTENDS Integers, Sequences, SequencesExt

CONSTANTS
    HeaderLen,     \* bytes of the length prefix (4 in the code)
    BodyLens,      \* bound: body lengths on the wire
    Kinds,         \* the frames the venue sends
    MaxFrames      \* bound: frames sent

ASSUME ReaderAssumption ==
    /\ HeaderLen \in Nat \ {0}
    /\ BodyLens \subseteq Nat \ {0} /\ BodyLens # {}
    /\ Kinds \subseteq {"ok", "bad", "huge"}
    /\ MaxFrames \in Nat

VARIABLES
    sent,        \* the frames the venue has written, in order
    wire,        \* bytes on their way
    buffered,    \* buf.len()
    next,        \* number of the frame the buffer starts with
    handled,     \* numbers of the frames given to handle_incoming
    phase        \* "read", "decode" or "ended"

readerVars == <<sent, wire, buffered, next, handled, phase>>

VenueFrames == [kind : Kinds, body : BodyLens]

Size(f) == HeaderLen + f.body

\* The bytes written so far, and the byte at which the i-th frame starts.
Written == IF sent = <<>> THEN 0 ELSE sent[Len(sent)].at + Size(sent[Len(sent)])
Start(i) == IF i <= Len(sent) THEN sent[i].at ELSE Written

ReaderInit ==
    /\ sent = <<>>
    /\ wire = 0
    /\ buffered = 0
    /\ next = 1
    /\ handled = <<>>
    /\ phase = "read"

-----------------------------------------------------------------------------
(* The venue and the network.                                              *)

Send ==
    /\ Len(sent) < MaxFrames
    /\ phase # "ended"
    /\ \E f \in VenueFrames :
        /\ sent' = Append(sent, [kind |-> f.kind, body |-> f.body, at |-> Written])
        /\ wire' = wire + Size(f)
    /\ UNCHANGED <<buffered, next, handled, phase>>

\* The read returns zero or an error: the task ends.
StreamEnds ==
    /\ phase = "read"
    /\ phase' = "ended"
    /\ UNCHANGED <<sent, wire, buffered, next, handled>>

-----------------------------------------------------------------------------
(* reader_task                                                             *)

\* A read returns any part of the stream, without regard to frames.
Read ==
    /\ phase = "read"
    /\ \E n \in 1..wire : wire' = wire - n /\ buffered' = buffered + n
    /\ phase' = "decode"
    /\ UNCHANGED <<sent, next, handled>>

HasHeader == buffered >= HeaderLen

HasFrame == buffered >= Size(sent[next])

\* Mutation of Consume: only the body is removed from the buffer.
ConsumeBody ==
    /\ buffered' = buffered - sent[next].body
    /\ next' = next + 1

\* Mutation of Consume: the frame is looked at, not split off.
ConsumeNothing == UNCHANGED <<buffered, next>>

Consume ==
    /\ buffered' = buffered - Size(sent[next])
    /\ next' = next + 1

\* A complete frame decodes: it is handled and the next one is tried.
DecodeFrame ==
    /\ phase = "decode" /\ HasHeader
    /\ sent[next].kind = "ok" /\ HasFrame
    /\ Consume
    /\ handled' = Append(handled, next)
    /\ UNCHANGED <<sent, wire, phase>>

\* Mutation of NeedMoreData: one frame is decoded per read.
NeedMoreDataEarly ==
    /\ phase = "decode"
    /\ HasHeader /\ sent[next].kind # "huge" => ~HasFrame \/ handled # <<>>
    /\ phase' = "read"
    /\ UNCHANGED <<sent, wire, buffered, next, handled>>

\* Mutation of NeedMoreData: the partial frame is thrown away.
NeedMoreDataClears ==
    /\ phase = "decode"
    /\ HasHeader => sent[next].kind # "huge" /\ ~HasFrame
    /\ phase' = "read"
    /\ buffered' = 0
    /\ UNCHANGED <<sent, wire, next, handled>>

\* decode_frame answers None: the rest of the frame is still on the wire.
NeedMoreData ==
    /\ phase = "decode"
    /\ HasHeader => sent[next].kind # "huge" /\ ~HasFrame
    /\ phase' = "read"
    /\ UNCHANGED <<sent, wire, buffered, next, handled>>

\* The body does not decode: the frame is gone from the buffer, and the inner
\* loop is left.
BadBody ==
    /\ phase = "decode" /\ HasHeader
    /\ sent[next].kind = "bad" /\ HasFrame
    /\ Consume
    /\ phase' = "read"
    /\ UNCHANGED <<sent, wire, handled>>

\* The length exceeds the limit: the buffer stays as it is, and the inner loop
\* is left.
TooLarge ==
    /\ phase = "decode" /\ HasHeader
    /\ sent[next].kind = "huge"
    /\ phase' = "read"
    /\ UNCHANGED <<sent, wire, buffered, next, handled>>

Decode == DecodeFrame \/ NeedMoreData \/ BadBody \/ TooLarge

ReaderNext == Send \/ StreamEnds \/ Read \/ Decode

ReaderSpec == ReaderInit /\ [][ReaderNext]_readerVars

\* Bytes that were written arrive, and the reader task is polled.
ReaderFairness == WF_readerVars(Read) /\ WF_readerVars(Decode)

FairReaderSpec == ReaderSpec /\ ReaderFairness

-----------------------------------------------------------------------------
(* Properties.                                                             *)

\* Every variable keeps its type; in particular the buffer never runs below
\* zero, which would be a panic of split_to.
ReaderTypeOK ==
    /\ sent \in Seq([kind : Kinds, body : BodyLens, at : Nat])
    /\ wire \in Nat /\ buffered \in Nat
    /\ next \in 1..(Len(sent) + 1)
    /\ handled \in Seq(1..Len(sent))
    /\ phase \in {"read", "decode", "ended"}

\* Framing never slips: buffer and wire together hold exactly the frames from
\* `next` on, wherever the reads cut the stream.
FramingKept == buffered + wire = Written - Start(next)

\* handle_incoming sees every decodable frame up to `next` exactly once, in
\* the order the venue wrote them, and nothing else.
HandledInOrder ==
    /\ \A i, j \in DOMAIN handled : i < j => handled[i] < handled[j]
    /\ ToSet(handled) = {i \in 1..(next - 1) : sent[i].kind = "ok"}

\* A complete frame is left in the buffer over a read only behind a frame that
\* could not be decoded.
OnlyErrorsDelay ==
    phase = "read" /\ next <= Len(sent) /\ HasHeader /\ HasFrame =>
        \/ sent[next].kind = "huge"
        \/ next > 1 /\ sent[next - 1].kind = "bad"

\* A frame behind decodable frames only is handled in the end, unless the
\* stream ends first.
FramesArrive ==
    \A i \in 1..MaxFrames :
        (i <= Len(sent) /\ \A j \in 1..i : sent[j].kind = "ok")
            ~> (Contains(handled, i) \/ phase = "ended")

\* client.rs:301: the loop decodes "all complete frames in the buffer" before
\* it reads again.
Drained == phase = "read" /\ next <= Len(sent) => ~(HasHeader /\ HasFrame)
=============================================================================
