---------------------------- MODULE StreamFrames ----------------------------
(***************************************************************************)
(* What an antenna's reader does with the bytes of one connection: TCP     *)
(* delivers them in chunks of any length, dataReader                       *)
(* (internal/antenna/manager.go) reads a chunk and hands it to the         *)
(* extractor of the protocol (amg-rfid-shared-go/protocol/packet.go or     *)
(* internal/chainway/frame.go), which returns the frames that are complete *)
(* and keeps the rest.                                                     *)
(*                                                                         *)
(* A byte is a small number, and the layouts are the code's with fewer     *)
(* bytes before and after the length:                                      *)
(*   generic    SOI .. LENGTH INFO CHKSUM, 7 + LENGTH bytes                *)
(*   chainway   A5 5A LEN .. CHK .., LEN bytes, from MinFrame to MaxFrame  *)
(* The checksum of chainway stands for its trailer as well; the extractor  *)
(* of the generic protocol looks at neither.                               *)
(*                                                                         *)
(* Definitions named <operation>_<fault> are not part of the               *)
(* specification: each is the operation with a fault some property catches.*)
(***************************************************************************)
EXTENDS Integers, SequencesExt

CONSTANTS
    Bytes,          \* the bytes an antenna of each protocol sends
    Starts,         \* the SOI bytes of the generic protocol (7C, CC)
    GenericHeader,  \* bytes up to LENGTH (6)
    Header1,        \* the header of chainway (A5 5A)
    Header2,
    ChainwayHeader, \* bytes up to LEN (4)
    MinFrame,       \* MinFrameLen (8)
    MaxFrame,       \* MaxFrameLen (2048)
    Modulus,        \* of the checksum
    MaxBuffer,      \* cap of an extractor (65536)
    MaxChunk,       \* the reader's buffer (4096)
    MaxStream       \* bound of the model on the bytes of a connection

Extractors == DOMAIN Bytes

ASSUME StreamFramesAssumption ==
    /\ Extractors \subseteq {"generic", "chainway"}
    /\ \A x \in Extractors : Bytes[x] \subseteq Nat
    /\ GenericHeader \in Nat \ {0}
    /\ ChainwayHeader \in Nat \ {0, 1, 2}
    /\ MaxFrame \in Nat
    /\ MinFrame \in ChainwayHeader + 1 .. MaxFrame
    /\ Modulus \in Nat \ {0}
    /\ MaxBuffer \in Nat
    /\ MaxChunk \in Nat \ {0}
    /\ MaxStream \in Nat

\* A chunk always fits beside the longest rest of a frame, as the constants of
\* the code have it: 4096 + 2047 bytes at most, for a cap of 65536.
ASSUME RoomForAChunk ==
    /\ MaxChunk + MaxFrame - 1 <= MaxBuffer
    /\ "generic" \in Extractors =>
         \A size \in Bytes["generic"] : MaxChunk + GenericHeader + size <= MaxBuffer

VARIABLES
    extractor,  \* the one of the antenna's protocol
    stream,     \* the bytes it has sent
    read,       \* how many of them the reader has read
    buffer,     \* the extractor's
    frames      \* the frames returned so far, with their place in the stream

framesVars == <<extractor, stream, read, buffer, frames>>

FramesInit ==
    /\ extractor \in Extractors
    /\ stream = <<>>
    /\ read = 0
    /\ buffer = <<>>
    /\ frames = <<>>

Take(s, n) == SubSeq(s, 1, n)
Drop(s, n) == SubSeq(s, n + 1, Len(s))

\* What is in the buffer while it is searched, and what a search leaves and finds.
Buffers == {b \in Seq(Nat) : Len(b) <= MaxBuffer + MaxChunk}

Leaves(b)       == [buffer |-> b, frames |-> <<>>]
Finds(frame, e) == [buffer |-> e.buffer, frames |-> <<frame>> \o e.frames]

-----------------------------------------------------------------------------
(* The generic extractor: what Append makes of its buffer. *)

GenericSize(b) == GenericHeader + b[GenericHeader] + 1

firstSOIIndex(b) == SelectInSeq(b, LAMBDA x : x \in Starts)
lastSOIIndex(b)  == SelectLastInSeq(b, LAMBDA x : x \in Starts)

GenericGuard(b) ==
    IF Len(b) <= MaxBuffer THEN b
    ELSE LET tail == Drop(b, lastSOIIndex(b) - 1)
         IN  IF lastSOIIndex(b) > 0 /\ Len(tail) <= MaxBuffer THEN tail ELSE <<>>

GenericExtract[b \in Buffers] ==
    LET soi  == firstSOIIndex(b)
        rest == Drop(b, soi - 1)
        size == GenericSize(rest)
    IN  IF soi = 0 THEN Leaves(<<>>)
        ELSE IF Len(rest) <= GenericHeader \/ Len(rest) < size THEN Leaves(rest)
        ELSE Finds(Take(rest, size), GenericExtract[Drop(rest, size)])

-----------------------------------------------------------------------------
(* The chainway extractor. *)

ChecksumOK(f) == FoldLeft(+, 0, Drop(f, ChainwayHeader - 1)) % Modulus = 0

\* The first header at or after a place, or 0.
headerIndex(b, from) ==
    LET H == {i \in from .. Len(b) - 1 : b[i] = Header1 /\ b[i + 1] = Header2}
    IN  IF H = {} THEN 0 ELSE Min(H)

\* Fault: a header cut in two by the end of a chunk is lost.
keepPossibleHeaderStart_DropsAll(b) == <<>>

keepPossibleHeaderStart(b) ==
    IF b # <<>> /\ Last(b) = Header1 THEN <<Header1>> ELSE <<>>

Plausible(size) == size \in MinFrame .. MaxFrame

SkipInvalid(b) == Drop(b, 1)

ChainwayGuard(b) ==
    LET j == headerIndex(b, Len(b) - MaxBuffer + 1)
    IN  IF Len(b) <= MaxBuffer THEN b
        ELSE IF j > 0 THEN Drop(b, j - 1)
        ELSE keepPossibleHeaderStart(b)

ChainwayExtract[b \in Buffers] ==
    LET start == headerIndex(b, 1)
        rest  == Drop(b, start - 1)
        size  == rest[ChainwayHeader]
    IN  IF start = 0 THEN Leaves(keepPossibleHeaderStart(b))
        ELSE IF Len(rest) < ChainwayHeader THEN Leaves(rest)
        ELSE IF ~Plausible(size) THEN ChainwayExtract[Drop(rest, 1)]
        ELSE IF Len(rest) < size THEN Leaves(rest)
        ELSE IF ~ChecksumOK(Take(rest, size)) THEN ChainwayExtract[SkipInvalid(rest)]
        ELSE Finds(Take(rest, size), ChainwayExtract[Drop(rest, size)])

-----------------------------------------------------------------------------
(* The antenna and its reader. *)

Send(byte) ==
    /\ Len(stream) < MaxStream
    /\ stream' = Append(stream, byte)
    /\ UNCHANGED <<extractor, read, buffer, frames>>

\* The cap comes before the extraction with generic, after it with chainway.
Extracted(b) ==
    IF extractor = "generic" THEN GenericExtract[GenericGuard(b)]
    ELSE [ChainwayExtract[b] EXCEPT !.buffer = ChainwayGuard(@)]

\* One Read: some of the bytes that have arrived, as many as fit.
Read(n) ==
    LET e == Extracted(buffer \o SubSeq(stream, read + 1, read + n))
    IN  /\ n <= Len(stream) - read
        /\ read' = read + n
        /\ buffer' = e.buffer
        /\ frames' = frames \o e.frames
        /\ UNCHANGED <<extractor, stream>>

FramesNext ==
    \/ \E byte \in Bytes[extractor] : Send(byte)
    \/ \E n \in 1 .. MaxChunk : Read(n)

FramesSpec == FramesInit /\ [][FramesNext]_framesVars

-----------------------------------------------------------------------------
(* Properties.  s is what is left of the input from some place on. *)

\* A frame starts here; the length it gives; how much of it gives the length.
Candidate(x, s) ==
    IF x = "generic" THEN s[1] \in Starts
    ELSE Len(s) > 1 /\ s[1] = Header1 /\ s[2] = Header2

Size(x, s)      == IF x = "generic" THEN GenericSize(s) ELSE s[ChainwayHeader]
HeaderLength(x) == IF x = "generic" THEN GenericHeader ELSE ChainwayHeader

\* A whole frame is here.
Complete(x, s) ==
    /\ Candidate(x, s)
    /\ Len(s) >= HeaderLength(x)
    /\ Len(s) >= Size(x, s)
    /\ x = "chainway" => Plausible(Size(x, s)) /\ ChecksumOK(Take(s, Size(x, s)))

\* More bytes may yet make one.
Waiting(x, s) ==
    /\ Candidate(x, s) \/ (x = "chainway" /\ s = <<Header1>>)
    /\ \/ Len(s) < HeaderLength(x)
       \/ /\ Len(s) < Size(x, s)
          /\ x = "chainway" => Plausible(Size(x, s))

Inputs(x) == {s \in Seq(Bytes[x]) : Len(s) <= MaxStream}

\* The input as one reads it on paper: from the left, a complete frame is taken
\* whole, one that may become complete ends the reading, and any other byte is
\* passed over.
Reading[x \in Extractors] ==
    [s \in Inputs(x) |->
        IF s = <<>> \/ Waiting(x, s) THEN Leaves(s)
        ELSE IF Complete(x, s)
        THEN Finds(Take(s, Size(x, s)), Reading[x][Drop(s, Size(x, s))])
        ELSE Reading[x][Drop(s, 1)]]

Input == Take(stream, read)

\* The state has its type; the reader is never ahead of what was sent.
FramesTypeOK ==
    /\ extractor \in Extractors
    /\ stream \in Inputs(extractor)
    /\ read \in 0 .. Len(stream)
    /\ buffer \in Inputs(extractor)
    /\ frames \in Seq(Seq(Bytes[extractor]))

\* However TCP cuts the bytes, the frames are those of the bytes: none is lost
\* or made up at the end of a chunk, after noise, or by the cap.
FramesDoNotDependOnChunks == frames = Reading[extractor][Input].frames

=============================================================================
