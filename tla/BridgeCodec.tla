----------------------------- MODULE BridgeCodec -----------------------------
(***************************************************************************)
(* The bytes of the bridge link: COBS frames and their delimiters, written  *)
(* and read by wire.py on the host and by BridgeWire.h and loop() on the    *)
(* device, and the type-length-value body of a message as each side reads   *)
(* it.  BridgeLink takes from here that a damage costs the frames it        *)
(* touches and no other, and that the two sides agree on what a frame is.   *)
(*                                                                          *)
(* A byte is a number; 0 delimits, and Full stands for 255: the code of a   *)
(* block of Full - 1 bytes with no zero after it.  Header and checksum are  *)
(* part of the data; that the checksum of damaged data fails is taken for   *)
(* granted in BridgeLink.  A byte on the line remembers of which frame it   *)
(* is, which nothing reads.                                                 *)
(***************************************************************************)
EXTENDS Naturals, Sequences, SequencesExt

CONSTANTS Full,       \* 255 in the code
          Values,     \* bytes of the data, and what noise makes of a byte
          Capacity,   \* encoded_input: as long as the longest frame
          MaxLength,  \* bound: bytes of a frame
          MaxFrames,  \* bound: frames on the line
          MaxNoise,   \* bound: bytes lost or changed
          MaxBody     \* bound: bytes of a body

ASSUME CodecAssumption ==
    /\ Full \in Nat /\ Full >= 2
    /\ Values \subseteq 0..Full
    /\ MaxLength \in Nat /\ Capacity \in Nat
    \* However many full blocks a frame has, it fits.
    /\ \A full \in 0..MaxLength :
           full * (Full - 1) <= MaxLength => MaxLength + full + 1 <= Capacity

VARIABLES
    way,        \* "request" to the device, "answer" to the host
    line,       \* the bytes under way: [of, byte]
    buffer,     \* encoded_input and encoded_length
    written,    \* history: the data of the frames written
    delivered,  \* what the reader made of them: [of, data]
    touched,    \* history: the frames that noise touched
    noise,      \* how many bytes it changed
    tlvs        \* the body of a message, as any peer might send it

codecVars == <<way, line, buffer, written, delivered, touched, noise, tlvs>>

\* No byte is as large.
Bad == <<Full + 1>>

-----------------------------------------------------------------------------
(* COBS                                                                     *)

\* A block of at most Full - 1 bytes under its code.
Block(run) == <<Len(run) + 1>> \o run

\* cobs_encode and cobsEncode: a zero ends a block, and so does its last byte.
Stuff(s, byte) ==
    IF byte = 0 THEN [out |-> s.out \o Block(s.run), run |-> <<>>]
    ELSE IF Len(s.run) + 2 = Full
    THEN [out |-> s.out \o Block(Append(s.run, byte)), run |-> <<>>]
    ELSE [s EXCEPT !.run = Append(@, byte)]

\* The blocks that are finished and the one that is not after each byte.
Stuffed(data) ==
    LET after[n \in 0..Len(data)] ==
            IF n = 0 THEN [out |-> <<>>, run |-> <<>>] ELSE Stuff(after[n - 1], data[n])
    IN  after

Encoded(data) == LET s == Stuffed(data)[Len(data)] IN s.out \o Block(s.run)

\* cobs_decode: what each position of a frame starts, or an error.
HostBlocks(e) ==
    LET from[i \in 1..(Len(e) + 1)] ==
            IF i > Len(e) THEN <<>>
            ELSE LET next == i + e[i]
                     rest == IF e[i] > 0 /\ next <= Len(e) + 1 THEN from[next] ELSE Bad
                 IN  IF rest = Bad THEN Bad
                     ELSE SubSeq(e, i + 1, next - 1)
                          \o (IF e[i] # Full /\ next <= Len(e) THEN <<0>> ELSE <<>>) \o rest
    IN  from

HostDecode(e) == IF e = <<>> \/ Contains(e, 0) THEN Bad ELSE HostBlocks(e)[1]

\* Mutant: the zero after a block is written before the next code is looked at.
DeviceBlockTrailing(e, s) ==
    IF s.out = Bad \/ s.read > Len(e) THEN s
    ELSE LET next == s.read + e[s.read]
         IN  IF e[s.read] = 0 \/ next > Len(e) + 1 THEN [s EXCEPT !.out = Bad]
             ELSE [read |-> next,
                   out |-> s.out \o SubSeq(e, s.read + 1, next - 1)
                           \o (IF e[s.read] # Full THEN <<0>> ELSE <<>>)]

\* cobsDecode, one block: its bytes go to the output, then perhaps a zero.
DeviceBlock(e, s) ==
    IF s.out = Bad \/ s.read > Len(e) THEN s
    ELSE LET next == s.read + e[s.read]
         IN  IF e[s.read] = 0 \/ next > Len(e) + 1 THEN [s EXCEPT !.out = Bad]
             ELSE [read |-> next,
                   out |-> s.out \o SubSeq(e, s.read + 1, next - 1)
                           \o (IF e[s.read] # Full /\ next <= Len(e) THEN <<0>> ELSE <<>>)]

\* Each block takes a byte at least.
DeviceBlocks(e) ==
    LET after[n \in 0..Len(e)] ==
            IF n = 0 THEN [read |-> 1, out |-> <<>>] ELSE DeviceBlock(e, after[n - 1])
    IN  after

\* cobsDecode; its length of 0 stands for an error.
DeviceDecode(e) == LET out == DeviceBlocks(e)[Len(e)].out IN IF out = <<>> THEN Bad ELSE out

\* The host refuses a frame shorter than its header, as the device does.
Frame(d) == IF d = <<>> THEN Bad ELSE d

-----------------------------------------------------------------------------
(* The line                                                                 *)

CodecInit ==
    /\ way \in {"request", "answer"}
    /\ line = <<>> /\ buffer = <<>>
    /\ written = <<>> /\ delivered = <<>> /\ touched = {} /\ noise = 0
    /\ tlvs = <<>>

\* encode_frame, sendMessage.
WriteFrame(data) ==
    /\ Len(written) < MaxFrames /\ tlvs = <<>> /\ delivered = <<>>
    /\ written' = Append(written, data)
    /\ LET bytes == Append(Encoded(data), 0)
       IN  line' = line \o [i \in DOMAIN bytes |-> [of |-> Len(written) + 1, byte |-> bytes[i]]]
    /\ UNCHANGED <<way, buffer, delivered, touched, noise, tlvs>>

\* A byte of the line is lost or changed; without its delimiter a frame is
\* joined with the next.
Noise(i, rest) ==
    /\ noise < MaxNoise
    /\ noise' = noise + 1
    /\ line' = rest
    /\ touched' = touched \cup {line[i].of}
                          \cup (IF line[i].byte = 0 THEN {line[i].of + 1} ELSE {})
    /\ UNCHANGED <<way, buffer, written, delivered, tlvs>>

\* Mutant: an overlong frame stays in the buffer.
ReadByteStuck ==
    /\ way = "request" /\ line # <<>>
    /\ line' = Tail(line)
    /\ LET b == Head(line)
       IN  IF b.byte = 0
           THEN /\ delivered' = IF buffer = <<>> THEN delivered
                                ELSE Append(delivered, [of |-> b.of, data |-> DeviceDecode(buffer)])
                /\ buffer' = IF Len(buffer) >= Capacity THEN buffer ELSE <<>>
           ELSE /\ buffer' = IF Len(buffer) >= Capacity THEN buffer ELSE Append(buffer, b.byte)
                /\ UNCHANGED delivered
    /\ UNCHANGED <<way, written, touched, noise, tlvs>>

\* loop: a delimiter has the buffered frame consumed; bytes beyond the buffer
\* empty it.
ReadByte ==
    /\ way = "request" /\ line # <<>>
    /\ line' = Tail(line)
    /\ LET b == Head(line)
       IN  IF b.byte = 0
           THEN /\ delivered' = IF buffer = <<>> THEN delivered
                                ELSE Append(delivered, [of |-> b.of, data |-> DeviceDecode(buffer)])
                /\ buffer' = <<>>
           ELSE /\ buffer' = IF Len(buffer) >= Capacity THEN <<>> ELSE Append(buffer, b.byte)
                /\ UNCHANGED delivered
    /\ UNCHANGED <<way, written, touched, noise, tlvs>>

\* split(b"\x00"): a delimiter ends a piece; the empty ones are left out.
Cut(s, b) ==
    IF b.byte # 0 THEN [s EXCEPT !.piece = Append(@, b.byte)]
    ELSE [piece |-> <<>>,
          frames |-> IF s.piece = <<>> THEN s.frames
                     ELSE Append(s.frames, [of |-> b.of, data |-> Frame(HostDecode(s.piece))])]

Split(bytes) ==
    LET after[n \in 0..Len(bytes)] ==
            IF n = 0 THEN [piece |-> <<>>, frames |-> <<>>] ELSE Cut(after[n - 1], bytes[n])
    IN  after

\* decode_stream: all frames of the response, or an error if one is partial or
\* undecodable.
ReadAll ==
    /\ way = "answer" /\ line # <<>>
    /\ line' = <<>>
    /\ LET frames == Split(line)[Len(line)].frames
       IN  delivered' = IF Last(line).byte # 0 \/ \E i \in DOMAIN frames : frames[i].data = Bad
                        THEN << [of |-> 0, data |-> Bad] >> ELSE frames
    /\ UNCHANGED <<way, buffer, written, touched, noise, tlvs>>

-----------------------------------------------------------------------------
(* The body of a message: entries of a type, a length and a value           *)

ExtendBody(v) ==
    /\ written = <<>> /\ Len(tlvs) < MaxBody /\ way = "request"
    /\ tlvs' = Append(tlvs, v)
    /\ UNCHANGED <<way, line, buffer, written, delivered, touched, noise>>

\* decode_tlvs, one entry: its type must be new, and its value complete.
HostEntry(b, s) ==
    IF s.at > Len(b) \/ s.seen = {Bad} THEN s
    ELSE IF \/ s.at = Len(b) \/ s.at + 1 + b[s.at + 1] > Len(b)
            \/ b[s.at] \in {e[1] : e \in s.seen}
    THEN [s EXCEPT !.seen = {Bad}]
    ELSE LET next == s.at + 2 + b[s.at + 1]
         IN  [at |-> next,
              seen |-> s.seen \cup {<<b[s.at], SubSeq(b, s.at + 2, next - 1)>>}]

\* The entries as pairs of a type and a value after each round, or an error.
HostEntries(b) ==
    LET after[n \in 0..Len(b)] ==
            IF n = 0 THEN [at |-> 1, seen |-> {}] ELSE HostEntry(b, after[n - 1])
    IN  after

HostBody(b) == HostEntries(b)[Len(b)].seen

\* TlvReader.valid: the entries from each position on, 0 for an incomplete one.
Offsets(b) ==
    LET from[i \in 1..(Len(b) + 1)] ==
            IF i > Len(b) THEN {}
            ELSE IF i = Len(b) \/ i + 1 + b[i + 1] > Len(b) THEN {0}
            ELSE {i} \cup from[i + 2 + b[i + 1]]
    IN  from

\* valid refuses a second entry of a type; find reads the entry of a type.
DeviceBody(b) ==
    LET at == Offsets(b)[1]
    IN  IF 0 \in at \/ \E i, j \in at : i # j /\ b[i] = b[j] THEN {Bad}
        ELSE {<<b[i], SubSeq(b, i + 2, i + 1 + b[i + 1])>> : i \in at}

CodecNext ==
    \/ \E n \in 1..MaxLength : \E data \in [1..n -> Values] : WriteFrame(data)
    \/ \E i \in DOMAIN line : \/ Noise(i, RemoveAt(line, i))
                              \/ \E v \in Values : Noise(i, [line EXCEPT ![i].byte = v])
    \/ ReadByte
    \/ ReadAll
    \/ \E v \in Values : ExtendBody(v)

CodecSpec == CodecInit /\ [][CodecNext]_codecVars
-----------------------------------------------------------------------------
(* Properties                                                               *)

\* Once the line is read, each frame that no noise touched has been delivered
\* as it was written, once and in order; and the host has either all of these
\* or, if some frame was touched, perhaps an error.
UntouchedArrive ==
    line = <<>> /\ written # <<>> =>
        \/ way = "answer" /\ touched # {} /\ delivered = << [of |-> 0, data |-> Bad] >>
        \/ /\ \A k \in DOMAIN written \ touched :
                  \E i \in DOMAIN delivered : delivered[i] = [of |-> k, data |-> written[k]]
           /\ \A i, j \in {n \in DOMAIN delivered : delivered[n].of \notin touched} :
                  i < j => delivered[i].of < delivered[j].of

\* What the device has read so far, damaged or not, is a frame for it exactly
\* if it is for the host, and the same frame; and so is a body.
SidesAgree ==
    /\ Frame(DeviceDecode(buffer)) = Frame(HostDecode(buffer))
    /\ DeviceBody(tlvs) = HostBody(tlvs)
=============================================================================
