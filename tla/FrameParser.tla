---------------------------- MODULE FrameParser ----------------------------
(***************************************************************************)
(* The newer JSON codec's receive path, JSONHubProtocol.ParseMessage and  *)
(* parseTextMessageFormat (jsonhubprotocol.go), called again and again on *)
(* the connection's io.Reader, one frame per call.                        *)
(*                                                                         *)
(* Each call makes a fresh result slice `data` and a fresh read array `p` *)
(* of PSize bytes (1024 in the code), then loops: Read fills p[:n], a     *)
(* delimiter anywhere in p ends the frame with p[:i], otherwise p[:n] is  *)
(* appended and the loop reads again.  Bytes of p past the delimiter are  *)
(* not kept anywhere.                                                     *)
(*                                                                         *)
(* A frame is a flat JSON object: '{', payload bytes, '}'.  Decoding      *)
(* (hubMessage.UnmarshalJSON and the typed second pass) is abstracted to  *)
(* whether the bytes are such an object; a bad one yields a jsonError,    *)
(* which is not fatal, so the caller parses on.                           *)
(***************************************************************************)
EXTENDS Naturals, Sequences, SequencesExt

CONSTANTS
    Payload,     \* bytes inside a frame's braces (never 30, '{' or '}')
    MaxBody,     \* most payload bytes in one frame
    NumFrames,   \* number of frames the client writes
    PSize,       \* len(p): the most bytes one Read returns
    Aligned,     \* TRUE: no Read returns bytes of two different frames
    EOFWithData  \* the Read returning the last bytes may report io.EOF with them

RS == 30   \* ASCII record separator, the frame delimiter
LB == 123  \* '{'
RB == 125  \* '}'

ASSUME Assumptions ==
    /\ Payload \subseteq Nat \ {0, RS, LB, RB}
    /\ MaxBody \in Nat
    /\ NumFrames \in Nat \ {0}
    /\ PSize \in Nat \ {0}
    /\ Aligned \in BOOLEAN
    /\ EOFWithData \in BOOLEAN

VARIABLES
    sent,    \* the frames the client wrote, in order (history)
    stream,  \* bytes written by the client not yet read
    p,       \* the read array of the current parseTextMessageFormat call
    data,    \* the bytes that call has collected so far
    results, \* what ParseMessage returned, call by call
    state    \* "parsing" until Read reports io.EOF, then "eof"

vars == <<sent, stream, p, data, results, state>>

FrameByte == Payload \cup {LB, RB}

Frame == {<<LB>> \o b \o <<RB>> : b \in UNION {[1..k -> Payload] : k \in 0..MaxBody}}

Wire(frames) == FlattenSeq([i \in DOMAIN frames |-> Append(frames[i], RS)])

\* make([]byte, PSize): a fresh, zeroed read array.
Zeros == [i \in 1..PSize |-> 0]

IsRS(b) == b = RS

\* What UnmarshalJSON accepts: one flat JSON object.
WellFormed(d) ==
    /\ Len(d) >= 2
    /\ d[1] = LB /\ d[Len(d)] = RB
    /\ \A k \in 2..Len(d) - 1 : d[k] \in Payload

(***************************************************************************)
(* ParseMessage after parseTextMessageFormat returned `d` with a nil      *)
(* error: the message, or a jsonError carrying the raw frame.             *)
(***************************************************************************)
ParseMessage(d) == [ok |-> WellFormed(d), raw |-> d]

\* Mutant: the `return` after the delimiter dropped, the loop reads on.
scanNoReturn(d, q, n) ==
    LET i == SelectInSeq(q, IsRS)
    IN  IF i # 0 THEN [done |-> FALSE, data |-> d \o SubSeq(q, 1, i - 1)]
                 ELSE [done |-> FALSE, data |-> d \o SubSeq(q, 1, n)]

\* Mutant: p[:i+1], the delimiter kept on the frame.
scanKeepRS(d, q, n) ==
    LET i == SelectInSeq(q, IsRS)
    IN  IF i # 0 THEN [done |-> TRUE, data |-> d \o SubSeq(q, 1, i)]
                 ELSE [done |-> FALSE, data |-> d \o SubSeq(q, 1, n)]

\* Mutant: `i > 0` for `i != -1`, a delimiter at p[0] not seen.
scanSkipFirst(d, q, n) ==
    LET i == SelectInSeq(q, IsRS)
    IN  IF i > 1 THEN [done |-> TRUE, data |-> d \o SubSeq(q, 1, i - 1)]
                 ELSE [done |-> FALSE, data |-> d \o SubSeq(q, 1, n)]

(***************************************************************************)
(* One iteration of parseTextMessageFormat's loop after Read put n bytes  *)
(* into q: bytes.IndexByte searches all of q, not only q[:n].             *)
(***************************************************************************)
scan(d, q, n) ==
    LET i == SelectInSeq(q, IsRS)
    IN  IF i # 0 THEN [done |-> TRUE, data |-> d \o SubSeq(q, 1, i - 1)]
                 ELSE [done |-> FALSE, data |-> d \o SubSeq(q, 1, n)]

\* The byte counts Read may return from the remaining stream s.
ReadSizes(s) ==
    IF Aligned THEN {Min({PSize, SelectInSeq(s, IsRS)})}
               ELSE 1..Min({PSize, Len(s)})

-----------------------------------------------------------------------------

Init ==
    /\ sent \in [1..NumFrames -> Frame]
    /\ stream = Wire(sent)
    /\ p = Zeros
    /\ data = <<>>
    /\ results = <<>>
    /\ state = "parsing"

\* The errors a Read of n bytes may return with them (io.Reader allows
\* n > 0 together with io.EOF at the end of the stream).
ReadErrs(n) == IF EOFWithData /\ n = Len(stream) THEN BOOLEAN ELSE {FALSE}

(***************************************************************************)
(* reader.Read returns n > 0 bytes into p.  With an error the call        *)
(* returns nil and the error at once, dropping them and everything        *)
(* collected.  Otherwise one scan: with the delimiter found, the call     *)
(* returns and ParseMessage decodes the frame, and the next call starts   *)
(* with a fresh p and data; else the loop goes on with the same p.        *)
(***************************************************************************)
Read ==
    /\ state = "parsing"
    /\ stream # <<>>
    /\ \E n \in ReadSizes(stream) : \E err \in ReadErrs(n) :
          LET q == SubSeq(stream, 1, n) \o SubSeq(p, n + 1, PSize)
              r == scan(data, q, n)
          IN  /\ stream' = SubSeq(stream, n + 1, Len(stream))
              /\ IF err
                 THEN /\ state' = "eof"
                      /\ p' = Zeros
                      /\ data' = <<>>
                      /\ UNCHANGED results
                 ELSE /\ UNCHANGED state
                      /\ IF r.done
                         THEN /\ results' = Append(results, ParseMessage(r.data))
                              /\ p' = Zeros
                              /\ data' = <<>>
                         ELSE /\ p' = q
                              /\ data' = r.data
                              /\ UNCHANGED results
    /\ UNCHANGED sent

(***************************************************************************)
(* Read reports io.EOF: parseTextMessageFormat returns nil and the error, *)
(* ParseMessage returns it, and the bytes collected are dropped.          *)
(***************************************************************************)
ReadEOF ==
    /\ state = "parsing"
    /\ stream = <<>>
    /\ state' = "eof"
    /\ p' = Zeros
    /\ data' = <<>>
    /\ UNCHANGED <<sent, stream, results>>

Next == Read \/ ReadEOF

\* The caller's receive loop calls ParseMessage again as long as it gets
\* no io.EOF.
Spec == Init /\ [][Next]_vars /\ WF_vars(Next)

-----------------------------------------------------------------------------

TypeOK ==
    /\ sent \in [1..NumFrames -> Frame]
    /\ stream \in Seq(FrameByte \cup {RS})
    /\ p \in [1..PSize -> FrameByte \cup {RS, 0}]
    /\ data \in Seq(FrameByte)
    /\ results \in Seq([ok : BOOLEAN, raw : Seq(FrameByte \cup {RS, 0})])
    /\ state \in {"parsing", "eof"}

(***************************************************************************)
(* Chunk-size invariance (spec 4.1, 8) for ParseMessage: call by call it  *)
(* returns, without a decode error, exactly the frames the client wrote,  *)
(* in order, none lost or cut, however Read splits the byte stream.       *)
(***************************************************************************)
ParsedFrames ==
    /\ Len(results) <= NumFrames
    /\ \A k \in 1..Len(results) : results[k] = [ok |-> TRUE, raw |-> sent[k]]

(***************************************************************************)
(* Every frame the client wrote is eventually returned by ParseMessage.   *)
(***************************************************************************)
AllFramesParsed == <>(Len(results) = NumFrames)

=============================================================================
