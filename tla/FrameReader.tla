---------------------------- MODULE FrameReader ----------------------------
(***************************************************************************)
(* The receive path of one hub connection: defaultHubConnection.Receive   *)
(* (hubconnection, in invocation_test.go) driving                         *)
(* JsonHubProtocol.ReadMessage and parseTextMessageFormat (part_000).     *)
(*                                                                         *)
(* The client writes frames one Write at a time, each terminated by the  *)
(* record separator byte 30, and closes the connection after NumFrames.   *)
(* The transport hands the bytes to Receive in chunks of at most ReadSize *)
(* bytes; a Read with nothing written yet blocks.  Every call of Receive starts with a *)
(* fresh bytes.Buffer and a fresh read array; it loops over ReadMessage   *)
(* until one frame is complete or Connection.Read fails.                  *)
(*                                                                         *)
(* JSON decoding of a complete frame is the codec's business; here a      *)
(* frame is its byte sequence, the data the properties tell apart.        *)
(***************************************************************************)
EXTENDS Naturals, Sequences

CONSTANTS
    Byte,        \* payload bytes a frame may contain (never 30)
    MaxFrameLen, \* longest frame payload the client sends
    NumFrames,   \* number of frames the client sends
    ReadSize,    \* len(data): the most bytes one Connection.Read returns
    Aligned      \* TRUE: a Read never returns bytes of two client Writes

\* ASCII record separator, the frame delimiter.
RS == 30

ASSUME Assumptions ==
    /\ Byte \subseteq Nat \ {RS} /\ Byte # {}
    /\ MaxFrameLen \in Nat \ {0}
    /\ NumFrames \in Nat \ {0}
    /\ ReadSize \in Nat \ {0}
    /\ Aligned \in BOOLEAN

VARIABLES
    sent,     \* the frames the client wrote, in order (history)
    stream,   \* bytes written by the client not yet read from the transport
    buf,      \* the bytes.Buffer local to the current Receive call
    data,     \* data[:n], the last chunk Connection.Read put into the array
    received, \* the frames Receive has returned, in order
    state     \* "receiving" while the read loop runs, "closed" after an error

vars == <<sent, stream, buf, data, received, state>>

Frame == UNION {[1..k -> Byte] : k \in 1..MaxFrameLen}

\* The position of the first RS in b (bytes.IndexByte plus one), 0 if none.
FirstRS(b) ==
    IF \E i \in 1..Len(b) : b[i] = RS
    THEN CHOOSE i \in 1..Len(b) : b[i] = RS /\ \A j \in 1..i - 1 : b[j] # RS
    ELSE 0

\* Mutant: the delimiter is left on the frame.
parseTextMessageFormatKeepRS(b) ==
    LET i == FirstRS(b)
    IN  IF i # 0
        THEN [data |-> SubSeq(b, 1, i), rest |-> SubSeq(b, i + 1, Len(b)), eof |-> FALSE]
        ELSE [data |-> b, rest |-> <<>>, eof |-> TRUE]

(***************************************************************************)
(* parseTextMessageFormat: buf.ReadBytes(30).  With a delimiter in the    *)
(* buffer it consumes up to and including it and returns the frame        *)
(* without the delimiter; without one it consumes the whole buffer and    *)
(* reports io.EOF.                                                         *)
(***************************************************************************)
parseTextMessageFormat(b) ==
    LET i == FirstRS(b)
    IN  IF i # 0
        THEN [data |-> SubSeq(b, 1, i - 1), rest |-> SubSeq(b, i + 1, Len(b)), eof |-> FALSE]
        ELSE [data |-> b, rest |-> <<>>, eof |-> TRUE]

\* Mutant: io.EOF reported as a complete message.
ReadMessageEOFComplete(b) ==
    LET p == parseTextMessageFormat(b)
    IN  [frame |-> p.data, complete |-> TRUE, err |-> p.eof, rest |-> p.rest]

(***************************************************************************)
(* ReadMessage's (message, complete, err) result and what it leaves in    *)
(* buf: io.EOF means incomplete; the other error case is unreachable,     *)
(* ReadBytes only returns io.EOF.                                         *)
(***************************************************************************)
ReadMessage(b) ==
    LET p == parseTextMessageFormat(b)
    IN  [frame |-> p.data, complete |-> ~p.eof, err |-> FALSE, rest |-> p.rest]

(***************************************************************************)
(* The chunks Connection.Read(data) may return from the remaining stream  *)
(* s.  Aligned: a message transport (one WebSocket message per client    *)
(* Write) fills data with as much of the current message as fits.        *)
(* Otherwise any 1..len(data) bytes, across message boundaries.          *)
(***************************************************************************)
Chunks(s) ==
    IF Aligned
    THEN {SubSeq(s, 1, IF ReadSize < FirstRS(s) THEN ReadSize ELSE FirstRS(s))}
    ELSE {SubSeq(s, 1, k) : k \in 1..(IF ReadSize < Len(s) THEN ReadSize ELSE Len(s))}

-----------------------------------------------------------------------------

Init ==
    /\ sent = <<>>
    /\ stream = <<>>
    /\ buf = <<>>
    /\ data = <<>>
    /\ received = <<>>
    /\ state = "receiving"

\* The client writes one more frame, delimiter included, in one Write.
ClientWrite ==
    /\ Len(sent) < NumFrames
    /\ \E f \in Frame :
          /\ sent' = Append(sent, f)
          /\ stream' = stream \o Append(f, RS)
    /\ UNCHANGED <<buf, data, received, state>>

(***************************************************************************)
(* One iteration of Receive's loop in which ReadMessage reports complete: *)
(* Receive returns the frame, or the error, which ends the connection's   *)
(* receive loop.  The bytes after the delimiter stay in buf, which is     *)
(* local to this call: the next Receive starts afresh.                    *)
(***************************************************************************)
ReceiveComplete ==
    LET r == ReadMessage(buf)
    IN  /\ state = "receiving"
        /\ r.complete
        /\ received' = IF r.err THEN received ELSE Append(received, r.frame)
        /\ state' = IF r.err THEN "closed" ELSE state
        /\ buf' = <<>>
        /\ data' = <<>>
        /\ UNCHANGED <<sent, stream>>

\* Mutant: the refill of the previous chunk data[:n] is left out.
ReceiveMoreNoRefill ==
    LET r == ReadMessage(buf)
    IN  /\ state = "receiving"
        /\ ~r.complete
        /\ stream # <<>>
        /\ \E c \in Chunks(stream) :
              /\ data' = c
              /\ buf' = c
              /\ stream' = SubSeq(stream, Len(c) + 1, Len(stream))
        /\ UNCHANGED <<sent, received, state>>

(***************************************************************************)
(* One iteration with an incomplete frame: ReadMessage has consumed buf,  *)
(* Receive writes data[:n] back, reads the next chunk and appends it.     *)
(***************************************************************************)
ReceiveMore ==
    LET r == ReadMessage(buf)
    IN  /\ state = "receiving"
        /\ ~r.complete
        /\ stream # <<>>
        /\ \E c \in Chunks(stream) :
              /\ data' = c
              /\ buf' = data \o c
              /\ stream' = SubSeq(stream, Len(c) + 1, Len(stream))
        /\ UNCHANGED <<sent, received, state>>

(***************************************************************************)
(* An incomplete frame and Connection.Read reports end of stream (the     *)
(* client has closed the connection): Receive returns the error and the   *)
(* connection's receive loop ends.                                        *)
(***************************************************************************)
ReceiveEOF ==
    /\ state = "receiving"
    /\ ~ReadMessage(buf).complete
    /\ stream = <<>>
    /\ Len(sent) = NumFrames
    /\ state' = "closed"
    /\ UNCHANGED <<sent, stream, buf, data, received>>

Next == ClientWrite \/ ReceiveComplete \/ ReceiveMore \/ ReceiveEOF

\* Receive runs in the connection's own goroutine, which loops on it, and
\* the client goes on writing until it has written all its frames.
Spec == Init /\ [][Next]_vars /\ WF_vars(Next)

-----------------------------------------------------------------------------

TypeOK ==
    /\ sent \in Seq(Frame) /\ Len(sent) <= NumFrames
    /\ stream \in Seq(Byte \cup {RS})
    /\ buf \in Seq(Byte \cup {RS})
    /\ data \in Seq(Byte \cup {RS})
    /\ received \in Seq(Seq(Byte))
    /\ state \in {"receiving", "closed"}

(***************************************************************************)
(* Chunk-size invariance (spec 4.1, 8): the frames Receive returns are    *)
(* exactly the frames the client wrote, in order, none lost, altered or   *)
(* repeated, however many Reads a frame arrives in: the refill of         *)
(* data[:n] in Receive must put back what ReadMessage took out of buf.    *)
(***************************************************************************)
FrameIntegrity ==
    /\ Len(received) <= Len(sent)
    /\ received = SubSeq(sent, 1, Len(received))

(***************************************************************************)
(* Every frame the client wrote is eventually returned by Receive.        *)
(***************************************************************************)
AllFramesReceived == <>(Len(received) = NumFrames)

=============================================================================
