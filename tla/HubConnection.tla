---------------------------- MODULE HubConnection ----------------------------
(***************************************************************************)
(* The send side of one hub connection: defaultHubConnection's Start,     *)
(* Close, SendInvocation, StreamItem, Completion and Ping                 *)
(* (invocation_test.go) and JSONHubProtocol.WriteMessage                  *)
(* (jsonhubprotocol.go), called from several goroutines at once: the      *)
(* receive loop and the tasks of concurrent invocations.                  *)
(*                                                                         *)
(* WriteMessage marshals into v.easyWriter, a field of the protocol       *)
(* shared by every caller, then appends the delimiter, takes the buffer   *)
(* out with BuildBytes and writes it.  Nothing serializes the callers, so *)
(* each of these is a step of its own, and the marshalling appends the    *)
(* message's bytes one token at a time.  A message's JSON text is         *)
(* abstracted to three tokens: '{', its kind and '}'.                     *)
(*                                                                         *)
(* The transport may fail: a failed Write writes nothing, and every later *)
(* Write fails too.  The callers ignore WriteMessage's error.             *)
(***************************************************************************)
EXTENDS Naturals, Sequences, FiniteSets

CONSTANTS
    Sender,       \* goroutines that call the connection's methods
    EasyKinds,    \* message kinds whose type implements easyjson.Marshaler
    MaxCalls,     \* bound on the calls each goroutine makes
    WriteMayFail  \* the transport may fail a Write

Kind == {"Invocation", "StreamItem", "Completion", "Ping", "Close"}

RS == "RS"   \* the record separator byte 30

\* What MarshalEasyJSON appends for a message of kind k.
Marshal(k) == <<"{", k, "}">>

\* The bytes WriteMessage means to hand to one Write for a message of kind k.
FrameOf(k) == Append(Marshal(k), RS)

Token == Kind \cup {"{", "}", RS}

ASSUME Assumptions ==
    /\ IsFiniteSet(Sender) /\ Sender # {}
    /\ EasyKinds \subseteq Kind
    /\ MaxCalls \in Nat
    /\ WriteMayFail \in BOOLEAN

VARIABLES
    connected,   \* defaultHubConnection.Connected (0 or 1)
    buf,         \* v.easyWriter.Buffer, shared by all callers
    pc,          \* where each goroutine is in WriteMessage
    kind,        \* the kind of message each goroutine is writing
    pos,         \* how many tokens of it MarshalEasyJSON has appended
    b,           \* the bytes BuildBytes returned to each goroutine
    calls,       \* calls each goroutine has made (bounded by MaxCalls)
    writes,      \* the Writes the transport accepted, in order (history)
    broken       \* the transport has failed

vars == <<connected, buf, pc, kind, pos, b, calls, writes, broken>>

-----------------------------------------------------------------------------
(* WriteMessage, one step per statement.                                  *)

(***************************************************************************)
(* Entry: a message that implements easyjson.Marshaler goes on to be      *)
(* marshalled; any other gets an error back at once and nothing is        *)
(* written.                                                               *)
(***************************************************************************)
WriteMessage(g, k) ==
    /\ kind' = [kind EXCEPT ![g] = k]
    /\ pos' = [pos EXCEPT ![g] = 0]
    /\ pc' = [pc EXCEPT ![g] = IF k \in EasyKinds THEN "marshal" ELSE "idle"]

\* em.MarshalEasyJSON(&v.easyWriter) appends the next token.
MarshalStep(g) ==
    /\ pc[g] = "marshal"
    /\ buf' = Append(buf, Marshal(kind[g])[pos[g] + 1])
    /\ pos' = [pos EXCEPT ![g] = pos[g] + 1]
    /\ pc' = [pc EXCEPT ![g] = IF pos[g] + 1 = Len(Marshal(kind[g])) THEN "raw"
                                                                  ELSE "marshal"]
    /\ UNCHANGED <<connected, kind, b, calls, writes, broken>>

\* v.easyWriter.RawByte(30).
RawByte(g) ==
    /\ pc[g] = "raw"
    /\ buf' = Append(buf, RS)
    /\ pc' = [pc EXCEPT ![g] = "build"]
    /\ UNCHANGED <<connected, kind, pos, b, calls, writes, broken>>

\* v.easyWriter.Buffer.BuildBytes(): takes the buffer's bytes and resets it.
BuildBytes(g) ==
    /\ pc[g] = "build"
    /\ b' = [b EXCEPT ![g] = buf]
    /\ buf' = <<>>
    /\ pc' = [pc EXCEPT ![g] = "write"]
    /\ UNCHANGED <<connected, kind, pos, calls, writes, broken>>

\* writer.Write(b) succeeds and WriteMessage returns nil.
Write(g) ==
    /\ pc[g] = "write"
    /\ ~broken
    /\ writes' = Append(writes, [by |-> g, kind |-> kind[g], bytes |-> b[g]])
    /\ pc' = [pc EXCEPT ![g] = "idle"]
    /\ UNCHANGED <<connected, buf, kind, pos, b, calls, broken>>

\* writer.Write(b) fails; WriteMessage returns the error, the caller drops it.
WriteFail(g) ==
    /\ pc[g] = "write"
    /\ WriteMayFail
    /\ broken' = TRUE
    /\ pc' = [pc EXCEPT ![g] = "idle"]
    /\ UNCHANGED <<connected, buf, kind, pos, b, calls, writes>>

-----------------------------------------------------------------------------
(* defaultHubConnection's methods, each a call by an idle goroutine.      *)

Call(g) ==
    /\ pc[g] = "idle"
    /\ calls[g] < MaxCalls
    /\ calls' = [calls EXCEPT ![g] = calls[g] + 1]

\* Mutant: atomic.AddInt32 in place of the compare-and-swap.
StartAdd(g) ==
    /\ Call(g)
    /\ connected' = connected + 1
    /\ UNCHANGED <<buf, pc, kind, pos, b, writes, broken>>

\* Start: atomic.CompareAndSwapInt32(&c.Connected, 0, 1).
Start(g) ==
    /\ Call(g)
    /\ connected' = IF connected = 0 THEN 1 ELSE connected
    /\ UNCHANGED <<buf, pc, kind, pos, b, writes, broken>>

\* Close: atomic.StoreInt32(&c.Connected, 0), then WriteMessage(closeMessage).
Close(g) ==
    /\ Call(g)
    /\ connected' = 0
    /\ WriteMessage(g, "Close")
    /\ UNCHANGED <<buf, b, writes, broken>>

\* A method that writes a message of kind k and does nothing else.
SendKind(g, k) ==
    /\ Call(g)
    /\ WriteMessage(g, k)
    /\ UNCHANGED <<connected, buf, b, writes, broken>>

SendInvocation(g) == SendKind(g, "Invocation")
StreamItem(g) == SendKind(g, "StreamItem")
Completion(g) == SendKind(g, "Completion")
Ping(g) == SendKind(g, "Ping")

-----------------------------------------------------------------------------

Init ==
    /\ connected = 0
    /\ buf = <<>>
    /\ pc = [g \in Sender |-> "idle"]
    /\ kind = [g \in Sender |-> "Ping"]
    /\ pos = [g \in Sender |-> 0]
    /\ b = [g \in Sender |-> <<>>]
    /\ calls = [g \in Sender |-> 0]
    /\ writes = <<>>
    /\ broken = FALSE

Next ==
    \E g \in Sender :
        \/ Start(g) \/ Close(g)
        \/ SendInvocation(g) \/ StreamItem(g) \/ Completion(g) \/ Ping(g)
        \/ MarshalStep(g) \/ RawByte(g) \/ BuildBytes(g)
        \/ Write(g) \/ WriteFail(g)

(***************************************************************************)
(* A goroutine inside WriteMessage runs on (nothing in it blocks); the    *)
(* callers are under no obligation to call.                               *)
(***************************************************************************)
Spec ==
    /\ Init /\ [][Next]_vars
    /\ \A g \in Sender : WF_vars(MarshalStep(g) \/ RawByte(g) \/ BuildBytes(g)
                                 \/ Write(g) \/ WriteFail(g))

-----------------------------------------------------------------------------

TypeOK ==
    /\ connected \in {0, 1}
    /\ buf \in Seq(Token)
    /\ pc \in [Sender -> {"idle", "marshal", "raw", "build", "write"}]
    /\ kind \in [Sender -> Kind]
    /\ pos \in [Sender -> 0..3]
    /\ b \in [Sender -> Seq(Token)]
    /\ calls \in [Sender -> 0..MaxCalls]
    /\ writes \in Seq([by : Sender, kind : Kind, bytes : Seq(Token)])
    /\ broken \in BOOLEAN

(***************************************************************************)
(* Atomic encoding (spec 4.2): every Write hands the transport exactly    *)
(* the frame of the message its caller is writing, whole, with nothing of *)
(* another message's bytes and nothing left over from an earlier one.     *)
(* Breaks when WriteMessage's callers share v.easyWriter concurrently.    *)
(***************************************************************************)
WritesIntact ==
    \A i \in 1..Len(writes) : writes[i].bytes = FrameOf(writes[i].kind)

=============================================================================
