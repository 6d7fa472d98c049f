------------------------- MODULE HubConnectionProofs -------------------------
(***************************************************************************)
(* Proofs about the hub connection's send side: the type invariant for    *)
(* any number of goroutines calling Start, Close and the send methods.    *)
(***************************************************************************)
EXTENDS HubConnection, TLAPS

-----------------------------------------------------------------------------
(* Facts about sequences and about the token sequences MarshalEasyJSON    *)
(* produces.  Kind and Token are left unexpanded elsewhere: the provers   *)
(* reason about the generic facts more easily than about string sets.     *)

LEMMA TokenFacts ==
    /\ Kind \subseteq Token
    /\ "{" \in Token /\ "}" \in Token /\ RS \in Token
    /\ "Close" \in Kind /\ "Ping" \in Kind
    /\ "Invocation" \in Kind /\ "StreamItem" \in Kind /\ "Completion" \in Kind
    /\ "none" \notin Kind
  BY DEF Kind, Token, RS

LEMMA TupleSeq ==
    ASSUME NEW S, NEW x \in S, NEW y \in S, NEW z \in S
    PROVE  <<x, y, z>> \in Seq(S)
  OBVIOUS

LEMMA AppendSeq ==
    ASSUME NEW S, NEW s \in Seq(S), NEW x \in S
    PROVE  Append(s, x) \in Seq(S)
  OBVIOUS

\* Extending a prefix of a sequence by its next element, and the two
\* extreme prefixes.
LEMMA PrefixAppend ==
    ASSUME NEW S, NEW s \in Seq(S), NEW n \in 0..Len(s) - 1
    PROVE  Append(SubSeq(s, 1, n), s[n + 1]) = SubSeq(s, 1, n + 1)
  OBVIOUS

LEMMA PrefixEnds ==
    ASSUME NEW S, NEW s \in Seq(S)
    PROVE  SubSeq(s, 1, Len(s)) = s /\ SubSeq(s, 1, 0) = <<>>
  OBVIOUS

LEMMA MarshalFacts ==
    ASSUME NEW k \in Kind
    PROVE  /\ Marshal(k) \in Seq(Token)
           /\ Len(Marshal(k)) = 3
           /\ \A i \in 1..3 : Marshal(k)[i] \in Token
           /\ FrameOf(k) \in Seq(Token)
  <1>1. "{" \in Token /\ k \in Token /\ "}" \in Token /\ RS \in Token
    BY TokenFacts
  <1>2. Marshal(k) \in Seq(Token)
    BY <1>1, TupleSeq DEF Marshal
  <1>3. Len(Marshal(k)) = 3
    BY DEF Marshal
  <1>4. Marshal(k)[1] = "{" /\ Marshal(k)[2] = k /\ Marshal(k)[3] = "}"
    BY DEF Marshal
  <1>5. \A i \in 1..3 : i = 1 \/ i = 2 \/ i = 3
    OBVIOUS
  <1>6. \A i \in 1..3 : Marshal(k)[i] \in Token
    BY <1>1, <1>4, <1>5, Zenon
  <1>7. FrameOf(k) \in Seq(Token)
    BY <1>1, <1>2, AppendSeq DEF FrameOf
  <1>. QED
    BY <1>2, <1>3, <1>6, <1>7

\* The prefixes of the marshalled message that MarshalStep builds.
LEMMA MarshalPrefix ==
    ASSUME NEW k \in Kind, NEW n \in 0..2
    PROVE  /\ Append(SubSeq(Marshal(k), 1, n), Marshal(k)[n + 1])
                = SubSeq(Marshal(k), 1, n + 1)
           /\ SubSeq(Marshal(k), 1, 3) = Marshal(k)
           /\ SubSeq(Marshal(k), 1, 0) = <<>>
  <1>1. Marshal(k) \in Seq(Token) /\ Len(Marshal(k)) = 3
    BY MarshalFacts
  <1>2. n \in 0..Len(Marshal(k)) - 1
    BY <1>1
  <1>. QED
    BY <1>1, <1>2, PrefixAppend, PrefixEnds

-----------------------------------------------------------------------------
(* The type invariant, strengthened by the bound on a marshalling         *)
(* goroutine's position, which MarshalStep relies on.                     *)

IType ==
    /\ TypeOK
    /\ \A g \in Sender : pc[g] = "marshal" => pos[g] \in 0..2

LEMMA ITypeInit == Init => IType
  <1> SUFFICES ASSUME Init PROVE IType
    OBVIOUS
  <1>1. "Ping" \in Kind /\ MaxCalls \in Nat
    BY TokenFacts, Assumptions
  <1>2. kind \in [Sender -> Kind] /\ calls \in [Sender -> 0..MaxCalls]
    BY <1>1 DEF Init
  <1>3. <<>> \in Seq(Token) /\ b \in [Sender -> Seq(Token)]
    BY DEF Init
  <1>4. pc \in [Sender -> {"idle", "marshal", "raw", "build", "write"}]
        /\ \A g \in Sender : pc[g] # "marshal"
    BY DEF Init
  <1>5. writes \in Seq([by : Sender, kind : Kind, bytes : Seq(Token)])
    BY DEF Init
  <1>6. buf \in Seq(Token)
    BY <1>3 DEF Init
  <1>7. pos \in [Sender -> 0..3]
    BY DEF Init
  <1>8. connected \in {0, 1} /\ broken \in BOOLEAN
    BY DEF Init
  <1>. QED
    BY <1>2, <1>3, <1>4, <1>5, <1>6, <1>7, <1>8, Zenon DEF IType, TypeOK

\* The effect of a call that starts WriteMessage, shared by Close and the
\* four send methods.
LEMMA CallWrite ==
    ASSUME IType, NEW g \in Sender, NEW k \in Kind, Call(g), WriteMessage(g, k),
           UNCHANGED <<buf, b, writes, broken>>,
           connected' \in {0, 1}
    PROVE  IType'
  <1>1. MaxCalls \in Nat
    BY Assumptions
  <1>2. calls' \in [Sender -> 0..MaxCalls]
    BY <1>1 DEF Call, IType, TypeOK
  <1>3. kind' \in [Sender -> Kind] /\ pos' \in [Sender -> 0..3]
    BY DEF WriteMessage, IType, TypeOK
  <1>4. pc' \in [Sender -> {"idle", "marshal", "raw", "build", "write"}]
    BY DEF WriteMessage, IType, TypeOK
  <1>5. \A h \in Sender : pc'[h] = "marshal" => pos'[h] \in 0..2
    BY DEF WriteMessage, IType, TypeOK
  <1>. QED
    BY <1>2, <1>3, <1>4, <1>5 DEF IType, TypeOK

LEMMA ITypeStep == IType /\ [Next]_vars => IType'
  <1> SUFFICES ASSUME IType, [Next]_vars PROVE IType'
    OBVIOUS
  <1>1. ASSUME NEW g \in Sender, Start(g) PROVE IType'
    <2>1. MaxCalls \in Nat
      BY Assumptions
    <2>. QED
      BY <1>1, <2>1 DEF Start, Call, IType, TypeOK
  <1>2. ASSUME NEW g \in Sender, Close(g) PROVE IType'
    BY <1>2, TokenFacts, CallWrite DEF Close
  <1>3. ASSUME NEW g \in Sender, NEW k \in Kind, SendKind(g, k) PROVE IType'
    <2>1. connected' \in {0, 1}
      BY <1>3 DEF SendKind, IType, TypeOK
    <2>. QED
      BY <1>3, <2>1, CallWrite DEF SendKind
  <1>4. ASSUME NEW g \in Sender, MarshalStep(g) PROVE IType'
    <2>1. pos[g] \in 0..2 /\ kind[g] \in Kind /\ buf \in Seq(Token)
      BY <1>4 DEF MarshalStep, IType, TypeOK
    <2>2. Marshal(kind[g])[pos[g] + 1] \in Token /\ Len(Marshal(kind[g])) = 3
      BY <2>1, MarshalFacts
    <2>3. buf' \in Seq(Token)
      BY <1>4, <2>1, <2>2, AppendSeq DEF MarshalStep
    <2>4. pos' \in [Sender -> 0..3]
      BY <1>4, <2>1 DEF MarshalStep, IType, TypeOK
    <2>5. pc' \in [Sender -> {"idle", "marshal", "raw", "build", "write"}]
      BY <1>4 DEF MarshalStep, IType, TypeOK
    <2>6. \A h \in Sender : pc'[h] = "marshal" => pos'[h] \in 0..2
      BY <1>4, <2>1, <2>2 DEF MarshalStep, IType, TypeOK
    <2>. QED
      BY <1>4, <2>3, <2>4, <2>5, <2>6 DEF MarshalStep, IType, TypeOK
  <1>5. ASSUME NEW g \in Sender, RawByte(g) PROVE IType'
    <2>1. buf' \in Seq(Token)
      BY <1>5, TokenFacts, AppendSeq DEF RawByte, IType, TypeOK
    <2>. QED
      BY <1>5, <2>1 DEF RawByte, IType, TypeOK
  <1>6. ASSUME NEW g \in Sender, BuildBytes(g) PROVE IType'
    BY <1>6 DEF BuildBytes, IType, TypeOK
  <1>7. ASSUME NEW g \in Sender, Write(g) PROVE IType'
    <2>1. [by |-> g, kind |-> kind[g], bytes |-> b[g]]
            \in [by : Sender, kind : Kind, bytes : Seq(Token)]
      BY DEF IType, TypeOK
    <2>2. writes' \in Seq([by : Sender, kind : Kind, bytes : Seq(Token)])
      BY <1>7, <2>1, AppendSeq DEF Write, IType, TypeOK
    <2>. QED
      BY <1>7, <2>2 DEF Write, IType, TypeOK
  <1>8. ASSUME NEW g \in Sender, WriteFail(g) PROVE IType'
    BY <1>8 DEF WriteFail, IType, TypeOK
  <1>9. CASE UNCHANGED vars
    BY <1>9 DEF vars, IType, TypeOK
  <1>10. ASSUME NEW g \in Sender,
                SendInvocation(g) \/ StreamItem(g) \/ Completion(g) \/ Ping(g)
         PROVE  IType'
    BY <1>10, <1>3, TokenFacts DEF SendInvocation, StreamItem, Completion, Ping
  <1>. QED
    BY <1>1, <1>2, <1>4, <1>5, <1>6, <1>7, <1>8, <1>9, <1>10 DEF Next

(***************************************************************************)
(* Every reachable state is well typed: in particular Start's             *)
(* compare-and-swap keeps Connected at 0 or 1 however often it runs.      *)
(***************************************************************************)
THEOREM TypeCorrect == Spec => []TypeOK
  <1>1. IType => TypeOK
    BY DEF IType
  <1>. QED
    BY ITypeInit, ITypeStep, <1>1, PTL DEF Spec

=============================================================================
