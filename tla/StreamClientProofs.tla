------------------------- MODULE StreamClientProofs -------------------------
(***************************************************************************)
(* Proofs about the upstream channel registry of StreamClient, for every  *)
(* set of stream ids and methods and every bound.                         *)
(***************************************************************************)
EXTENDS StreamClient, TLAPS

\* The message at the head of a non-empty inbox of well-typed messages.
LEMMA HeadTyped ==
    ASSUME NEW q \in Seq(Msg), q # <<>>
    PROVE  /\ Head(q) \in Msg
           /\ Tail(q) \in Seq(Msg)
  OBVIOUS

\* An element of a sequence over S is in S.
LEMMA SeqElem ==
    ASSUME NEW S, NEW q \in Seq(S), NEW i \in 1..Len(q)
    PROVE  q[i] \in S
  OBVIOUS

\* A message of a given type belongs to that type's record set.
LEMMA MsgCases ==
    ASSUME NEW m \in Msg
    PROVE  /\ m.type = "invocation" => m \in InvocationMsg
           /\ m.type = "streamItem" => m.id \in StreamId /\ m.item \in ItemKind
           /\ m.type = "completion" => m.id \in StreamId
  BY DEF Msg, InvocationMsg

-----------------------------------------------------------------------------
(* Type correctness.                                                      *)

\* The finite sets of kinds and indices are used everywhere below.
USE DEF ElemKind, ItemKind, ChanIdx, NoChan, bindVars

LEMMA TypeInit == Init => TypeOK
  BY Assumptions DEF Init, TypeOK, InvocationMsg, ChanIdx, NoChan

LEMMA TypeClient == TypeOK /\ Client => TypeOK'
  <1> SUFFICES ASSUME TypeOK, Client PROVE TypeOK'
    OBVIOUS
  <1>1. CASE SendInvocation
    <2>0. PICK m \in Method, n \in 0..2 : \E sids \in [1..n -> StreamId] : InvokeWith(m, sids)
      BY <1>1 DEF SendInvocation
    <2>1. PICK sids \in [1..n -> StreamId] : InvokeWith(m, sids)
      BY <2>0
    <2>2. sids \in Seq(StreamId)
      BY <2>1
    <2>3. [type |-> "invocation", target |-> m, streamIds |-> sids] \in Msg
      BY <2>2 DEF Msg, InvocationMsg
    <2>4. MethodChans[m] \in Seq(ElemKind)
      BY Assumptions
    <2>5. NBound(sids, MethodChans[m]) \in 0..Len(MethodChans[m])
      BY <2>2, <2>4 DEF NBound
    <2>6. Declare(sids, MethodChans[m]) \in [StreamId -> ElemKind \cup {"none"}]
      <3> DEFINE k == NBound(sids, MethodChans[m])
      <3>1. ASSUME NEW s \in StreamId, \E j \in 1..k : sids[j] = s
            PROVE  MethodChans[m][CHOOSE j \in 1..k : sids[j] = s] \in ElemKind
        <4> DEFINE J == CHOOSE j \in 1..k : sids[j] = s
        <4>1. J \in 1..Len(MethodChans[m])
          BY <3>1, <2>5
        <4> HIDE DEF J
        <4>2. MethodChans[m][J] \in ElemKind
          BY <4>1, <2>4, SeqElem
        <4>. QED
          BY <4>2 DEF J
      <3>2. declared \in [StreamId -> ElemKind \cup {"none"}]
        BY DEF TypeOK
      <3>. QED
        BY <3>1, <3>2 DEF Declare
    <2>7. promised' \in 0..MaxChans
      BY <2>1, <2>5, Assumptions DEF InvokeWith, TypeOK
    <2>. QED
      BY <2>1, <2>3, <2>6, <2>7, <1>1, Assumptions
         DEF InvokeWith, TypeOK, ClientSend, Client
  <1>2. CASE SendStreamItem
    <2>1. PICK s \in StreamId, i \in ItemKind :
                ClientSend([type |-> "streamItem", id |-> s, item |-> i])
                /\ UNCHANGED <<declared, promised>>
      BY <1>2 DEF SendStreamItem
    <2>2. [type |-> "streamItem", id |-> s, item |-> i] \in Msg
      BY DEF Msg
    <2>3. inbox' \in Seq(Msg) /\ nSent' \in 0..MaxMsgs
      BY <2>1, <2>2, Assumptions DEF ClientSend, TypeOK
    <2>. QED
      BY <1>2, <2>1, <2>3 DEF Client, TypeOK
  <1>3. CASE SendCompletion
    <2>1. PICK s \in StreamId :
                ClientSend([type |-> "completion", id |-> s])
                /\ UNCHANGED <<declared, promised>>
      BY <1>3 DEF SendCompletion
    <2>2. [type |-> "completion", id |-> s] \in Msg
      BY DEF Msg
    <2>3. inbox' \in Seq(Msg) /\ nSent' \in 0..MaxMsgs
      BY <2>1, <2>2, Assumptions DEF ClientSend, TypeOK
    <2>. QED
      BY <1>3, <2>1, <2>3 DEF Client, TypeOK
  <1>. QED
    BY <1>1, <1>2, <1>3 DEF Client

LEMMA TypeLoop == TypeOK /\ Loop => TypeOK'
  <1> SUFFICES ASSUME TypeOK, Loop PROVE TypeOK'
    OBVIOUS
  <1>1. CASE ReceiveInvocation
    <2>1. Head(inbox) \in InvocationMsg /\ Tail(inbox) \in Seq(Msg)
      BY <1>1, HeadTyped, MsgCases DEF ReceiveInvocation, Handle, TypeOK
    <2>. QED
      BY <1>1, <2>1 DEF ReceiveInvocation, Handle, TypeOK
  <1>2. CASE BindChannel
    <2>1. /\ cur.streamIds \in Seq(StreamId)
          /\ chanCount + 1 \in 1..Len(cur.streamIds)
      BY <1>2 DEF BindChannel, CanBind, TypeOK, InvocationMsg
    <2>2. Elems \in Seq(ElemKind) /\ chanCount + 1 \in 1..Len(Elems)
      BY <1>2, Assumptions DEF BindChannel, Elems, TypeOK, InvocationMsg
    <2>3. cur.streamIds[chanCount + 1] \in StreamId
      BY <2>1, SeqElem
    <2>4. Elems[chanCount + 1] \in ElemKind
      BY <2>2, SeqElem
    <2>5. /\ upstream' \in [StreamId -> 0..MaxChans]
          /\ nChans' \in 0..MaxChans
          /\ chanSt' \in [ChanIdx -> {"none", "open", "closed"}]
          /\ chanElem' \in [ChanIdx -> ElemKind]
          /\ chanCount' \in Nat
      BY <1>2, <2>3, <2>4, Assumptions DEF BindChannel, buildChannelArgument, TypeOK
    <2>6. UNCHANGED <<inbox, nSent, declared, reader, loop, sendTo, result, cur,
                      bindBase, nDone, promised>>
      BY <1>2 DEF BindChannel
    <2>. QED
      BY <2>5, <2>6 DEF TypeOK
  <1>3. CASE BindFail
    BY <1>3 DEF BindFail, TypeOK
  <1>4. CASE Invoke
    BY <1>4 DEF Invoke, TypeOK
  <1>5. CASE ReceiveStreamItem
    <2>1. /\ Head(inbox).id \in StreamId
          /\ Tail(inbox) \in Seq(Msg)
      BY <1>5, HeadTyped, MsgCases DEF ReceiveStreamItem, Handle, TypeOK
    <2>2. upstream[Head(inbox).id] \in 0..MaxChans
      BY <2>1 DEF TypeOK
    <2>3. /\ result' \in {"none", "ignored", "send", "dropped", "error", "panic"}
          /\ loop' \in {"idle", "binding", "sending", "panicked"}
          /\ sendTo' \in 0..MaxChans
          /\ nDone' \in Nat
      BY <1>5, <2>2, Assumptions DEF ReceiveStreamItem, TypeOK, Route
    <2>4. UNCHANGED <<nSent, declared, upstream, nChans, chanSt, chanElem, reader,
                      cur, chanCount, bindBase, promised>>
      BY <1>5 DEF ReceiveStreamItem
    <2>. QED
      BY <1>5, <2>1, <2>3, <2>4 DEF ReceiveStreamItem, Handle, TypeOK
  <1>6. CASE ReceiveCompletion
    <2>1. /\ Head(inbox).id \in StreamId
          /\ Tail(inbox) \in Seq(Msg)
      BY <1>6, HeadTyped, MsgCases DEF ReceiveCompletion, Handle, TypeOK
    <2>2. upstream[Head(inbox).id] \in 0..MaxChans
      BY <2>1 DEF TypeOK
    <2>3. /\ upstream' \in [StreamId -> 0..MaxChans]
          /\ chanSt' \in [ChanIdx -> {"none", "open", "closed"}]
      <3>1. receiveCompletionItem(Head(inbox).id)
        BY <1>6 DEF ReceiveCompletion
      <3>2. CASE upstream[Head(inbox).id] = NoChan
        BY <3>1, <3>2 DEF receiveCompletionItem, TypeOK
      <3>3. CASE upstream[Head(inbox).id] # NoChan
        <4> DEFINE id == Head(inbox).id
                   c == upstream[id]
        <4>1. /\ chanSt' = [chanSt EXCEPT ![c] = "closed"]
              /\ upstream' = [upstream EXCEPT ![id] = NoChan]
          BY <3>1, <3>3 DEF receiveCompletionItem
        <4>2. c \in 1..MaxChans
          BY <2>2, <3>3
        <4>. QED
          BY <4>1, <4>2, <2>1, Assumptions DEF TypeOK
      <3>. QED
        BY <3>2, <3>3
    <2>4. UNCHANGED <<nSent, declared, nChans, chanElem, reader, loop, sendTo, result,
                      cur, chanCount, bindBase, promised>>
      BY <1>6 DEF ReceiveCompletion
    <2>. QED
      BY <1>6, <2>1, <2>3, <2>4 DEF ReceiveCompletion, Handle, TypeOK
  <1>. QED
    BY <1>1, <1>2, <1>3, <1>4, <1>5, <1>6 DEF Loop

LEMMA TypeReaders ==
    ASSUME TypeOK, NEW c \in ChanIdx, ReaderTake(c) \/ ReaderDone(c) \/ ReaderQuit(c)
    PROVE  TypeOK'
  <1>1. CASE ReaderTake(c)
    BY <1>1, Assumptions DEF ReaderTake, TypeOK
  <1>2. CASE ReaderDone(c)
    BY <1>2 DEF ReaderDone, TypeOK
  <1>3. CASE ReaderQuit(c)
    BY <1>3 DEF ReaderQuit, TypeOK
  <1>. QED
    BY <1>1, <1>2, <1>3

LEMMA TypeStep == TypeOK /\ [Next]_vars => TypeOK'
  BY TypeClient, TypeLoop, TypeReaders DEF Next, vars, TypeOK

\* The state of the registry always has its type.
THEOREM TypeCorrect == Spec => []TypeOK
  BY TypeInit, TypeStep, PTL DEF Spec

-----------------------------------------------------------------------------
(* The registry maps stream ids one-to-one onto open channels.            *)

\* The part of RegistryInv beyond the type.
Registry ==
    /\ \A s \in StreamId : upstream[s] \in 0..nChans
    /\ RegisteredOpen
    /\ \A s, t \in StreamId : s # t /\ upstream[s] # NoChan => upstream[s] # upstream[t]

\* A step that leaves the registry's variables alone preserves it.
LEMMA RegistryUnchanged ==
    ASSUME Registry, UNCHANGED <<upstream, nChans, chanSt>>
    PROVE  Registry'
  BY DEF Registry, RegisteredOpen

LEMMA RegistryInit == Init => Registry
  BY DEF Init, Registry, RegisteredOpen

(***************************************************************************)
(* buildChannelArgument stores a channel made in this very step, so it is *)
(* open and no other id maps to it.                                       *)
(***************************************************************************)
LEMMA RegistryBind ==
    ASSUME TypeOK, Registry, BindChannel
    PROVE  Registry'
  <1> DEFINE id0 == cur.streamIds[chanCount + 1]
             c == nChans + 1
  <1>1. /\ id0 \in StreamId
        /\ upstream' = [upstream EXCEPT ![id0] = c]
        /\ nChans' = c
        /\ chanSt' = [chanSt EXCEPT ![c] = "open"]
        /\ c \in ChanIdx
    <2>1. cur.streamIds \in Seq(StreamId) /\ chanCount + 1 \in 1..Len(cur.streamIds)
      BY DEF BindChannel, CanBind, TypeOK, InvocationMsg
    <2>2. id0 \in StreamId
      BY <2>1, SeqElem
    <2>. QED
      BY <2>2, Assumptions DEF BindChannel, buildChannelArgument, TypeOK
  <1>2. \A s \in StreamId : upstream'[s] \in 0..nChans'
    BY <1>1 DEF Registry, TypeOK
  <1>3. RegisteredOpen'
    BY <1>1 DEF Registry, RegisteredOpen, TypeOK
  <1>4. \A s, t \in StreamId :
            s # t /\ upstream'[s] # NoChan => upstream'[s] # upstream'[t]
    BY <1>1 DEF Registry, TypeOK
  <1>. QED
    BY <1>2, <1>3, <1>4 DEF Registry

(***************************************************************************)
(* receiveCompletionItem closes the channel of one id and removes that id *)
(* in the same step; by injectivity no other id maps to the channel.      *)
(***************************************************************************)
LEMMA RegistryComplete ==
    ASSUME TypeOK, Registry, ReceiveCompletion
    PROVE  Registry'
  <1> DEFINE id == Head(inbox).id
             c == upstream[id]
  <1>1. id \in StreamId
    BY HeadTyped, MsgCases DEF ReceiveCompletion, Handle, TypeOK
  <1>2. receiveCompletionItem(id) /\ UNCHANGED nChans
    BY DEF ReceiveCompletion
  <1>3. CASE c = NoChan
    BY <1>2, <1>3, RegistryUnchanged DEF receiveCompletionItem
  <1>4. CASE c # NoChan
    <2>1. /\ chanSt' = [chanSt EXCEPT ![c] = "closed"]
          /\ upstream' = [upstream EXCEPT ![id] = NoChan]
      BY <1>2, <1>4 DEF receiveCompletionItem
    <2>2. \A s \in StreamId : s # id /\ upstream[s] # NoChan => upstream[s] # c
      BY <1>1, <1>4 DEF Registry
    <2>3. RegisteredOpen'
      BY <1>1, <2>1, <2>2 DEF Registry, RegisteredOpen, TypeOK
    <2>. QED
      BY <1>1, <1>2, <2>1, <2>3 DEF Registry, TypeOK
  <1>. QED
    BY <1>3, <1>4

LEMMA RegistryStep == TypeOK /\ Registry /\ [Next]_vars => Registry'
  <1> SUFFICES ASSUME TypeOK, Registry, [Next]_vars PROVE Registry'
    OBVIOUS
  <1>1. CASE Client
    BY <1>1, RegistryUnchanged DEF Client
  <1>2. CASE ReceiveInvocation
    BY <1>2, RegistryUnchanged DEF ReceiveInvocation
  <1>3. CASE BindChannel
    BY <1>3, RegistryBind
  <1>4. CASE BindFail
    BY <1>4, RegistryUnchanged DEF BindFail
  <1>5. CASE Invoke
    BY <1>5, RegistryUnchanged DEF Invoke
  <1>6. CASE ReceiveStreamItem
    BY <1>6, RegistryUnchanged DEF ReceiveStreamItem
  <1>7. CASE ReceiveCompletion
    BY <1>7, RegistryComplete
  <1>8. ASSUME NEW c \in ChanIdx, ReaderTake(c) \/ ReaderDone(c) \/ ReaderQuit(c)
        PROVE  Registry'
    BY <1>8, RegistryUnchanged DEF ReaderTake, ReaderDone, ReaderQuit
  <1>9. CASE UNCHANGED vars
    BY <1>9, RegistryUnchanged DEF vars
  <1>. QED
    BY <1>1, <1>2, <1>3, <1>4, <1>5, <1>6, <1>7, <1>8, <1>9 DEF Next, Loop

(***************************************************************************)
(* The registry invariant checked by the runs holds in every reachable    *)
(* state: the upstreamChannels map is one-to-one onto open channels.      *)
(***************************************************************************)
THEOREM RegistryCorrect == Spec => []RegistryInv
  <1>1. Init => TypeOK /\ Registry
    BY TypeInit, RegistryInit
  <1>2. TypeOK /\ Registry /\ [Next]_vars => (TypeOK /\ Registry)'
    BY TypeStep, RegistryStep
  <1>3. TypeOK /\ Registry => RegistryInv
    BY DEF RegistryInv, Registry
  <1>. QED
    BY <1>1, <1>2, <1>3, PTL DEF Spec

(***************************************************************************)
(* receiveStreamItem never sends into a closed channel: every channel the *)
(* map holds is open, whatever the client sends and in whatever order.   *)
(***************************************************************************)
THEOREM NoSendOnClosedChannel == Spec => []RegisteredOpen
  BY RegistryCorrect, PTL DEF RegistryInv

=============================================================================
