------------------------- MODULE OpenChannelsProofs -------------------------
(***************************************************************************)
(* Proof that, for a client that never reuses a stream id, every open     *)
(* upstream channel stays registered, so a completion can still close it  *)
(* and its reader's range loop can end.                                   *)
(*                                                                         *)
(* buildChannelArgument overwrites upstreamChannels[id] unchecked, so the *)
(* property rests on every id it will bind being unregistered when it is  *)
(* bound.  That is a fact about the invocations still queued in the inbox *)
(* and the one being bound, which the strengthening Fresh states.         *)
(***************************************************************************)
EXTENDS StreamClientProofs

USE DEF ElemKind, ItemKind, ChanIdx, NoChan, bindVars

\* How many channel parameters of invocation m will be bound.
NB(m) == NBound(m.streamIds, MethodChans[m.target])

\* The ids of invocation m that buildChannelArgument will bind from
\* position j on.
BoundIds(m, j) == {m.streamIds[i] : i \in j..NB(m)}

\* The ids message m will have bound when it is handled (none unless it is
\* an invocation).
QIdsOf(m) == IF m.type = "invocation" THEN BoundIds(m, 1) ELSE {}

\* The ids the message at inbox position i will bind.
QIds(i) == QIdsOf(inbox[i])

\* The ids the invocation being bound has still to bind.
CurIds == IF loop = "binding" THEN BoundIds(cur, chanCount + 1) ELSE {}

DistinctIds(m) ==
    \A i, j \in 1..Len(m.streamIds) : i # j => m.streamIds[i] # m.streamIds[j]

(***************************************************************************)
(* Every id still to be bound is unregistered, no id is to be bound       *)
(* twice, and an id the client has not declared is neither registered nor *)
(* to be bound.  The last fact is what lets a new invocation's ids join.  *)
(***************************************************************************)
Fresh ==
    /\ \A s \in StreamId : declared[s] = "none" =>
          /\ upstream[s] = NoChan
          /\ s \notin CurIds
          /\ \A i \in 1..Len(inbox) : s \notin QIds(i)
    /\ \A s \in CurIds : upstream[s] = NoChan
    /\ \A i \in 1..Len(inbox) : \A s \in QIds(i) : upstream[s] = NoChan
    /\ \A i \in 1..Len(inbox) : inbox[i].type = "invocation" => DistinctIds(inbox[i])
    /\ loop = "binding" => DistinctIds(cur)
    /\ \A i, j \in 1..Len(inbox) : i # j => QIds(i) \cap QIds(j) = {}
    /\ \A i \in 1..Len(inbox) : CurIds \cap QIds(i) = {}
    /\ OpenChannelsRegistered

-----------------------------------------------------------------------------

\* The ids an invocation binds are stream ids, at positions it has.
LEMMA NBType ==
    ASSUME NEW m \in InvocationMsg
    PROVE  /\ m.streamIds \in Seq(StreamId)
           /\ NB(m) \in 0..Len(m.streamIds)
           /\ \A j \in Nat \ {0} : BoundIds(m, j) \subseteq StreamId
  <1>1. m.streamIds \in Seq(StreamId) /\ m.target \in Method
    BY DEF InvocationMsg
  <1>2. MethodChans[m.target] \in Seq(ElemKind)
    BY <1>1, Assumptions
  <1>3. NB(m) \in 0..Len(m.streamIds)
    BY <1>1, <1>2 DEF NB, NBound
  <1>4. \A j \in Nat \ {0} : BoundIds(m, j) \subseteq StreamId
    BY <1>1, <1>3 DEF BoundIds
  <1>. QED
    BY <1>1, <1>3, <1>4

LEMMA FreshInit == Init => Fresh
  <1> SUFFICES ASSUME Init PROVE Fresh
    OBVIOUS
  <1>1. Len(inbox) = 0 /\ CurIds = {} /\ nChans = 0
    BY DEF Init, CurIds
  <1>2. \A s \in StreamId : upstream[s] = NoChan
    BY DEF Init
  <1>3. loop # "binding"
    BY DEF Init
  <1>. QED
    BY <1>1, <1>2, <1>3 DEF Fresh, OpenChannelsRegistered

\* A step that changes none of what Fresh reads, except the loop between
\* states other than "binding", preserves it.
LEMMA FreshUnchanged ==
    ASSUME Fresh,
           UNCHANGED <<declared, upstream, nChans, chanSt, inbox, cur, chanCount>>,
           loop' = loop \/ (loop # "binding" /\ loop' # "binding")
    PROVE  Fresh'
  <1>1. CurIds' = CurIds
    BY DEF CurIds
  <1>2. \A i \in 1..Len(inbox) : QIds(i)' = QIds(i)
    BY DEF QIds, QIdsOf
  <1>3. (loop = "binding")' = (loop = "binding")
    OBVIOUS
  <1>. QED
    BY <1>1, <1>2, <1>3 DEF Fresh, OpenChannelsRegistered

(***************************************************************************)
(* The client appends a message to the inbox.  Fresh is kept when no id   *)
(* becomes undeclared that was declared or is in the new message, and an *)
(* invocation's ids are distinct and all undeclared before it.            *)
(***************************************************************************)
LEMMA FreshAppend ==
    ASSUME TypeOK, Fresh, NEW m \in Msg,
           inbox' = Append(inbox, m),
           UNCHANGED <<upstream, nChans, chanSt, cur, chanCount, loop>>,
           \A s \in StreamId : declared'[s] = "none" =>
               declared[s] = "none" /\ s \notin QIdsOf(m),
           m.type = "invocation" =>
               DistinctIds(m) /\ \A s \in QIdsOf(m) : declared[s] = "none"
    PROVE  Fresh'
  <1> DEFINE L == Len(inbox)
  <1>1. /\ Len(inbox') = L + 1
        /\ \A i \in 1..L : inbox'[i] = inbox[i]
        /\ inbox'[L + 1] = m
    BY DEF TypeOK
  <1>2. /\ \A i \in 1..L : QIds(i)' = QIds(i)
        /\ \A k \in {L + 1} : QIds(k)' = QIdsOf(m)
    <2>1. ASSUME NEW i \in 1..L PROVE QIds(i)' = QIds(i)
      <3>1. inbox'[i] = inbox[i]
        BY <1>1
      <3>. QED
        BY <3>1 DEF QIds
    <2>2. \A k \in {L + 1} : QIds(k)' = QIdsOf(m)
      BY <1>1 DEF QIds
    <2>. QED
      BY <2>1, <2>2
  <1>3. CurIds' = CurIds
    BY DEF CurIds
  <1>4. \A s \in QIdsOf(m) : upstream[s] = NoChan /\ s \notin CurIds
                          /\ \A i \in 1..L : s \notin QIds(i)
    <2> SUFFICES ASSUME NEW s \in QIdsOf(m)
                 PROVE  upstream[s] = NoChan /\ s \notin CurIds
                        /\ \A i \in 1..L : s \notin QIds(i)
      OBVIOUS
    <2>1. m.type = "invocation"
      BY DEF QIdsOf
    <2>2. s \in StreamId /\ declared[s] = "none"
      BY <2>1, MsgCases, NBType DEF QIdsOf
    <2>. QED
      BY <2>2 DEF Fresh
  <1>5. \A i \in 1..L + 1 : i \in 1..L \/ i = L + 1
    OBVIOUS
  <1>a. (\A s \in StreamId : declared[s] = "none" =>
          /\ upstream[s] = NoChan
          /\ s \notin CurIds
          /\ \A i \in 1..Len(inbox) : s \notin QIds(i))'
    BY <1>1, <1>2, <1>3, <1>5 DEF Fresh
  <1>b. (\A s \in CurIds : upstream[s] = NoChan)'
    BY <1>3 DEF Fresh
  <1>c. (\A i \in 1..Len(inbox) : \A s \in QIds(i) : upstream[s] = NoChan)'
    BY <1>1, <1>2, <1>4, <1>5 DEF Fresh
  <1>d. (\A i \in 1..Len(inbox) : inbox[i].type = "invocation" => DistinctIds(inbox[i]))'
    BY <1>1, <1>5 DEF Fresh
  <1>e. (loop = "binding" => DistinctIds(cur))'
    BY DEF Fresh
  <1>f. (\A i, j \in 1..Len(inbox) : i # j => QIds(i) \cap QIds(j) = {})'
    BY <1>1, <1>2, <1>4, <1>5 DEF Fresh
  <1>g. (\A i \in 1..Len(inbox) : CurIds \cap QIds(i) = {})'
    BY <1>1, <1>2, <1>3, <1>4, <1>5 DEF Fresh
  <1>h. OpenChannelsRegistered'
    BY DEF Fresh, OpenChannelsRegistered
  <1>. QED
    BY <1>a, <1>b, <1>c, <1>d, <1>e, <1>f, <1>g, <1>h DEF Fresh

(***************************************************************************)
(* A client that never reuses an id keeps Fresh: InvokeWith's guards make *)
(* the ids of a new invocation distinct and undeclared, and Declare only  *)
(* declares the ids the invocation will bind.                             *)
(***************************************************************************)
LEMMA FreshClient ==
    ASSUME ~ReuseIds, TypeOK, Fresh, Client
    PROVE  Fresh'
  <1>1. CASE SendInvocation
    <2>1. PICK mt \in Method, n \in 0..2 :
                 \E sids \in [1..n -> StreamId] : InvokeWith(mt, sids)
      BY <1>1 DEF SendInvocation
    <2>2. PICK sids \in [1..n -> StreamId] : InvokeWith(mt, sids)
      BY <2>1
    <2> DEFINE m == [type |-> "invocation", target |-> mt, streamIds |-> sids]
               elems == MethodChans[mt]
               k == NBound(sids, elems)
    <2>3. /\ sids \in Seq(StreamId) /\ Len(sids) = n
          /\ elems \in Seq(ElemKind)
          /\ k \in 0..Len(sids) /\ k \in 0..Len(elems)
      BY Assumptions DEF NBound
    <2>4. m \in Msg /\ m \in InvocationMsg
      BY <2>3 DEF Msg, InvocationMsg
    <2>5. /\ inbox' = Append(inbox, m)
          /\ declared' = Declare(sids, elems)
          /\ \A j \in 1..Len(sids) : declared[sids[j]] = "none"
          /\ \A i, j \in 1..Len(sids) : i # j => sids[i] # sids[j]
      BY <2>2, <1>1 DEF InvokeWith, ClientSend
    <2>6. QIdsOf(m) = {sids[i] : i \in 1..k}
      BY DEF QIdsOf, BoundIds, NB
    <2>7. ASSUME NEW s \in StreamId, declared'[s] = "none"
          PROVE  declared[s] = "none" /\ s \notin QIdsOf(m)
      <3>1. ~\E j \in 1..k : sids[j] = s
        <4> SUFFICES ASSUME NEW j \in 1..k, sids[j] = s PROVE FALSE
          OBVIOUS
        <4>1. \E x \in 1..k : sids[x] = s
          OBVIOUS
        <4>2. (CHOOSE x \in 1..k : sids[x] = s) \in 1..Len(elems)
          BY <4>1, <2>3
        <4>3. elems[CHOOSE x \in 1..k : sids[x] = s] \in ElemKind
          BY <4>2, <2>3
        <4>4. declared'[s] = elems[CHOOSE x \in 1..k : sids[x] = s]
          BY <4>1, <2>5 DEF Declare
        <4>. QED
          BY <4>3, <4>4, <2>7
      <3>2. declared'[s] = declared[s]
        BY <3>1, <2>5 DEF Declare
      <3>. QED
        BY <3>1, <3>2, <2>6, <2>7
    <2>8. DistinctIds(m) /\ \A s \in QIdsOf(m) : declared[s] = "none"
      BY <2>3, <2>5, <2>6 DEF DistinctIds
    <2>9. UNCHANGED <<upstream, nChans, chanSt, cur, chanCount, loop>>
      BY <1>1 DEF Client, bindVars
    <2>. QED
      BY <2>4, <2>5, <2>7, <2>8, <2>9, FreshAppend
  <1>2. CASE SendStreamItem \/ SendCompletion
    <2>1. PICK m \in Msg : m.type # "invocation" /\ inbox' = Append(inbox, m)
                           /\ UNCHANGED declared
      BY <1>2 DEF SendStreamItem, SendCompletion, ClientSend, Msg
    <2>2. UNCHANGED <<upstream, nChans, chanSt, cur, chanCount, loop>>
      BY <1>2 DEF Client, bindVars
    <2>. QED
      BY <2>1, <2>2, FreshAppend DEF QIdsOf
  <1>. QED
    BY <1>1, <1>2 DEF Client

\* Taking the head off the inbox moves every later message one place up.
LEMMA TailShift ==
    ASSUME TypeOK, inbox # <<>>, inbox' = Tail(inbox)
    PROVE  /\ Len(inbox') = Len(inbox) - 1
           /\ \A i \in 1..Len(inbox) - 1 : inbox'[i] = inbox[i + 1]
           /\ \A i \in 1..Len(inbox) - 1 : QIds(i)' = QIds(i + 1)
  <1>1. /\ Len(inbox') = Len(inbox) - 1
        /\ \A i \in 1..Len(inbox) - 1 : inbox'[i] = inbox[i + 1]
    BY DEF TypeOK
  <1>. QED
    BY <1>1 DEF QIds

(***************************************************************************)
(* The dispatcher takes an invocation: the ids it will bind move from the *)
(* head of the inbox to the binding in progress, with all that Fresh      *)
(* said of them.                                                          *)
(***************************************************************************)
LEMMA FreshReceiveInvocation ==
    ASSUME TypeOK, Fresh, ReceiveInvocation
    PROVE  Fresh'
  <1> DEFINE L == Len(inbox)
  <1>1. /\ loop = "idle" /\ loop' = "binding"
        /\ inbox # <<>> /\ inbox' = Tail(inbox)
        /\ cur' = inbox[1] /\ chanCount' = 0 /\ inbox[1].type = "invocation"
        /\ UNCHANGED <<declared, upstream, nChans, chanSt>>
    BY DEF ReceiveInvocation, Handle
  <1>2. /\ Len(inbox') = L - 1 /\ L \in Nat \ {0}
        /\ \A i \in 1..L - 1 : inbox'[i] = inbox[i + 1]
        /\ \A i \in 1..L - 1 : QIds(i)' = QIds(i + 1)
    BY <1>1, TailShift DEF TypeOK
  <1>3. CurIds = {} /\ CurIds' = QIds(1)
    BY <1>1 DEF CurIds, QIds, QIdsOf
  <1>4. \A i \in 1..L - 1 : i + 1 \in 1..L /\ i + 1 # 1
    BY <1>2
  <1>a. (\A s \in StreamId : declared[s] = "none" =>
          /\ upstream[s] = NoChan
          /\ s \notin CurIds
          /\ \A i \in 1..Len(inbox) : s \notin QIds(i))'
    BY <1>1, <1>2, <1>3, <1>4 DEF Fresh
  <1>b. (\A s \in CurIds : upstream[s] = NoChan)'
    BY <1>1, <1>2, <1>3 DEF Fresh
  <1>c. (\A i \in 1..Len(inbox) : \A s \in QIds(i) : upstream[s] = NoChan)'
    BY <1>1, <1>2, <1>4 DEF Fresh
  <1>d. (\A i \in 1..Len(inbox) : inbox[i].type = "invocation" => DistinctIds(inbox[i]))'
    BY <1>2, <1>4 DEF Fresh
  <1>e. (loop = "binding" => DistinctIds(cur))'
    BY <1>1, <1>2 DEF Fresh
  <1>f. (\A i, j \in 1..Len(inbox) : i # j => QIds(i) \cap QIds(j) = {})'
    BY <1>2, <1>4 DEF Fresh
  <1>g. (\A i \in 1..Len(inbox) : CurIds \cap QIds(i) = {})'
    BY <1>2, <1>3, <1>4 DEF Fresh
  <1>h. OpenChannelsRegistered'
    BY <1>1 DEF Fresh, OpenChannelsRegistered
  <1>. QED
    BY <1>a, <1>b, <1>c, <1>d, <1>e, <1>f, <1>g, <1>h DEF Fresh

(***************************************************************************)
(* buildChannelArgument stores the new channel under the next id still to *)
(* be bound.  That id was unregistered, so the overwrite loses no channel *)
(* (OpenChannelsRegistered), and with the ids distinct it is no longer    *)
(* one still to be bound.                                                 *)
(***************************************************************************)
LEMMA FreshBind ==
    ASSUME TypeOK, Fresh, BindChannel
    PROVE  Fresh'
  <1> DEFINE s0 == cur.streamIds[chanCount + 1]
             c0 == nChans + 1
  <1>1. /\ cur \in InvocationMsg /\ chanCount \in Nat /\ nChans \in 0..MaxChans
        /\ upstream \in [StreamId -> 0..MaxChans]
        /\ chanSt \in [ChanIdx -> {"none", "open", "closed"}]
    BY DEF TypeOK
  <1>2. /\ loop = "binding" /\ loop' = "binding"
        /\ chanCount' = chanCount + 1 /\ c0 \in ChanIdx
        /\ upstream' = [upstream EXCEPT ![s0] = c0]
        /\ nChans' = c0
        /\ chanSt' = [chanSt EXCEPT ![c0] = "open"]
        /\ UNCHANGED <<inbox, declared, cur>>
    <2>1. nChans < MaxChans /\ MaxChans \in Nat
      BY Assumptions DEF BindChannel
    <2>2. c0 \in ChanIdx
      BY <1>1, <2>1
    <2>. QED
      BY <2>2 DEF BindChannel, buildChannelArgument
  <1>3. chanCount + 1 \in 1..NB(cur)
    BY <1>1, <1>2, Assumptions DEF BindChannel, CanBind, NB, NBound, Elems, InvocationMsg
  <1>4. /\ cur.streamIds \in Seq(StreamId) /\ NB(cur) \in 0..Len(cur.streamIds)
    BY <1>1, NBType
  <1>5. s0 \in StreamId /\ s0 \in CurIds
    BY <1>2, <1>3, <1>4 DEF CurIds, BoundIds
  <1>5a. CurIds \subseteq StreamId /\ CurIds' = BoundIds(cur, chanCount + 2)
    BY <1>1, <1>2, NBType DEF CurIds
  <1>6. \A s \in CurIds' : s \in CurIds /\ s # s0
    <2> SUFFICES ASSUME NEW s \in CurIds' PROVE s \in CurIds /\ s # s0
      OBVIOUS
    <2>1. PICK i \in chanCount + 2..NB(cur) : s = cur.streamIds[i]
      BY <1>5a DEF BoundIds
    <2>2. i \in 1..Len(cur.streamIds) /\ chanCount + 1 \in 1..Len(cur.streamIds)
          /\ i # chanCount + 1
      BY <1>1, <1>3, <1>4
    <2>3. s # s0
      BY <1>2, <2>1, <2>2 DEF Fresh, DistinctIds
    <2>. QED
      BY <1>2, <1>3, <2>1, <2>3 DEF CurIds, BoundIds
  <1>7. upstream[s0] = NoChan
    BY <1>5 DEF Fresh
  <1>8. \A s \in StreamId : s # s0 => upstream'[s] = upstream[s]
    BY <1>1, <1>2
  <1>9. \A i \in 1..Len(inbox) : QIds(i)' = QIds(i) /\ s0 \notin QIds(i)
    BY <1>2, <1>5 DEF QIds, Fresh
  <1>a. (\A s \in StreamId : declared[s] = "none" =>
          /\ upstream[s] = NoChan
          /\ s \notin CurIds
          /\ \A i \in 1..Len(inbox) : s \notin QIds(i))'
    BY <1>2, <1>5, <1>6, <1>8, <1>9 DEF Fresh
  <1>b. (\A s \in CurIds : upstream[s] = NoChan)'
    BY <1>5a, <1>6, <1>8 DEF Fresh
  <1>c. (\A i \in 1..Len(inbox) : \A s \in QIds(i) : upstream[s] = NoChan)'
    <2> SUFFICES ASSUME NEW i \in 1..Len(inbox), NEW s \in QIds(i)'
                 PROVE  upstream'[s] = NoChan
      BY <1>2
    <2>1. s \in QIds(i) /\ s # s0
      BY <1>9
    <2>2. s \in StreamId
      BY <2>1, SeqElem, MsgCases, NBType DEF TypeOK, QIds, QIdsOf
    <2>. QED
      BY <2>1, <2>2, <1>8 DEF Fresh
  <1>d. (\A i \in 1..Len(inbox) : inbox[i].type = "invocation" => DistinctIds(inbox[i]))'
    BY <1>2 DEF Fresh
  <1>e. (loop = "binding" => DistinctIds(cur))'
    BY <1>2 DEF Fresh
  <1>f. (\A i, j \in 1..Len(inbox) : i # j => QIds(i) \cap QIds(j) = {})'
    BY <1>2, <1>9 DEF Fresh
  <1>g. (\A i \in 1..Len(inbox) : CurIds \cap QIds(i) = {})'
    BY <1>2, <1>6, <1>9 DEF Fresh
  <1>h. OpenChannelsRegistered'
    <2> SUFFICES ASSUME NEW c \in 1..nChans', chanSt'[c] = "open"
                 PROVE  \E s \in StreamId : upstream'[s] = c
      BY DEF OpenChannelsRegistered
    <2>1. CASE c = c0
      BY <2>1, <1>1, <1>2, <1>5
    <2>2. CASE c # c0
      <3>1. c \in 1..nChans /\ chanSt[c] = "open"
        BY <2>2, <1>1, <1>2
      <3>2. PICK t \in StreamId : upstream[t] = c
        BY <3>1 DEF Fresh, OpenChannelsRegistered
      <3>3. t # s0
        BY <3>1, <3>2, <1>7
      <3>. QED
        BY <3>2, <3>3, <1>8
    <2>. QED
      BY <2>1, <2>2
  <1>. QED
    BY <1>a, <1>b, <1>c, <1>d, <1>e, <1>f, <1>g, <1>h DEF Fresh

\* The ids still to be bound are stream ids.
LEMMA PendingIdsType ==
    ASSUME TypeOK
    PROVE  /\ \A i \in 1..Len(inbox) : QIds(i) \subseteq StreamId
           /\ CurIds \subseteq StreamId
  <1>1. \A i \in 1..Len(inbox) : QIds(i) \subseteq StreamId
    <2> SUFFICES ASSUME NEW i \in 1..Len(inbox), inbox[i].type = "invocation"
                 PROVE  BoundIds(inbox[i], 1) \subseteq StreamId
      BY DEF QIds, QIdsOf
    <2>1. inbox[i] \in InvocationMsg
      BY SeqElem, MsgCases DEF TypeOK
    <2>. QED
      BY <2>1, NBType
  <1>2. CurIds \subseteq StreamId
    BY NBType DEF TypeOK, CurIds
  <1>. QED
    BY <1>1, <1>2

\* The binding ends (BindFail or Invoke): no id is still to be bound by it.
LEMMA FreshBindEnd ==
    ASSUME Fresh, UNCHANGED <<declared, upstream, nChans, chanSt, inbox>>,
           loop' # "binding"
    PROVE  Fresh'
  <1>1. CurIds' = {}
    BY DEF CurIds
  <1>2. \A i \in 1..Len(inbox) : QIds(i)' = QIds(i)
    BY DEF QIds
  <1>. QED
    BY <1>1, <1>2 DEF Fresh, OpenChannelsRegistered

(***************************************************************************)
(* The receive loop handles a stream item or a completion: the queue      *)
(* moves up, and registrations can only be removed, so what is to be      *)
(* bound stays unregistered.                                              *)
(***************************************************************************)
LEMMA FreshTail ==
    ASSUME TypeOK, Fresh, loop = "idle", loop' # "binding",
           inbox # <<>>, inbox[1].type # "invocation", inbox' = Tail(inbox),
           UNCHANGED declared,
           upstream' \in [StreamId -> Nat],
           \A s \in StreamId : upstream'[s] \in {upstream[s], NoChan},
           OpenChannelsRegistered'
    PROVE  Fresh'
  <1> DEFINE L == Len(inbox)
  <1>1. /\ Len(inbox') = L - 1 /\ L \in Nat \ {0}
        /\ \A i \in 1..L - 1 : inbox'[i] = inbox[i + 1]
        /\ \A i \in 1..L - 1 : QIds(i)' = QIds(i + 1)
    BY TailShift DEF TypeOK
  <1>2. CurIds = {} /\ CurIds' = {}
    BY DEF CurIds
  <1>3. \A i \in 1..L - 1 : i + 1 \in 1..L
    BY <1>1
  <1>4. \A i \in 1..L - 1 : \A s \in QIds(i)' : s \in StreamId /\ upstream[s] = NoChan
    BY <1>1, <1>3, PendingIdsType DEF Fresh
  <1>a. (\A s \in StreamId : declared[s] = "none" =>
          /\ upstream[s] = NoChan
          /\ s \notin CurIds
          /\ \A i \in 1..Len(inbox) : s \notin QIds(i))'
    BY <1>1, <1>2, <1>3 DEF Fresh
  <1>b. (\A s \in CurIds : upstream[s] = NoChan)'
    BY <1>2
  <1>c. (\A i \in 1..Len(inbox) : \A s \in QIds(i) : upstream[s] = NoChan)'
    BY <1>1, <1>4
  <1>d. (\A i \in 1..Len(inbox) : inbox[i].type = "invocation" => DistinctIds(inbox[i]))'
    BY <1>1, <1>3 DEF Fresh
  <1>e. (loop = "binding" => DistinctIds(cur))'
    OBVIOUS
  <1>f. (\A i, j \in 1..Len(inbox) : i # j => QIds(i) \cap QIds(j) = {})'
    BY <1>1, <1>3 DEF Fresh
  <1>g. (\A i \in 1..Len(inbox) : CurIds \cap QIds(i) = {})'
    BY <1>2
  <1>. QED
    BY <1>a, <1>b, <1>c, <1>d, <1>e, <1>f, <1>g DEF Fresh

(***************************************************************************)
(* receiveCompletionItem closes the channel of one id and unregisters     *)
(* that id only.  Every other open channel is registered under another id *)
(* (its own id maps to a different channel), which the step leaves alone. *)
(***************************************************************************)
LEMMA CompletionKeepsOpen ==
    ASSUME TypeOK, Fresh, ReceiveCompletion
    PROVE  /\ upstream' \in [StreamId -> Nat]
           /\ \A s \in StreamId : upstream'[s] \in {upstream[s], NoChan}
           /\ OpenChannelsRegistered'
  <1> DEFINE id == Head(inbox).id
             c0 == upstream[id]
  <1>1. id \in StreamId /\ upstream \in [StreamId -> 0..MaxChans]
        /\ chanSt \in [ChanIdx -> {"none", "open", "closed"}]
        /\ nChans' = nChans
    BY HeadTyped, MsgCases DEF ReceiveCompletion, Handle, TypeOK
  <1>2. CASE c0 = NoChan
    BY <1>1, <1>2 DEF ReceiveCompletion, receiveCompletionItem, Fresh,
                      OpenChannelsRegistered
  <1>3. CASE c0 # NoChan
    <2>1. /\ chanSt' = [chanSt EXCEPT ![c0] = "closed"]
          /\ upstream' = [upstream EXCEPT ![id] = NoChan]
      BY <1>3 DEF ReceiveCompletion, receiveCompletionItem
    <2>2. upstream' \in [StreamId -> Nat]
          /\ \A s \in StreamId : upstream'[s] \in {upstream[s], NoChan}
      BY <1>1, <2>1
    <2>3. OpenChannelsRegistered'
      <3> SUFFICES ASSUME NEW c \in 1..nChans', chanSt'[c] = "open"
                   PROVE  \E s \in StreamId : upstream'[s] = c
        BY DEF OpenChannelsRegistered
      <3>1. c # c0 /\ chanSt[c] = "open" /\ c \in 1..nChans
        BY <1>1, <2>1
      <3>2. PICK t \in StreamId : upstream[t] = c
        BY <3>1 DEF Fresh, OpenChannelsRegistered
      <3>3. t # id /\ upstream'[t] = c
        BY <1>1, <2>1, <3>1, <3>2
      <3>. QED
        BY <3>3
    <2>. QED
      BY <2>2, <2>3
  <1>. QED
    BY <1>2, <1>3

\* Every step of a client that never reuses an id keeps Fresh.
LEMMA FreshStep ==
    ASSUME ~ReuseIds, TypeOK, Fresh, [Next]_vars
    PROVE  Fresh'
  <1>1. CASE Client
    BY <1>1, FreshClient
  <1>2. CASE ReceiveInvocation
    BY <1>2, FreshReceiveInvocation
  <1>3. CASE BindChannel
    BY <1>3, FreshBind
  <1>4. CASE BindFail \/ Invoke
    BY <1>4, FreshBindEnd DEF BindFail, Invoke
  <1>5. CASE ReceiveStreamItem
    <2>1. /\ loop = "idle" /\ inbox # <<>> /\ inbox' = Tail(inbox)
          /\ inbox[1].type # "invocation"
          /\ UNCHANGED <<declared, upstream, nChans, chanSt>>
      BY <1>5 DEF ReceiveStreamItem, Handle
    <2>2. loop' # "binding"
      BY <1>5 DEF ReceiveStreamItem
    <2>3. upstream' \in [StreamId -> Nat] /\ OpenChannelsRegistered'
      BY <2>1 DEF TypeOK, Fresh, OpenChannelsRegistered
    <2>. QED
      BY <2>1, <2>2, <2>3, FreshTail
  <1>6. CASE ReceiveCompletion
    <2>1. /\ loop = "idle" /\ loop' = "idle"
          /\ inbox # <<>> /\ inbox' = Tail(inbox)
          /\ inbox[1].type # "invocation" /\ UNCHANGED declared
      BY <1>6 DEF ReceiveCompletion, Handle
    <2>. QED
      BY <1>6, <2>1, CompletionKeepsOpen, FreshTail
  <1>7. CASE \E c \in ChanIdx : ReaderTake(c) \/ ReaderDone(c) \/ ReaderQuit(c)
    <2>1. PICK c \in ChanIdx : ReaderTake(c) \/ ReaderDone(c) \/ ReaderQuit(c)
      BY <1>7
    <2>. QED
      BY <2>1, FreshUnchanged DEF ReaderTake, ReaderDone, ReaderQuit
  <1>8. CASE UNCHANGED vars
    BY <1>8, FreshUnchanged DEF vars
  <1>. QED
    BY <1>1, <1>2, <1>3, <1>4, <1>5, <1>6, <1>7, <1>8 DEF Next, Loop

(***************************************************************************)
(* For a client that never reuses a stream id (ReuseIds FALSE, the value *)
(* the registry run checks), every open upstream channel stays registered *)
(* under some stream id, whatever the other constants: a completion can   *)
(* still close it, so the hub method ranging over it can return.          *)
(***************************************************************************)
THEOREM OpenChannelsKept ==
    ASSUME ~ReuseIds
    PROVE  Spec => []OpenChannelsRegistered
  <1>1. Init => TypeOK /\ Fresh
    BY TypeInit, FreshInit
  <1>2. TypeOK /\ Fresh /\ [Next]_vars => (TypeOK /\ Fresh)'
    BY TypeStep, FreshStep
  <1>3. TypeOK /\ Fresh => OpenChannelsRegistered
    BY DEF Fresh
  <1>. QED
    BY <1>1, <1>2, <1>3, PTL DEF Spec

=============================================================================
