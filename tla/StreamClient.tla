---------------------------- MODULE StreamClient ----------------------------
(***************************************************************************)
(* Client-to-server streaming (part_001): the streamClient registry of    *)
(* upstream channels, driven by the connection's receive loop, and the    *)
(* hub methods that read those channels.                                  *)
(*                                                                         *)
(* The client sends invocations that declare stream ids, stream items and *)
(* completions for those ids.  The receive loop handles them one at a     *)
(* time, in order: an invocation binds one unbuffered channel per         *)
(* channel parameter of the method (buildChannelArgument), an item is     *)
(* converted and sent into the channel registered for its id              *)
(* (receiveStreamItem), and a completion closes and unregisters it        *)
(* (receiveCompletionItem).  Sending into an unbuffered channel blocks    *)
(* the receive loop until the method's reader takes the item.             *)
(*                                                                         *)
(* Items and channel element types are abstracted to their kinds, the     *)
(* data the conversion code branches on.                                  *)
(***************************************************************************)
EXTENDS Naturals, Sequences, FiniteSets

CONSTANTS
    StreamId,        \* the stream ids a client may use
    Method,          \* hub method names
    MethodChans,     \* MethodChans[m]: element kinds of m's <-chan parameters
    MaxChans,        \* bound on the channels the server makes
    MaxMsgs,         \* bound on the messages the client sends
    ReuseIds,        \* the client may declare an id it has used before
    ExactStreamCount,\* the client declares as many ids as the method has chans
    TypedItems,      \* the client sends items of its stream's declared type
    ReaderMayQuit    \* a method may stop reading a channel before it is closed

ElemKind == {"IntK", "StrK", "BoolK", "ListK"}
ItemKind == {"Num", "Str", "Bool", "List", "Null"}

\* The JSON item kind that decodes natively to a channel's element kind.
NaturalItem(e) ==
    IF e = "IntK" THEN "Num" ELSE IF e = "StrK" THEN "Str"
    ELSE IF e = "BoolK" THEN "Bool" ELSE "List"

ChanIdx == 1..MaxChans
NoChan == 0

ASSUME Assumptions ==
    /\ IsFiniteSet(StreamId) /\ StreamId # {} /\ Method # {}
    /\ MethodChans \in [Method -> Seq(ElemKind)]
    /\ MaxChans \in Nat /\ MaxMsgs \in Nat
    /\ {ReuseIds, ExactStreamCount, TypedItems, ReaderMayQuit} \subseteq BOOLEAN

InvocationMsg == [type : {"invocation"}, target : Method, streamIds : Seq(StreamId)]

Msg ==
         InvocationMsg
    \cup [type : {"streamItem"}, id : StreamId, item : ItemKind]
    \cup [type : {"completion"}, id : StreamId]

VARIABLES
    inbox,      \* messages the client sent that the receive loop has not handled
    nSent,      \* number of messages the client has sent
    declared,   \* client side: element kind of each stream id it declared
    upstream,   \* streamClient.upstreamChannels: stream id -> channel or NoChan
    nChans,     \* number of channels made so far
    chanSt,     \* channel state: "none" (not made), "open", "closed"
    chanElem,   \* element kind of each channel
    reader,     \* the method's reader of each channel
    loop,       \* receive loop: "idle", "binding" an invocation, blocked
                \* "sending" to a channel, or "panicked"
    sendTo,     \* the channel the blocked send targets
    result,     \* what the last stream item came to
    cur,        \* the invocation whose arguments the receive loop is binding
    chanCount,  \* how many of its channel parameters are bound so far
    bindBase,   \* nChans when its binding started
    nDone,      \* number of messages the receive loop has finished handling
    promised    \* channels the client's invocations will have the server make

vars == <<inbox, nSent, declared, upstream, nChans, chanSt, chanElem, reader,
          loop, sendTo, result, cur, chanCount, bindBase, nDone, promised>>

bindVars == <<cur, chanCount, bindBase>>

-----------------------------------------------------------------------------
(* streamClient operations, as the receive loop runs them.                *)

(***************************************************************************)
(* buildChannelArgument for the channel parameter after the chanCount     *)
(* already bound: while the client declared more than chanCount ids it    *)
(* makes an unbuffered channel and stores it under streamIds[chanCount]   *)
(* (overwriting whatever the map held); otherwise it fails, the method    *)
(* has more channel parameters than the client will stream.               *)
(***************************************************************************)
\* Mutant: the bound check off by one (one stream id too few accepted).
CanBindOffByOne(sids) == Len(sids) > chanCount + 1

CanBind(sids) == Len(sids) > chanCount

\* Mutant: every channel parameter registered under the first stream id.
buildChannelArgumentFirstId(sids, e) ==
    LET c == nChans + 1
    IN  /\ upstream' = [upstream EXCEPT ![sids[1]] = c]
        /\ nChans' = c
        /\ chanSt' = [chanSt EXCEPT ![c] = "open"]
        /\ chanElem' = [chanElem EXCEPT ![c] = e]
        /\ chanCount' = chanCount + 1

\* Mutant: one channel made per invocation and shared by all its stream ids.
buildChannelArgumentShared(sids, e) ==
    LET c == IF chanCount = 0 THEN nChans + 1 ELSE nChans
    IN  /\ upstream' = [upstream EXCEPT ![sids[chanCount + 1]] = c]
        /\ nChans' = c
        /\ chanSt' = [chanSt EXCEPT ![c] = "open"]
        /\ chanElem' = [chanElem EXCEPT ![c] = e]
        /\ chanCount' = chanCount + 1

buildChannelArgument(sids, e) ==
    LET c == nChans + 1
    IN  /\ upstream' = [upstream EXCEPT ![sids[chanCount + 1]] = c]
        /\ nChans' = c
        /\ chanSt' = [chanSt EXCEPT ![c] = "open"]
        /\ chanElem' = [chanElem EXCEPT ![c] = e]
        /\ chanCount' = chanCount + 1

\* Client side: how many channels an invocation will have the server make.
NBound(sids, elems) ==
    IF Len(sids) < Len(elems) THEN Len(sids) ELSE Len(elems)

(***************************************************************************)
(* receiveStreamItem: what handing an item of kind i to a channel of      *)
(* element kind e comes to.  A float64 goes through                       *)
(* convertNumberToChannelType and is sent only if that succeeds; a slice  *)
(* into a slice channel hits the `break` and is not sent; a slice into    *)
(* any other channel is an error; anything else is sent by reflection in  *)
(* a goroutine whose recover() asserts err.(error): reflect's             *)
(* "not assignable" panic is a string, so the assertion panics again.     *)
(* reflect.TypeOf(nil).Kind() panics on a JSON null.  A send on a closed  *)
(* channel panics with a runtime.Error: recovered in the goroutine, not   *)
(* in the numeric branch.                                                 *)
(***************************************************************************)
ConvertsNumber(e) == e \in {"IntK", "StrK"}

Route(i, e, closed) ==
    IF i = "Num" THEN IF ~ConvertsNumber(e) THEN "dropped"
                      ELSE IF closed THEN "panic" ELSE "send"
    ELSE IF i = "List" THEN IF e = "ListK" THEN "dropped" ELSE "error"
    ELSE IF i = "Null" THEN "panic"
    ELSE IF NaturalItem(e) # i THEN "panic"
    ELSE IF closed THEN "error" ELSE "send"

-----------------------------------------------------------------------------
(* The client.                                                            *)

ClientSend(m) ==
    /\ nSent < MaxMsgs
    /\ inbox' = Append(inbox, m)
    /\ nSent' = nSent + 1

\* The client invokes a method, declaring stream ids for its channel parameters.
\* The element kinds the client expects on each stream id it declares.
Declare(sids, elems) ==
    LET k == NBound(sids, elems)
    IN  [s \in StreamId |->
           IF \E j \in 1..k : sids[j] = s
           THEN elems[CHOOSE j \in 1..k : sids[j] = s]
           ELSE declared[s]]

InvokeWith(m, sids) ==
    /\ ExactStreamCount => Len(sids) = Len(MethodChans[m])
    /\ ~ReuseIds => \A j \in 1..Len(sids) : declared[sids[j]] = "none"
    /\ ~ReuseIds => \A i, j \in 1..Len(sids) : i # j => sids[i] # sids[j]
    /\ promised + NBound(sids, MethodChans[m]) <= MaxChans
    /\ ClientSend([type |-> "invocation", target |-> m, streamIds |-> sids])
    /\ promised' = promised + NBound(sids, MethodChans[m])
    /\ declared' = Declare(sids, MethodChans[m])

SendInvocation ==
    \E m \in Method, n \in 0..2 : \E sids \in [1..n -> StreamId] : InvokeWith(m, sids)

\* The client sends a stream item.
SendStreamItem ==
    \E s \in StreamId, i \in ItemKind :
      /\ TypedItems => declared[s] # "none" /\ i = NaturalItem(declared[s])
      /\ ClientSend([type |-> "streamItem", id |-> s, item |-> i])
      /\ UNCHANGED <<declared, promised>>

\* The client completes a stream.
SendCompletion ==
    \E s \in StreamId :
      /\ ClientSend([type |-> "completion", id |-> s])
      /\ UNCHANGED <<declared, promised>>

Client ==
    /\ SendInvocation \/ SendStreamItem \/ SendCompletion
    /\ UNCHANGED <<upstream, nChans, chanSt, chanElem, reader, loop, sendTo,
                   result, nDone, bindVars>>

-----------------------------------------------------------------------------
(* The receive loop.                                                      *)

\* The receive loop is free and the next message is of type t.
Handle(t) ==
    /\ loop = "idle"
    /\ inbox # <<>> /\ Head(inbox).type = t
    /\ inbox' = Tail(inbox)

(***************************************************************************)
(* The dispatcher takes an invocation and binds its channel parameters   *)
(* one buildChannelArgument call at a time.                               *)
(***************************************************************************)
ReceiveInvocation ==
    /\ Handle("invocation")
    /\ loop' = "binding"
    /\ cur' = Head(inbox)
    /\ chanCount' = 0
    /\ bindBase' = nChans
    /\ UNCHANGED <<nSent, declared, upstream, nChans, chanSt, chanElem, reader,
                   sendTo, result, nDone, promised>>

Elems == MethodChans[cur.target]

\* buildChannelArgument binds the next channel parameter.
BindChannel ==
    /\ loop = "binding"
    /\ chanCount < Len(Elems)
    /\ CanBind(cur.streamIds)
    /\ nChans < MaxChans
    /\ buildChannelArgument(cur.streamIds, Elems[chanCount + 1])
    /\ UNCHANGED <<inbox, nSent, declared, reader, loop, sendTo, result, cur,
                   bindBase, nDone, promised>>

(***************************************************************************)
(* buildChannelArgument fails: the dispatcher answers with an error       *)
(* completion and runs no method, so no reader starts on the channels     *)
(* already bound, and they stay in the map.                               *)
(***************************************************************************)
BindFail ==
    /\ loop = "binding"
    /\ chanCount < Len(Elems)
    /\ ~CanBind(cur.streamIds)
    /\ loop' = "idle"
    /\ nDone' = nDone + 1
    /\ UNCHANGED <<inbox, nSent, declared, upstream, nChans, chanSt, chanElem,
                   reader, sendTo, result, bindVars, promised>>

\* All channel parameters bound: the method starts reading its channels.
Invoke ==
    /\ loop = "binding"
    /\ chanCount = Len(Elems)
    /\ reader' = [c \in ChanIdx |->
                    IF c \in (bindBase + 1)..nChans THEN "reading" ELSE reader[c]]
    /\ loop' = "idle"
    /\ nDone' = nDone + 1
    /\ UNCHANGED <<inbox, nSent, declared, upstream, nChans, chanSt, chanElem,
                   sendTo, result, bindVars, promised>>

\* A stream item (receiveStreamItem).
ReceiveStreamItem ==
    LET m == Head(inbox) IN
      /\ Handle("streamItem")
      /\ LET c == upstream[m.id]
             r == IF c = NoChan THEN "ignored"
                  ELSE Route(m.item, chanElem[c], chanSt[c] = "closed")
         IN  /\ result' = r
             /\ loop' = IF r = "send" THEN "sending"
                        ELSE IF r = "panic" THEN "panicked" ELSE "idle"
             /\ sendTo' = IF r = "send" THEN c ELSE NoChan
             /\ nDone' = IF r \in {"send", "panic"} THEN nDone ELSE nDone + 1
      /\ UNCHANGED <<nSent, declared, upstream, nChans, chanSt, chanElem, reader,
                     bindVars, promised>>

\* A completion (receiveCompletionItem): close and unregister the channel.
receiveCompletionItem(id) ==
    LET c == upstream[id]
    IN  IF c = NoChan THEN UNCHANGED <<upstream, chanSt>>
        ELSE /\ chanSt' = [chanSt EXCEPT ![c] = "closed"]
             /\ upstream' = [upstream EXCEPT ![id] = NoChan]

ReceiveCompletion ==
    LET m == Head(inbox) IN
      /\ Handle("completion")
      /\ receiveCompletionItem(m.id)
      /\ nDone' = nDone + 1
      /\ UNCHANGED <<nSent, declared, nChans, chanElem, reader, loop, sendTo, result,
                     bindVars, promised>>

-----------------------------------------------------------------------------
(* The hub methods reading their channels (for v := range ch).            *)

\* The reader of channel c takes the item the receive loop is blocked sending.
ReaderTake(c) ==
    /\ reader[c] = "reading"
    /\ loop = "sending" /\ sendTo = c
    /\ loop' = "idle"
    /\ sendTo' = NoChan
    /\ nDone' = nDone + 1
    /\ UNCHANGED <<inbox, nSent, declared, upstream, nChans, chanSt, chanElem,
                   reader, result, bindVars, promised>>

\* The range loop over a closed channel ends.
ReaderDone(c) ==
    /\ reader[c] = "reading"
    /\ chanSt[c] = "closed"
    /\ reader' = [reader EXCEPT ![c] = "done"]
    /\ UNCHANGED <<inbox, nSent, declared, upstream, nChans, chanSt, chanElem,
                   loop, sendTo, result, nDone, bindVars, promised>>

\* The method returns without draining its channel.
ReaderQuit(c) ==
    /\ ReaderMayQuit
    /\ reader[c] = "reading"
    /\ reader' = [reader EXCEPT ![c] = "quit"]
    /\ UNCHANGED <<inbox, nSent, declared, upstream, nChans, chanSt, chanElem,
                   loop, sendTo, result, nDone, bindVars, promised>>

-----------------------------------------------------------------------------

Init ==
    /\ inbox = <<>>
    /\ nSent = 0
    /\ declared = [s \in StreamId |-> "none"]
    /\ upstream = [s \in StreamId |-> NoChan]
    /\ nChans = 0
    /\ chanSt = [c \in ChanIdx |-> "none"]
    /\ chanElem = [c \in ChanIdx |-> "IntK"]
    /\ reader = [c \in ChanIdx |-> "none"]
    /\ loop = "idle"
    /\ sendTo = NoChan
    /\ result = "none"
    /\ nDone = 0
    /\ promised = 0
    /\ cur = [type |-> "invocation", target |-> CHOOSE m \in Method : TRUE,
              streamIds |-> <<>>]
    /\ chanCount = 0
    /\ bindBase = 0

Loop == \/ ReceiveInvocation \/ BindChannel \/ BindFail \/ Invoke
        \/ ReceiveStreamItem \/ ReceiveCompletion

Next ==
    \/ Client
    \/ Loop
    \/ \E c \in ChanIdx : ReaderTake(c) \/ ReaderDone(c) \/ ReaderQuit(c)

(***************************************************************************)
(* The receive loop and every method run in goroutines of their own that *)
(* the Go scheduler keeps running; the client is under no obligation.    *)
(***************************************************************************)
Fairness ==
    /\ WF_vars(Loop)
    /\ \A c \in ChanIdx : WF_vars(ReaderTake(c)) /\ WF_vars(ReaderDone(c))

Spec == Init /\ [][Next]_vars /\ Fairness

-----------------------------------------------------------------------------

TypeOK ==
    /\ inbox \in Seq(Msg)
    /\ nSent \in 0..MaxMsgs
    /\ declared \in [StreamId -> ElemKind \cup {"none"}]
    /\ upstream \in [StreamId -> 0..MaxChans]
    /\ nChans \in 0..MaxChans
    /\ chanSt \in [ChanIdx -> {"none", "open", "closed"}]
    /\ chanElem \in [ChanIdx -> ElemKind]
    /\ reader \in [ChanIdx -> {"none", "reading", "done", "quit"}]
    /\ loop \in {"idle", "binding", "sending", "panicked"}
    /\ sendTo \in 0..MaxChans
    /\ result \in {"none", "ignored", "send", "dropped", "error", "panic"}
    /\ nDone \in Nat
    /\ promised \in 0..MaxChans
    /\ cur \in InvocationMsg
    /\ chanCount \in Nat
    /\ bindBase \in Nat

(***************************************************************************)
(* No send on a closed channel: every channel the upstreamChannels map    *)
(* holds is open.  receiveStreamItem looks a channel up and sends to it;  *)
(* this holds only because receiveCompletionItem closes and deletes in    *)
(* one step and no two ids ever share a channel.                          *)
(***************************************************************************)
RegisteredOpen ==
    \A s \in StreamId : upstream[s] # NoChan => chanSt[upstream[s]] = "open"

(***************************************************************************)
(* Every open channel can still be completed: some stream id maps to it.  *)
(* A channel that is open and unregistered is never closed, so a method   *)
(* ranging over it never returns (spec 3: one channel per stream id).     *)
(***************************************************************************)
OpenChannelsRegistered ==
    \A c \in 1..nChans : chanSt[c] = "open" => \E s \in StreamId : upstream[s] = c

(***************************************************************************)
(* The registry is a one-to-one map from stream ids onto channels that    *)
(* have been made and are open.  This is RegisteredOpen strengthened so   *)
(* that it is inductive: closing the channel of one id must not close a   *)
(* channel another id still maps to.                                      *)
(***************************************************************************)
RegistryInv ==
    /\ TypeOK
    /\ \A s \in StreamId : upstream[s] \in 0..nChans
    /\ RegisteredOpen
    /\ \A s, t \in StreamId : s # t /\ upstream[s] # NoChan => upstream[s] # upstream[t]

(***************************************************************************)
(* Every message the client sends is eventually handled by the receive    *)
(* loop: no stream item leaves it blocked on a channel for ever (spec 5). *)
(***************************************************************************)
MessagesEventuallyHandled ==
    \A n \in 1..MaxMsgs : (nSent >= n) ~> (nDone >= n)

(***************************************************************************)
(* A stream item of the wrong kind for its channel is reported as an      *)
(* error on that stream; it never panics the receive loop (spec 4.5, 7).  *)
(***************************************************************************)
NoPanic == loop # "panicked"

=============================================================================
