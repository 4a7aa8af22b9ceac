------------------------- MODULE RpcChannel_proofs -------------------------
(***************************************************************************)
(* Theorems of RpcChannel, for any calls and any number of connections.    *)
(* IInv says where the one copy of a request is, what the stream of a      *)
(* socket looks like, who may set the reply of a call and what connected_  *)
(* owes to the socket.                                                     *)
(***************************************************************************)
EXTENDS RpcChannel, SequenceTheorems, TLAPS

Replies == [done : BOOLEAN, status : {0, 1}, data : Chunks \cup {None}]
Tasks == [op : {"write"}, call : Calls] \cup [op : {"swap"}, sock : Socks]
Claims == [call : Calls, status : {0, 1}, data : Chunks]
Places == {"idle", "checked", "registered", "waiting", "timedout", "second", "ok", "failed",
           "refused"}

CallTyped ==
    /\ connected \in BOOLEAN /\ pending \in SUBSET Calls
    /\ pc \in [Calls -> Places] /\ reply \in [Calls -> Replies]
    /\ upc \in {"idle", "flush", "queue", "store"}
IoTyped ==
    /\ ioq \in Seq(Tasks) /\ iopc \in {"loop", "parse", "deliver", "flush"}
    /\ claim \in Claims \cup {None} /\ sock \in 0..nsock /\ read_buf \in Seq(Chunks)
    /\ nsock \in 0..MaxSocks /\ hup \in SUBSET Socks /\ live \in BOOLEAN /\ late \in BOOLEAN
CoreTyped ==
    /\ toCore \in [Socks -> Seq(Calls)] /\ toGui \in [Socks -> Seq(Chunks)]
    /\ busy \in SUBSET Calls /\ writer \in Calls \cup {None} /\ executed \in [Calls -> Nat]
Typed == CallTyped /\ IoTyped /\ CoreTyped

Posted == {c \in Calls : pc[c] \notin {"idle", "checked", "registered", "refused"}}

\* Sockets are swapped in the order in which they connected.
SwapInv ==
    /\ live => nsock # 0
    /\ upc # "idle" => nsock # 0
    /\ \A i \in 1..Len(ioq) : ioq[i].op = "swap" => sock < ioq[i].sock /\ ioq[i].sock <= nsock
    /\ \A i, j \in 1..Len(ioq) :
          i < j /\ ioq[i].op = "swap" /\ ioq[j].op = "swap" => ioq[i].sock < ioq[j].sock
    /\ upc \in {"flush", "queue"} =>
          sock < nsock /\ \A i \in 1..Len(ioq) : ioq[i].op = "swap" => ioq[i].sock < nsock
    /\ upc \in {"idle", "store"} =>
          sock = nsock \/ \E i \in 1..Len(ioq) : ioq[i].op = "swap" /\ ioq[i].sock = nsock

\* A request is queued, on its way or executed, once and in one of these places.
Queued == \A i \in 1..Len(ioq) : ioq[i].op = "write" =>
    /\ ioq[i].call \in Posted /\ executed[ioq[i].call] = 0
    /\ \A s \in Socks : \A j \in 1..Len(toCore[s]) : toCore[s][j] # ioq[i].call
QueuedApart == \A i, j \in 1..Len(ioq) :
    ioq[i].op = "write" /\ ioq[j].op = "write" /\ ioq[i].call = ioq[j].call => i = j
SentToLive == \A s \in Socks : toCore[s] # <<>> => live /\ s = nsock
Sent == \A s \in Socks : \A i \in 1..Len(toCore[s]) :
    toCore[s][i] \in Posted /\ executed[toCore[s][i]] = 0
SentApart == \A s \in Socks : \A i, j \in 1..Len(toCore[s]) : toCore[s][i] = toCore[s][j] => i = j
Ran == \A c \in Calls : executed[c] \in {0, 1} /\ (executed[c] = 1 => c \in Posted)
OnceInv == Queued /\ QueuedApart /\ SentToLive /\ Sent /\ SentApart /\ Ran

\* What was read of a socket and what it still holds: a sequence of responses, each a
\* header and its payload.
Stream(s) == IF s = sock THEN read_buf \o toGui[s] ELSE toGui[s]
Final(t) == t[Len(t)]
Responses(t) == \A i \in 1..Len(t) :
    IF i = 1 \/ t[i - 1].part = "body" THEN t[i].part = "head" ELSE t[i] = Body(t[i - 1].id)

\* The last response may lack its payload: then its goroutine in the core holds writeMu.
LastOf(t) == IF writer = None THEN t = <<>> \/ Final(t).part = "body"
             ELSE t # <<>> /\ Final(t).part = "head" /\ Final(t).id = writer
StreamInv ==
    /\ sock = 0 => read_buf = <<>>
    /\ \A s \in Socks : s > nsock => toGui[s] = <<>>
    /\ \A s \in Socks : s >= sock => Responses(Stream(s))
    /\ live => LastOf(Stream(nsock))

\* Only what was executed is answered.
BusyRan == \A c \in busy : executed[c] = 1
WriterBusy == writer # None => writer \in busy
DeadIdle == ~live => busy = {} /\ writer = None
StreamRan == \A s \in Socks : s >= sock =>
    \A i \in 1..Len(Stream(s)) : executed[Stream(s)[i].id] = 1
ClaimRan == iopc = "deliver" => executed[claim.call] = 1
ReplyRan == \A c \in Calls :
    IF reply[c].done THEN reply[c].status = 0 => executed[c] = 1 ELSE reply[c].status = 1
OkReplied == \A c \in Calls : pc[c] = "ok" => reply[c].done /\ reply[c].status = 0
AnswerInv == BusyRan /\ WriterBusy /\ DeadIdle /\ StreamRan /\ ClaimRan /\ ReplyRan /\ OkReplied

\* One party at a time may complete a call: whoever takes it out of pending.
ClaimSet == claim # None => iopc = "deliver"
Pending == \A c \in pending : pc[c] \in {"registered", "waiting", "timedout"} /\ ~reply[c].done
Claimed == iopc = "deliver" =>
    /\ claim \in Claims /\ claim.call \notin pending /\ ~reply[claim.call].done
    /\ pc[claim.call] \in {"waiting", "timedout", "second"}
GivenUp == \A c \in Calls : pc[c] = "failed" /\ reply[c].done => reply[c].status # 0
NotBegun == \A c \in Calls : pc[c] \in {"idle", "checked", "refused"} => ~reply[c].done
ClaimInv == ClaimSet /\ Pending /\ Claimed /\ GivenUp /\ NotBegun

\* The payload that reaches a call is its own.
DataInv ==
    /\ iopc = "deliver" => claim.data = Body(claim.call)
    /\ \A c \in Calls : reply[c].done /\ reply[c].status = 0 => reply[c].data = Body(c)

\* As long as the io thread keeps up, a living core is connected once Reconnect is
\* through, and a dead one until its disconnect was handled.
LinkInv ==
    ~late => /\ live => hup = {}
             /\ ~live => /\ hup \subseteq {nsock} /\ sock = nsock /\ upc = "idle"
                         /\ hup = {} => ~connected
             /\ live /\ upc = "idle" => connected

IInv == Typed /\ SwapInv /\ OnceInv /\ AnswerInv /\ ClaimInv /\ StreamInv /\ DataInv /\ LinkInv

USE ChannelAssumption
USE DEF callVars, ioVars, coreVars, linkVars, vars

LEMMA EmptyIsSeq == ASSUME NEW S PROVE <<>> \in Seq(S)
OBVIOUS

LEMMA LenZero == ASSUME NEW S, NEW s \in Seq(S) PROVE s = <<>> <=> Len(s) = 0
BY EmptySeq

\* The two ends of a sequence that is taken apart or put together.
LEMMA HeadTail ==
    ASSUME NEW S, NEW s \in Seq(S), s # <<>>
    PROVE  /\ Len(s) \in Nat \ {0} /\ Tail(s) \in Seq(S) /\ Len(Tail(s)) = Len(s) - 1
           /\ Head(s) = s[1] /\ s[1] \in S
           /\ \A i \in 1..Len(Tail(s)) : i + 1 \in 1..Len(s) /\ Tail(s)[i] = s[i + 1]
BY EmptySeq

LEMMA LastAppended ==
    ASSUME NEW S, NEW s \in Seq(S), NEW e \in S
    PROVE  /\ Append(s, e) \in Seq(S) /\ Len(s) \in Nat /\ Len(Append(s, e)) = Len(s) + 1
           /\ \A i \in 1..Len(s) : Append(s, e)[i] = s[i]
           /\ Append(s, e)[Len(s) + 1] = e
OBVIOUS

LEMMA InitIInv == Init => IInv
<1> SUFFICES ASSUME Init PROVE IInv
    OBVIOUS
<1> USE DEF Init
<1>1. CallTyped
    BY DEF CallTyped, Places, Replies
<1>2. IoTyped
  <2>1. ioq \in Seq(Tasks) /\ read_buf \in Seq(Chunks)
      BY EmptyIsSeq
  <2>2. nsock \in 0..MaxSocks /\ sock \in 0..nsock
      OBVIOUS
  <2> QED
      BY <2>1, <2>2 DEF IoTyped
<1>2a. CoreTyped
    BY EmptyIsSeq DEF CoreTyped
<1>3. SwapInv /\ OnceInv
    BY DEF SwapInv, OnceInv, Queued, QueuedApart, SentToLive, Sent, SentApart, Ran, Socks
<1>4. ClaimInv /\ DataInv /\ LinkInv
    BY DEF ClaimInv, ClaimSet, Pending, Claimed, GivenUp, NotBegun, DataInv, LinkInv
<1>5. \A s \in Socks : Stream(s) = <<>>
    BY DEF Stream, Socks
<1>6. StreamInv
    BY <1>5 DEF StreamInv, Responses
<1>7. AnswerInv
    BY <1>5 DEF AnswerInv, BusyRan, WriterBusy, DeadIdle, StreamRan, ClaimRan, ReplyRan, OkReplied
<1> QED
    BY <1>1, <1>2, <1>2a, <1>3, <1>4, <1>6, <1>7 DEF IInv, Typed

-----------------------------------------------------------------------------
(* Types.                                                                  *)

LEMMA CallTypedStep == CallTyped /\ IoTyped /\ ClaimInv /\ [Next]_vars => CallTyped'
<1> SUFFICES ASSUME CallTyped, IoTyped, ClaimInv, [Next]_vars PROVE CallTyped'
    OBVIOUS
<1> USE DEF CallTyped
<1>0. iopc = "deliver" => claim \in Claims
    BY DEF ClaimInv, Claimed
<1>1. ASSUME NEW c \in Calls, Call(c) PROVE CallTyped'
  <2>1. CASE CallCheck(c) \/ CallRegister(c) \/ CallPost(c) \/ CallTimeout(c) \/ CallReclaim(c)
      BY <2>1 DEF CallCheck, CallRegister, CallPost, CallTimeout, CallReclaim, Goto, Places
  <2>2. CASE CallWake(c)
      BY <2>2 DEF CallWake, Places
  <2> QED
      BY <1>1, <2>1, <2>2 DEF Call
<1>2. CASE CoreConnects \/ ReconnectQueue \/ ReconnectStore
    BY <1>2 DEF CoreConnects, ReconnectQueue, ReconnectStore
<1>3. ASSUME WakeAll PROVE reply' \in [Calls -> Replies] /\ pending' \in SUBSET Calls
    BY <1>3 DEF WakeAll, Replies
<1>4. CASE ReconnectFlush \/ IoFlush
    BY <1>3, <1>4 DEF ReconnectFlush, IoFlush
<1>5. CASE IoParse
    BY <1>5 DEF IoParse
<1>6. CASE IoDeliver
  <2>1. [done |-> TRUE, status |-> claim.status, data |-> claim.data] \in Replies
      BY <1>0, <1>6 DEF IoDeliver, Claims, Replies
  <2> QED
      BY <1>0, <1>6, <2>1 DEF IoDeliver, Claims
<1>7. CASE IoWrite \/ IoSwap \/ IoRead \/ IoHup \/ IoHupUnseen
    BY <1>7 DEF IoWrite, IoSwap, IoRead, IoHup, IoHupUnseen
<1>8. CASE Core
    BY <1>8 DEF Core, Serve, CoreDies, WriteHeader, WriteBody
<1>9. CASE UNCHANGED vars
    BY <1>9
<1> QED
    BY <1>1, <1>2, <1>4, <1>5, <1>6, <1>7, <1>8, <1>9 DEF Next, Reconnect, Io

LEMMA IoTypedStep == Typed /\ SwapInv /\ [Next]_vars => IoTyped'
<1> SUFFICES ASSUME Typed, SwapInv, [Next]_vars PROVE IoTyped'
    OBVIOUS
<1> USE DEF Typed, IoTyped
<1>1. ASSUME NEW c \in Calls, Call(c) PROVE IoTyped'
  <2>1. CASE CallPost(c)
    <3>1. [op |-> "write", call |-> c] \in Tasks
        BY DEF Tasks
    <3> QED
        BY <2>1, <3>1 DEF CallPost
  <2> QED
      BY <1>1, <2>1 DEF Call, CallCheck, CallRegister, CallWake, CallTimeout, CallReclaim
<1>2. CASE CoreConnects
    BY <1>2 DEF CoreConnects
<1>3. CASE ReconnectFlush \/ ReconnectStore
    BY <1>3 DEF ReconnectFlush, ReconnectStore
<1>4. CASE ReconnectQueue
  <2>1. [op |-> "swap", sock |-> nsock] \in Tasks
      BY <1>4 DEF ReconnectQueue, SwapInv, Tasks, Socks
  <2> QED
      BY <1>4, <2>1 DEF ReconnectQueue
<1>5. CASE IoWrite
    BY <1>5 DEF IoWrite
<1>6. CASE IoSwap
  <2>1. ioq # <<>> /\ Head(ioq) = ioq[1] /\ 1 \in 1..Len(ioq) /\ Tail(ioq) \in Seq(Tasks)
      BY <1>6 DEF IoSwap
  <2>2. Head(ioq).sock \in Socks /\ Head(ioq).sock \in 0..nsock
      BY <1>6, <2>1 DEF IoSwap, Tasks, SwapInv, Socks
  <2> QED
      BY <1>6, <2>1, <2>2 DEF IoSwap, CoreTyped
<1>7. CASE IoRead
    BY <1>7 DEF IoRead, CoreTyped, Socks
<1>8. CASE IoParse
  <2>1. CASE Len(read_buf) < 2
      BY <1>8, <2>1 DEF IoParse
  <2>2. CASE ~(Len(read_buf) < 2)
    <3>1. /\ Tail(Tail(read_buf)) \in Seq(Chunks) /\ Head(read_buf) \in Chunks
          /\ read_buf[2] \in Chunks
      <4>1. read_buf # <<>>
          BY <2>2
      <4>2. /\ Tail(read_buf) \in Seq(Chunks) /\ Len(read_buf) \in Nat
            /\ Len(Tail(read_buf)) = Len(read_buf) - 1
          BY <4>1, HeadTail
      <4>3. Tail(read_buf) # <<>>
        <5>1. Len(Tail(read_buf)) # 0
            BY <2>2, <4>2
        <5> QED
            BY <4>2, <5>1, LenZero
      <4> QED
          BY <2>2, <4>1, <4>2, <4>3, HeadTail
    <3>2. Head(read_buf).id \in pending =>
              [call |-> Head(read_buf).id, status |-> Head(read_buf).status,
               data |-> read_buf[2]] \in Claims
        BY <3>1 DEF Claims, Chunks
    <3> QED
        BY <1>8, <2>2, <3>1, <3>2 DEF IoParse
  <2> QED
      BY <2>1, <2>2
<1>9. CASE IoDeliver \/ IoHup \/ IoFlush \/ IoHupUnseen
    BY <1>9 DEF IoDeliver, IoHup, IoFlush, IoHupUnseen
<1>10. CASE CoreDies
  <2>1. nsock \in Socks
      BY <1>10 DEF CoreDies, SwapInv, Socks
  <2> QED
      BY <1>10, <2>1 DEF CoreDies
<1>11. CASE Serve \/ (\E c \in Calls, st \in {0, 1} : WriteHeader(c, st))
                  \/ (\E c \in Calls : WriteBody(c))
    BY <1>11 DEF Serve, WriteHeader, WriteBody
<1>12. CASE UNCHANGED vars
    BY <1>12
<1> QED
    BY <1>1, <1>2, <1>3, <1>4, <1>5, <1>6, <1>7, <1>8, <1>9, <1>10, <1>11, <1>12
       DEF Next, Reconnect, Io, Core

LEMMA CoreTypedStep == Typed /\ SwapInv /\ [Next]_vars => CoreTyped'
<1> SUFFICES ASSUME Typed, SwapInv, [Next]_vars PROVE CoreTyped'
    OBVIOUS
<1> USE DEF Typed, CoreTyped
<1>0. live => nsock \in Socks
    BY DEF SwapInv, IoTyped, Socks
<1>1. CASE (\E c \in Calls : Call(c)) \/ CoreConnects \/ Reconnect
    BY <1>1 DEF Call, CallCheck, CallRegister, CallPost, CallWake, CallTimeout, CallReclaim,
                CoreConnects, Reconnect, ReconnectFlush, ReconnectQueue, ReconnectStore
<1>2. CASE IoWrite
  <2>1. Head(ioq).call \in Calls
    <3>1. Head(ioq) \in Tasks
        BY <1>2 DEF IoWrite, IoTyped
    <3> QED
        BY <1>2, <3>1 DEF IoWrite, Tasks
  <2> QED
      BY <1>0, <1>2, <2>1 DEF IoWrite
<1>3. CASE IoSwap \/ IoRead
  <2>1. PICK s : toGui' = [toGui EXCEPT ![s] = <<>>]
      BY <1>3 DEF IoSwap, IoRead
  <2>2. toGui' \in [Socks -> Seq(Chunks)]
      BY <2>1, EmptyIsSeq
  <2>3. UNCHANGED coreVars
      BY <1>3 DEF IoSwap, IoRead
  <2> QED
      BY <2>2, <2>3
<1>4. CASE IoParse \/ IoDeliver \/ IoHup \/ IoFlush \/ IoHupUnseen
    BY <1>4 DEF IoParse, IoDeliver, IoHup, IoFlush, IoHupUnseen
<1>5. CASE Serve
  <2>1. Head(toCore[nsock]) \in Calls /\ Tail(toCore[nsock]) \in Seq(Calls)
      BY <1>0, <1>5 DEF Serve
  <2>2. /\ toCore' \in [Socks -> Seq(Calls)] /\ busy' \in SUBSET Calls
        /\ executed' \in [Calls -> Nat]
    <3>1. toCore' \in [Socks -> Seq(Calls)]
        BY <1>5, <2>1 DEF Serve
    <3>2. busy' \in SUBSET Calls
        BY <1>5, <2>1 DEF Serve
    <3>3. executed' \in [Calls -> Nat]
        BY <1>5, <2>1 DEF Serve
    <3> QED
        BY <3>1, <3>2, <3>3
  <2> QED
      BY <1>5, <2>2 DEF Serve
<1>6. CASE CoreDies
  <2>1. [toCore EXCEPT ![nsock] = <<>>] \in [Socks -> Seq(Calls)]
      BY EmptyIsSeq
  <2> QED
      BY <1>6, <2>1 DEF CoreDies
<1>7. ASSUME NEW c \in Calls, NEW st \in {0, 1}, WriteHeader(c, st) PROVE CoreTyped'
  <2>1. Head9(c, st) \in Chunks
      BY DEF Head9, Chunks
  <2> QED
      BY <1>0, <1>7, <2>1 DEF WriteHeader
<1>8. ASSUME NEW c \in Calls, WriteBody(c) PROVE CoreTyped'
  <2>1. Body(c) \in Chunks
      BY DEF Body, Chunks
  <2> QED
      BY <1>0, <1>8, <2>1 DEF WriteBody
<1>9. CASE UNCHANGED vars
    BY <1>9
<1> QED
    BY <1>1, <1>2, <1>3, <1>4, <1>5, <1>6, <1>7, <1>8, <1>9 DEF Next, Io, Core

LEMMA TypedStep == Typed /\ SwapInv /\ ClaimInv /\ [Next]_vars => Typed'
BY CallTypedStep, IoTypedStep, CoreTypedStep DEF Typed

-----------------------------------------------------------------------------
(* The sockets.                                                            *)

\* The steps that leave the sockets and their swaps alone.
SwapFrame == UNCHANGED <<nsock, sock, upc, ioq>> /\ (live' => live)

LEMMA SwapFrameStep ==
    ASSUME Next
    PROVE  \/ SwapFrame \/ CoreConnects \/ ReconnectFlush \/ ReconnectQueue \/ ReconnectStore
           \/ IoWrite \/ IoSwap \/ (\E c \in Calls : CallPost(c))
<1> USE DEF SwapFrame
<1>1. ASSUME NEW c \in Calls, Call(c) PROVE SwapFrame \/ CallPost(c)
    BY <1>1 DEF Call, CallCheck, CallRegister, CallWake, CallTimeout, CallReclaim
<1>2. CASE Io
    BY <1>2 DEF Io, IoRead, IoParse, IoDeliver, IoHup, IoFlush, IoHupUnseen
<1>3. CASE Core
    BY <1>3 DEF Core, Serve, CoreDies, WriteHeader, WriteBody
<1> QED
    BY <1>1, <1>2, <1>3 DEF Next, Reconnect

LEMMA SwapStep == Typed /\ SwapInv /\ [Next]_vars => SwapInv'
<1> SUFFICES ASSUME Typed, SwapInv, [Next]_vars PROVE SwapInv'
    OBVIOUS
<1> USE DEF SwapInv
<1>0. /\ ioq \in Seq(Tasks) /\ Len(ioq) \in Nat /\ nsock \in Nat /\ sock \in Nat
      /\ \A i \in 1..Len(ioq) : ioq[i] \in Tasks
    BY DEF Typed, IoTyped
<1>1. \A i \in 1..Len(ioq) : ioq[i].op = "swap" => ioq[i].sock \in Nat
    BY <1>0 DEF Tasks, Socks
<1>2. CASE SwapFrame
    BY <1>2 DEF SwapFrame
<1>3. CASE CoreConnects \/ ReconnectFlush \/ ReconnectStore
    BY <1>0, <1>1, <1>3 DEF CoreConnects, ReconnectFlush, ReconnectStore
<1>4. CASE ReconnectQueue
  <2> DEFINE e == [op |-> "swap", sock |-> nsock]
  <2>1. e \in Tasks
      BY <1>4 DEF ReconnectQueue, Tasks, Typed, IoTyped, Socks
  <2>2. /\ Len(ioq') = Len(ioq) + 1 /\ ioq'[Len(ioq) + 1] = e
        /\ \A i \in 1..Len(ioq) : ioq'[i] = ioq[i]
      BY <1>0, <1>4, <2>1, LastAppended DEF ReconnectQueue
  <2>3. \A i \in 1..Len(ioq') : i \in 1..Len(ioq) \/ i = Len(ioq) + 1
      BY <1>0, <2>2
  <2>4. e.op = "swap" /\ e.sock = nsock
      OBVIOUS
  <2> HIDE DEF e
  <2>5. UNCHANGED <<nsock, sock, live>> /\ upc = "queue" /\ upc' = "store"
      BY <1>4 DEF ReconnectQueue
  <2> QED
      BY <1>0, <1>1, <2>2, <2>3, <2>4, <2>5
<1>5. ASSUME NEW c \in Calls, CallPost(c) PROVE SwapInv'
  <2> DEFINE e == [op |-> "write", call |-> c]
  <2>1. e \in Tasks
      BY DEF Tasks
  <2>2. /\ Len(ioq') = Len(ioq) + 1 /\ ioq'[Len(ioq) + 1] = e
        /\ \A i \in 1..Len(ioq) : ioq'[i] = ioq[i]
      BY <1>0, <1>5, <2>1, LastAppended DEF CallPost
  <2>3. \A i \in 1..Len(ioq') : i \in 1..Len(ioq) \/ i = Len(ioq) + 1
      BY <1>0, <2>2
  <2>4. e.op # "swap"
      OBVIOUS
  <2> HIDE DEF e
  <2>5. UNCHANGED <<nsock, sock, live, upc>>
      BY <1>5 DEF CallPost
  <2> QED
      BY <1>0, <1>1, <2>2, <2>3, <2>4, <2>5
<1>6. CASE IoWrite \/ IoSwap
  <2>1. ioq # <<>> /\ ioq' = Tail(ioq) /\ Head(ioq) = ioq[1] /\ UNCHANGED <<nsock, live, upc>>
      BY <1>0, <1>6, HeadTail DEF IoWrite, IoSwap
  <2>2. /\ Len(ioq') = Len(ioq) - 1 /\ Len(ioq) \in Nat \ {0}
        /\ \A i \in 1..Len(ioq') : i + 1 \in 1..Len(ioq) /\ ioq'[i] = ioq[i + 1]
      BY <1>0, <2>1, HeadTail
  <2>3. \A i \in 1..Len(ioq) : i = 1 \/ (i - 1 \in 1..Len(ioq') /\ ioq'[i - 1] = ioq[i])
      BY <2>2
  <2>4. \/ ioq[1].op = "write" /\ sock' = sock
        \/ ioq[1].op = "swap" /\ sock' = ioq[1].sock
      BY <1>6, <2>1 DEF IoWrite, IoSwap
  <2>5. upc \in {"idle", "store"} =>
            sock' = nsock \/ \E i \in 1..Len(ioq') : ioq'[i].op = "swap" /\ ioq'[i].sock = nsock
    <3>1. ASSUME NEW i \in 1..Len(ioq), ioq[i].op = "swap", ioq[i].sock = nsock
          PROVE  sock' = nsock \/ \E k \in 1..Len(ioq') : ioq'[k].op = "swap" /\ ioq'[k].sock = nsock
      <4>1. CASE i = 1
          BY <2>4, <3>1, <4>1
      <4>2. CASE i # 1
          BY <2>3, <3>1, <4>2
      <4> QED
          BY <4>1, <4>2
    <3>2. CASE sock = nsock
      <4>1. ioq[1].op # "swap"
          BY <1>0, <1>1, <2>2, <3>2
      <4> QED
          BY <2>4, <3>2, <4>1
    <3> QED
        BY <3>1, <3>2
  <2>6. \A i \in 1..Len(ioq') : ioq'[i].op = "swap" => sock' < ioq'[i].sock /\ ioq'[i].sock <= nsock
      BY <1>0, <1>1, <2>2, <2>4
  <2>7. \A i, j \in 1..Len(ioq') :
            i < j /\ ioq'[i].op = "swap" /\ ioq'[j].op = "swap" => ioq'[i].sock < ioq'[j].sock
      BY <1>0, <2>2
  <2>8. upc \in {"flush", "queue"} =>
            sock' < nsock /\ \A i \in 1..Len(ioq') : ioq'[i].op = "swap" => ioq'[i].sock < nsock
      BY <1>0, <1>1, <2>2, <2>4
  <2> QED
      BY <2>1, <2>5, <2>6, <2>7, <2>8
<1>7. CASE UNCHANGED vars
    BY <1>7
<1> QED
    BY <1>2, <1>3, <1>4, <1>5, <1>6, <1>7, SwapFrameStep

-----------------------------------------------------------------------------
(* The requests.                                                           *)

OnceFrame == UNCHANGED <<ioq, toCore, executed, nsock, live>> /\ Posted \subseteq Posted'

LEMMA OnceFrameStep ==
    ASSUME Typed, Next
    PROVE  \/ OnceFrame \/ CoreConnects \/ ReconnectQueue
           \/ IoWrite \/ IoSwap \/ Serve \/ CoreDies \/ (\E c \in Calls : CallPost(c))
<1> USE DEF OnceFrame, Posted
<1>0. pc \in [Calls -> Places]
    BY DEF Typed, CallTyped
<1>1. ASSUME NEW c \in Calls, Call(c) PROVE OnceFrame \/ CallPost(c)
    BY <1>0, <1>1 DEF Call, CallCheck, CallRegister, CallWake, CallTimeout, CallReclaim, Goto
<1>2. CASE Io
    BY <1>2 DEF Io, IoRead, IoParse, IoDeliver, IoHup, IoFlush, IoHupUnseen
<1>3. CASE Core
    BY <1>3 DEF Core, WriteHeader, WriteBody
<1>4. CASE Reconnect
    BY <1>4 DEF Reconnect, ReconnectFlush, ReconnectStore
<1> QED
    BY <1>1, <1>2, <1>3, <1>4 DEF Next

LEMMA OnceStep == Typed /\ SwapInv /\ OnceInv /\ [Next]_vars => OnceInv'
<1> SUFFICES ASSUME Typed, SwapInv, OnceInv, [Next]_vars PROVE OnceInv'
    OBVIOUS
<1> USE DEF OnceInv, Queued, QueuedApart, SentToLive, Sent, SentApart, Ran
<1>0. /\ ioq \in Seq(Tasks) /\ Len(ioq) \in Nat /\ \A i \in 1..Len(ioq) : ioq[i] \in Tasks
      /\ toCore \in [Socks -> Seq(Calls)] /\ executed \in [Calls -> Nat]
      /\ pc \in [Calls -> Places]
    BY DEF Typed, IoTyped, CoreTyped, CallTyped
<1>1. \A s \in Socks : /\ Len(toCore[s]) \in Nat
                       /\ \A i \in 1..Len(toCore[s]) : toCore[s][i] \in Calls
    BY <1>0
<1>2. CASE OnceFrame
    BY <1>2 DEF OnceFrame
<1>3. ASSUME NEW c \in Calls, CallPost(c) PROVE OnceInv'
  <2> DEFINE e == [op |-> "write", call |-> c]
  <2>1. e \in Tasks
      BY DEF Tasks
  <2>2. /\ Len(ioq') = Len(ioq) + 1 /\ ioq'[Len(ioq) + 1] = e
        /\ \A i \in 1..Len(ioq) : ioq'[i] = ioq[i]
      BY <1>0, <1>3, <2>1, LastAppended DEF CallPost
  <2>3. \A i \in 1..Len(ioq') : i \in 1..Len(ioq) \/ i = Len(ioq) + 1
      BY <1>0, <2>2
  <2>4. e.op = "write" /\ e.call = c
      OBVIOUS
  <2> HIDE DEF e
  <2>5. UNCHANGED <<toCore, executed, nsock, live>>
      BY <1>3 DEF CallPost
  <2>6. c \notin Posted /\ Posted' = Posted \cup {c} /\ executed[c] = 0
      BY <1>0, <1>3 DEF CallPost, Goto, Posted
  <2>7. \A i \in 1..Len(ioq) : ioq[i].op = "write" => ioq[i].call # c
      BY <2>6
  <2>8. \A s \in Socks : \A j \in 1..Len(toCore[s]) : toCore[s][j] # c
      BY <2>6
  <2>9. \A i \in 1..Len(ioq') : ioq'[i].op = "write" =>
          /\ ioq'[i].call \in Posted' /\ executed[ioq'[i].call] = 0
          /\ \A s \in Socks : \A j \in 1..Len(toCore[s]) : toCore[s][j] # ioq'[i].call
      BY <2>2, <2>3, <2>4, <2>6, <2>8
  <2>10. \A i, j \in 1..Len(ioq') :
          ioq'[i].op = "write" /\ ioq'[j].op = "write" /\ ioq'[i].call = ioq'[j].call => i = j
      BY <2>2, <2>3, <2>4, <2>7
  <2> QED
      BY <2>5, <2>6, <2>9, <2>10
<1>4. CASE ReconnectQueue
  <2> DEFINE e == [op |-> "swap", sock |-> nsock]
  <2>1. e \in Tasks
      BY <1>4 DEF ReconnectQueue, Tasks, Typed, IoTyped, Socks, SwapInv
  <2>2. /\ Len(ioq') = Len(ioq) + 1 /\ ioq'[Len(ioq) + 1] = e
        /\ \A i \in 1..Len(ioq) : ioq'[i] = ioq[i]
      BY <1>0, <1>4, <2>1, LastAppended DEF ReconnectQueue
  <2>3. \A i \in 1..Len(ioq') : i \in 1..Len(ioq) \/ i = Len(ioq) + 1
      BY <1>0, <2>2
  <2>4. e.op # "write"
      OBVIOUS
  <2> HIDE DEF e
  <2>5. UNCHANGED <<toCore, executed, nsock, live, Posted>>
      BY <1>4 DEF ReconnectQueue, Posted
  <2> QED
      BY <2>2, <2>3, <2>4, <2>5
<1>5. CASE CoreConnects
    BY <1>5 DEF CoreConnects, Posted
<1>6. CASE IoWrite \/ IoSwap
  <2>1. ioq # <<>> /\ ioq' = Tail(ioq) /\ Head(ioq) = ioq[1] /\ 1 \in 1..Len(ioq)
      BY <1>0, <1>6, HeadTail DEF IoWrite, IoSwap
  <2>2. /\ Len(ioq') = Len(ioq) - 1 /\ Len(ioq) \in Nat \ {0}
        /\ \A i \in 1..Len(ioq') : i + 1 \in 1..Len(ioq) /\ ioq'[i] = ioq[i + 1] /\ i + 1 # 1
      BY <1>0, <2>1, HeadTail
  <2>3. UNCHANGED <<executed, nsock, live, Posted>>
      BY <1>6 DEF IoWrite, IoSwap, Posted
  <2>4. \A i, j \in 1..Len(ioq') :
          ioq'[i].op = "write" /\ ioq'[j].op = "write" /\ ioq'[i].call = ioq'[j].call => i = j
      BY <2>2
  <2>5. CASE UNCHANGED toCore
      BY <2>2, <2>3, <2>4, <2>5
  <2>6. ASSUME ioq[1].op = "write", live, sock = nsock,
               toCore' = [toCore EXCEPT ![sock] = Append(@, ioq[1].call)]
        PROVE  OnceInv'
    <3> DEFINE c == ioq[1].call
    <3>1. c \in Posted /\ c \in Calls /\ executed[c] = 0
        BY <2>1, <2>6 DEF Posted
    <3>2. nsock \in Socks
        BY <2>6 DEF Typed, IoTyped, SwapInv, Socks
    <3>3. \A s \in Socks : s # nsock => toCore'[s] = toCore[s]
        BY <1>0, <2>6
    <3>4. /\ Len(toCore'[nsock]) = Len(toCore[nsock]) + 1
          /\ toCore'[nsock][Len(toCore[nsock]) + 1] = c
          /\ \A i \in 1..Len(toCore[nsock]) : toCore'[nsock][i] = toCore[nsock][i]
        BY <1>0, <2>6, <3>1, <3>2, LastAppended
    <3>5. \A i \in 1..Len(toCore'[nsock]) : i \in 1..Len(toCore[nsock]) \/ i = Len(toCore[nsock]) + 1
        BY <1>1, <3>2, <3>4
    <3>6. \A i \in 1..Len(toCore[nsock]) : toCore[nsock][i] # c
        BY <2>1, <2>6, <3>2
    <3>7. \A i \in 1..Len(ioq') : ioq'[i].op = "write" => ioq'[i].call # c
      <4> SUFFICES ASSUME NEW i \in 1..Len(ioq'), ioq'[i].op = "write", ioq'[i].call = c
                   PROVE  FALSE
          OBVIOUS
      <4>1. i + 1 \in 1..Len(ioq) /\ ioq'[i] = ioq[i + 1] /\ i + 1 # 1
          BY <2>2
      <4>2. ioq[i + 1].op = "write" /\ ioq[i + 1].call = ioq[1].call
          BY <4>1
      <4>3. \A k, l \in 1..Len(ioq) :
              ioq[k].op = "write" /\ ioq[l].op = "write" /\ ioq[k].call = ioq[l].call => k = l
          OBVIOUS
      <4> QED
          BY <2>1, <2>6, <4>1, <4>2, <4>3
    <3> HIDE DEF c
    <3>8. \A i \in 1..Len(ioq') : ioq'[i].op = "write" =>
            /\ ioq'[i].call \in Posted /\ executed[ioq'[i].call] = 0
            /\ \A s \in Socks : \A j \in 1..Len(toCore'[s]) : toCore'[s][j] # ioq'[i].call
      <4> SUFFICES ASSUME NEW i \in 1..Len(ioq'), ioq'[i].op = "write"
                   PROVE  /\ ioq'[i].call \in Posted /\ executed[ioq'[i].call] = 0
                          /\ \A s \in Socks : \A j \in 1..Len(toCore'[s]) : toCore'[s][j] # ioq'[i].call
          OBVIOUS
      <4>1. /\ ioq'[i].call \in Posted /\ executed[ioq'[i].call] = 0
            /\ \A s \in Socks : \A j \in 1..Len(toCore[s]) : toCore[s][j] # ioq'[i].call
          BY <2>2
      <4>2. \A j \in 1..Len(toCore'[nsock]) : toCore'[nsock][j] # ioq'[i].call
          BY <3>2, <3>4, <3>5, <3>7, <4>1
      <4> QED
          BY <3>3, <4>1, <4>2
    <3>9. \A s \in Socks : \A i \in 1..Len(toCore'[s]) :
            toCore'[s][i] \in Posted /\ executed[toCore'[s][i]] = 0
        BY <3>1, <3>2, <3>3, <3>4, <3>5
    <3>10. \A s \in Socks : \A i, j \in 1..Len(toCore'[s]) : toCore'[s][i] = toCore'[s][j] => i = j
      <4>1. \A i, j \in 1..Len(toCore'[nsock]) : toCore'[nsock][i] = toCore'[nsock][j] => i = j
          BY <3>2, <3>4, <3>5, <3>6
      <4> QED
          BY <3>3, <4>1
    <3>11. \A s \in Socks : toCore'[s] # <<>> => s = nsock
        BY <3>3
    <3> HIDE DEF Queued, QueuedApart, SentToLive, Sent, SentApart, Ran
    <3>12. Queued' /\ QueuedApart'
        BY <2>3, <2>4, <3>8 DEF Queued, QueuedApart
    <3>13. SentToLive' /\ Sent' /\ SentApart'
        BY <2>3, <2>6, <3>9, <3>10, <3>11 DEF SentToLive, Sent, SentApart
    <3>14. Ran'
        BY <2>3 DEF Ran
    <3> QED
        BY <3>12, <3>13, <3>14
  <2> QED
      BY <1>6, <2>1, <2>5, <2>6 DEF IoWrite, IoSwap
<1>7. CASE Serve
  <2> DEFINE c == Head(toCore[nsock])
  <2>1. nsock \in Socks /\ live /\ toCore[nsock] # <<>>
      BY <1>7 DEF Serve, Typed, IoTyped, SwapInv, Socks
  <2>2. /\ c = toCore[nsock][1] /\ c \in Calls /\ 1 \in 1..Len(toCore[nsock])
        /\ Len(Tail(toCore[nsock])) \in Nat
        /\ \A i \in 1..Len(Tail(toCore[nsock])) : /\ i + 1 \in 1..Len(toCore[nsock]) /\ i + 1 # 1
                               /\ Tail(toCore[nsock])[i] = toCore[nsock][i + 1]
      BY <1>0, <2>1, HeadTail
  <2>3. c \in Posted /\ executed[c] = 0
      BY <2>1, <2>2
  <2>4. /\ toCore' = [toCore EXCEPT ![nsock] = Tail(@)]
        /\ executed' = [executed EXCEPT ![c] = @ + 1]
        /\ UNCHANGED <<ioq, nsock, live, Posted>>
      BY <1>7 DEF Serve, Posted
  <2>5. executed'[c] = 1 /\ \A d \in Calls : d # c => executed'[d] = executed[d]
      BY <1>0, <2>2, <2>3, <2>4
  <2>6. toCore'[nsock] = Tail(toCore[nsock]) /\ \A s \in Socks : s # nsock => toCore'[s] = toCore[s]
      BY <1>0, <2>1, <2>4
  <2>7. \A i \in 1..Len(toCore'[nsock]) : /\ toCore'[nsock][i] # c
                                 /\ \E k \in 1..Len(toCore[nsock]) : toCore'[nsock][i] = toCore[nsock][k]
      BY <2>1, <2>2, <2>6
  <2>8. \A i \in 1..Len(ioq) : ioq[i].op = "write" => ioq[i].call # c /\ ioq[i].call \in Calls
      BY <2>1, <2>2 DEF Posted
  <2> HIDE DEF c
  <2>9. \A s \in Socks : s # nsock => toCore[s] = <<>> /\ toCore'[s] = <<>>
      BY <2>6
  <2>10. \A s \in Socks : \A i \in 1..Len(toCore'[s]) :
            /\ toCore'[s][i] # c /\ toCore'[s][i] \in Calls
            /\ toCore'[s][i] \in Posted /\ executed[toCore'[s][i]] = 0
      BY <1>1, <2>1, <2>7, <2>9
  <2>11. \A i \in 1..Len(ioq) : ioq[i].op = "write" =>
            \A s \in Socks : \A j \in 1..Len(toCore'[s]) : toCore'[s][j] # ioq[i].call
      BY <2>1, <2>7, <2>9
  <2>12. \A s \in Socks : \A i, j \in 1..Len(toCore'[s]) : toCore'[s][i] = toCore'[s][j] => i = j
    <3>1. \A i, j \in 1..Len(toCore'[nsock]) : toCore'[nsock][i] = toCore'[nsock][j] => i = j
      <4> SUFFICES ASSUME NEW i \in 1..Len(toCore'[nsock]), NEW j \in 1..Len(toCore'[nsock]),
                          toCore'[nsock][i] = toCore'[nsock][j]
                   PROVE  i = j
          OBVIOUS
      <4>1. /\ i + 1 \in 1..Len(toCore[nsock]) /\ j + 1 \in 1..Len(toCore[nsock])
            /\ toCore[nsock][i + 1] = toCore[nsock][j + 1]
          BY <2>2, <2>6
      <4>2. i + 1 = j + 1
          BY <2>1, <4>1
      <4> QED
          BY <2>2, <2>6, <4>2
    <3>2. \A s \in Socks : s # nsock => Len(toCore'[s]) = 0
        BY <2>9
    <3> QED
        BY <3>1, <3>2
  <2>13. \A d \in Calls : executed'[d] \in {0, 1} /\ (executed'[d] = 1 => d \in Posted)
      BY <2>3, <2>5
  <2> HIDE DEF Queued, QueuedApart, SentToLive, Sent, SentApart, Ran
  <2>14. Queued'
    <3>1. \A i \in 1..Len(ioq) : ioq[i].op = "write" =>
              ioq[i].call \in Posted /\ executed'[ioq[i].call] = 0
        BY <2>5, <2>8 DEF Queued
    <3> QED
        BY <2>4, <2>11, <3>1 DEF Queued
  <2>15. QueuedApart' /\ SentToLive'
      BY <2>1, <2>4, <2>9 DEF QueuedApart, SentToLive
  <2>16. Sent' /\ SentApart'
    <3>1. \A s \in Socks : \A i \in 1..Len(toCore'[s]) :
              toCore'[s][i] \in Posted /\ executed'[toCore'[s][i]] = 0
        BY <2>5, <2>10
    <3>2. Posted' = Posted
        BY <2>4
    <3> HIDE DEF Posted
    <3>3. Sent'
        BY <3>1, <3>2 DEF Sent
    <3>4. SentApart'
        BY <2>12 DEF SentApart
    <3> QED
        BY <3>3, <3>4
  <2>17. Ran'
      BY <2>4, <2>13 DEF Ran
  <2> QED
      BY <2>14, <2>15, <2>16, <2>17
<1>8. CASE CoreDies
  <2>1. \A s \in Socks : toCore'[s] = <<>> \/ toCore'[s] = toCore[s]
      BY <1>0, <1>8 DEF CoreDies
  <2>2. \A s \in Socks : toCore'[s] = <<>>
      BY <1>0, <1>8, <2>1 DEF CoreDies
  <2>3. UNCHANGED <<ioq, executed, Posted>>
      BY <1>8 DEF CoreDies, Posted
  <2>4. \A s \in Socks : Len(toCore'[s]) = 0
      BY <2>2
  <2> QED
      BY <2>2, <2>3, <2>4
<1>9. CASE UNCHANGED vars
    BY <1>9 DEF Posted
<1> QED
    BY <1>2, <1>3, <1>4, <1>5, <1>6, <1>7, <1>8, <1>9, OnceFrameStep

\* What was executed stays executed.
LEMMA RanStays ==
    ASSUME Typed, SwapInv, OnceInv, [Next]_vars, NEW c \in Calls, executed[c] = 1
    PROVE  executed'[c] = 1
<1>1. CASE Serve
  <2>1. nsock \in Socks /\ toCore[nsock] # <<>> /\ toCore[nsock] \in Seq(Calls)
      BY <1>1 DEF Serve, Typed, IoTyped, CoreTyped, SwapInv, Socks
  <2>2. Head(toCore[nsock]) = toCore[nsock][1] /\ 1 \in 1..Len(toCore[nsock])
      BY <2>1, HeadTail
  <2>3. executed[Head(toCore[nsock])] = 0
      BY <2>1, <2>2 DEF OnceInv, Sent
  <2> QED
      BY <1>1, <2>3 DEF Serve, Typed, CoreTyped
<1>2. CASE ~Serve
  <2>1. \A d \in Calls : Call(d) => UNCHANGED executed
      BY DEF Call, CallCheck, CallRegister, CallPost, CallWake, CallTimeout, CallReclaim
  <2>2. CoreConnects \/ Reconnect => UNCHANGED executed
      BY DEF CoreConnects, Reconnect, ReconnectFlush, ReconnectQueue, ReconnectStore
  <2>3. Io => UNCHANGED executed
      BY DEF Io, IoWrite, IoSwap, IoRead, IoParse, IoDeliver, IoHup, IoFlush, IoHupUnseen
  <2>4. Core => UNCHANGED executed
      BY <1>2 DEF Core, CoreDies, WriteHeader, WriteBody
  <2> QED
      BY <2>1, <2>2, <2>3, <2>4 DEF Next
<1> QED
    BY <1>1, <1>2

-----------------------------------------------------------------------------
(* The streams.                                                            *)

LEMMA Concatenated ==
    ASSUME NEW S, NEW s \in Seq(S), NEW t \in Seq(S)
    PROVE  /\ s \o t \in Seq(S) /\ s \o <<>> = s /\ <<>> \o s = s
           /\ \A e \in S : s \o Append(t, e) = Append(s \o t, e)
OBVIOUS

LEMMA OneTaken ==
    ASSUME NEW S, NEW s \in Seq(S), NEW t \in Seq(S), s # <<>>
    PROVE  Tail(s \o t) = Tail(s) \o t
<1>1. Len(s) \in Nat \ {0} /\ Tail(s) \in Seq(S) /\ Len(Tail(s)) = Len(s) - 1
    BY HeadTail
<1>2. s \o t \in Seq(S) /\ Len(s \o t) = Len(s) + Len(t) /\ Len(t) \in Nat
    BY ConcatProperties
<1>3. s \o t # <<>>
    BY <1>1, <1>2, LenZero
<1>4. /\ Tail(s \o t) \in Seq(S) /\ Tail(s) \o t \in Seq(S)
      /\ Len(Tail(s \o t)) = Len(s) + Len(t) - 1 /\ Len(Tail(s) \o t) = Len(s) + Len(t) - 1
    BY <1>1, <1>2, <1>3, HeadTail, ConcatProperties
<1>5. \A i \in 1..Len(Tail(s \o t)) : Tail(s \o t)[i] = (Tail(s) \o t)[i]
  <2> SUFFICES ASSUME NEW i \in 1..Len(Tail(s \o t)) PROVE Tail(s \o t)[i] = (Tail(s) \o t)[i]
      OBVIOUS
  <2>1. Tail(s \o t)[i] = (s \o t)[i + 1] /\ i + 1 \in 1..Len(s \o t)
      BY <1>2, <1>3, HeadTail
  <2>2. (s \o t)[i + 1] = IF i + 1 <= Len(s) THEN s[i + 1] ELSE t[i + 1 - Len(s)]
      BY <1>2, <2>1, ConcatProperties
  <2>3. (Tail(s) \o t)[i] = IF i <= Len(s) - 1 THEN Tail(s)[i] ELSE t[i - (Len(s) - 1)]
      BY <1>1, <1>2, <1>4, ConcatProperties
  <2>4. CASE i + 1 <= Len(s)
      BY <1>1, <2>1, <2>2, <2>3, <2>4, HeadTail
  <2>5. CASE ~(i + 1 <= Len(s))
    <3>1. i + 1 - Len(s) = i - (Len(s) - 1) /\ ~(i <= Len(s) - 1)
        BY <1>1, <1>4, <2>5
    <3> QED
        BY <2>1, <2>2, <2>3, <2>5, <3>1
  <2> QED
      BY <2>4, <2>5
<1> QED
    BY <1>4, <1>5, SeqEqual

LEMMA TwoTaken ==
    ASSUME NEW S, NEW s \in Seq(S), NEW t \in Seq(S), ~(Len(s) < 2)
    PROVE  /\ Tail(Tail(s)) \o t = Tail(Tail(s \o t)) /\ Tail(Tail(s)) \in Seq(S)
           /\ (s \o t)[1] = s[1] /\ (s \o t)[2] = s[2] /\ ~(Len(s \o t) < 2)
<1>1. s # <<>> /\ Len(s) \in Nat
    BY LenZero
<1>2. Tail(s) \in Seq(S) /\ Len(Tail(s)) = Len(s) - 1
    BY <1>1, HeadTail
<1>3. Tail(s) # <<>>
  <2>1. Len(Tail(s)) # 0
      BY <1>1, <1>2
  <2> QED
      BY <1>2, <2>1, LenZero
<1>4. Tail(s \o t) = Tail(s) \o t
    BY <1>1, OneTaken
<1>5. Tail(Tail(s) \o t) = Tail(Tail(s)) \o t
    BY <1>2, <1>3, OneTaken
<1>6. Tail(Tail(s)) \in Seq(S)
    BY <1>2, <1>3, HeadTail
<1>7. /\ Len(t) \in Nat /\ Len(s \o t) = Len(s) + Len(t)
      /\ \A i \in 1..Len(s) + Len(t) : i <= Len(s) => (s \o t)[i] = s[i]
    BY ConcatProperties
<1>8. 1 \in 1..Len(s) + Len(t) /\ 2 \in 1..Len(s) + Len(t) /\ 1 <= Len(s) /\ 2 <= Len(s)
    BY <1>1, <1>7
<1>9. (s \o t)[1] = s[1] /\ (s \o t)[2] = s[2]
    BY <1>7, <1>8
<1>10. ~(Len(s \o t) < 2)
    BY <1>1, <1>7
<1> QED
    BY <1>4, <1>5, <1>6, <1>9, <1>10

LEMMA TailTail ==
    ASSUME NEW S, NEW t \in Seq(S), ~(Len(t) < 2)
    PROVE  \A i \in 1..Len(Tail(Tail(t))) : i + 2 \in 1..Len(t) /\ Tail(Tail(t))[i] = t[i + 2]
<1>1. t # <<>> /\ Len(t) \in Nat
    BY LenZero
<1>2. Tail(t) \in Seq(S) /\ Len(Tail(t)) = Len(t) - 1
    BY <1>1, HeadTail
<1>3. Len(Tail(t)) # 0
    BY <1>1, <1>2
<1>4. Tail(t) # <<>>
    BY <1>2, <1>3, LenZero
<1>5. \A i \in 1..Len(Tail(Tail(t))) :
          i + 1 \in 1..Len(Tail(t)) /\ Tail(Tail(t))[i] = Tail(t)[i + 1]
    BY <1>2, <1>4, HeadTail
<1>6. \A i \in 1..Len(Tail(t)) : i + 1 \in 1..Len(t) /\ Tail(t)[i] = t[i + 1]
    BY <1>1, HeadTail
<1> QED
    BY <1>5, <1>6

LEMMA ResponsesTaken ==
    ASSUME NEW t \in Seq(Chunks), Responses(t), ~(Len(t) < 2)
    PROVE  Responses(Tail(Tail(t))) /\ t[2] = Body(t[1].id)
<1>1. t # <<>> /\ Len(t) \in Nat
    BY LenZero
<1>7. \A i \in 1..Len(Tail(Tail(t))) : i + 2 \in 1..Len(t) /\ Tail(Tail(t))[i] = t[i + 2]
    BY TailTail
<1>8. 1 \in 1..Len(t) /\ 2 \in 1..Len(t)
    BY <1>1
<1>9. t[1].part = "head" /\ t[2] = Body(t[1].id)
    BY <1>8 DEF Responses
<1>10. t[2].part = "body"
    BY <1>9 DEF Body
<1>11. Responses(Tail(Tail(t)))
  <2> SUFFICES ASSUME NEW i \in 1..Len(Tail(Tail(t)))
               PROVE  IF i = 1 \/ Tail(Tail(t))[i - 1].part = "body"
                      THEN Tail(Tail(t))[i].part = "head"
                      ELSE Tail(Tail(t))[i] = Body(Tail(Tail(t))[i - 1].id)
      BY DEF Responses
  <2>1. i + 2 \in 1..Len(t) /\ Tail(Tail(t))[i] = t[i + 2]
      BY <1>7
  <2>2. IF t[i + 1].part = "body" THEN t[i + 2].part = "head" ELSE t[i + 2] = Body(t[i + 1].id)
    <3>1. i + 2 # 1 /\ i + 2 - 1 = i + 1
        OBVIOUS
    <3> QED
        BY <2>1, <3>1 DEF Responses
  <2>3. CASE i = 1
      BY <1>10, <2>1, <2>2, <2>3
  <2>4. CASE i # 1
    <3>1. i - 1 \in 1..Len(Tail(Tail(t))) /\ i - 1 + 2 = i + 1
        BY <2>4
    <3>2. Tail(Tail(t))[i - 1] = t[i + 1]
        BY <1>7, <3>1
    <3> QED
        BY <2>1, <2>2, <2>4, <3>2
  <2> QED
      BY <2>3, <2>4
<1> QED
    BY <1>9, <1>11

LEMMA ResponsesGrown ==
    ASSUME NEW t \in Seq(Chunks), Responses(t), NEW e \in Chunks,
           IF t = <<>> \/ Final(t).part = "body" THEN e.part = "head" ELSE e = Body(Final(t).id)
    PROVE  Responses(Append(t, e)) /\ Append(t, e) # <<>> /\ Final(Append(t, e)) = e
<1>1. /\ Append(t, e) \in Seq(Chunks) /\ Len(t) \in Nat /\ Len(Append(t, e)) = Len(t) + 1
      /\ \A i \in 1..Len(t) : Append(t, e)[i] = t[i]
      /\ Append(t, e)[Len(t) + 1] = e
    BY LastAppended
<1>2. t = <<>> <=> Len(t) = 0
    BY LenZero
<1>3. ASSUME NEW i \in 1..Len(Append(t, e))
      PROVE  IF i = 1 \/ Append(t, e)[i - 1].part = "body" THEN Append(t, e)[i].part = "head"
             ELSE Append(t, e)[i] = Body(Append(t, e)[i - 1].id)
  <2>1. CASE i \in 1..Len(t)
    <3>1. Append(t, e)[i] = t[i] /\ (i # 1 => Append(t, e)[i - 1] = t[i - 1])
        BY <1>1, <2>1
    <3> QED
        BY <2>1, <3>1 DEF Responses
  <2>2. CASE i = Len(t) + 1
    <3>1. Append(t, e)[i] = e /\ (i # 1 => Append(t, e)[i - 1] = Final(t))
        BY <1>1, <2>2 DEF Final
    <3> QED
        BY <1>1, <1>2, <2>2, <3>1
  <2> QED
      BY <1>1, <2>1, <2>2
<1>4. Responses(Append(t, e))
    BY <1>3 DEF Responses
<1> QED
    BY <1>1, <1>4 DEF Final

LEMMA StreamWritten ==
    ASSUME Typed, NEW s \in Socks, NEW e \in Chunks, UNCHANGED <<read_buf, sock>>,
           toGui' = [toGui EXCEPT ![nsock] = Append(@, e)]
    PROVE  Stream(s)' = IF s = nsock THEN Append(Stream(s), e) ELSE Stream(s)
<1>1. read_buf \in Seq(Chunks) /\ toGui \in [Socks -> Seq(Chunks)]
    BY DEF Typed, IoTyped, CoreTyped
<1>2. toGui'[s] = IF s = nsock THEN Append(toGui[s], e) ELSE toGui[s]
    BY <1>1
<1>3. CASE s = nsock /\ s = sock
  <2>1. Stream(s)' = read_buf \o Append(toGui[s], e) /\ Stream(s) = read_buf \o toGui[s]
      BY <1>2, <1>3 DEF Stream
  <2>2. read_buf \o Append(toGui[s], e) = Append(read_buf \o toGui[s], e)
      BY <1>1, Concatenated
  <2> QED
      BY <1>3, <2>1, <2>2
<1>4. CASE ~(s = nsock /\ s = sock)
    BY <1>2, <1>4 DEF Stream
<1> QED
    BY <1>3, <1>4

\* A step leaves the stream of a socket not yet given up alone, adds to its end or
\* takes a response off its front.
LEMMA StreamChange ==
    ASSUME Typed, SwapInv, StreamInv, [Next]_vars, NEW s \in Socks, s >= sock'
    PROVE  /\ s >= sock /\ Stream(s) \in Seq(Chunks)
           /\ \/ Stream(s)' = Stream(s)
              \/ \E c \in Calls, st \in {0, 1} :
                    WriteHeader(c, st) /\ s = nsock /\ Stream(s)' = Append(Stream(s), Head9(c, st))
              \/ \E c \in Calls :
                    WriteBody(c) /\ s = nsock /\ Stream(s)' = Append(Stream(s), Body(c))
              \/ /\ IoParse /\ s = sock /\ ~(Len(read_buf) < 2)
                 /\ Stream(s)' = Tail(Tail(Stream(s)))
<1>0. /\ read_buf \in Seq(Chunks) /\ toGui \in [Socks -> Seq(Chunks)]
      /\ nsock \in Nat /\ sock \in 0..nsock /\ s \in Nat /\ s # 0
      /\ Stream(s) \in Seq(Chunks)
    BY Concatenated DEF Typed, IoTyped, CoreTyped, Socks, Stream
<1>1. CASE IoSwap
  <2>1. ioq # <<>> /\ Head(ioq) = ioq[1] /\ 1 \in 1..Len(ioq) /\ ioq[1] \in Tasks
      BY <1>1 DEF IoSwap, Typed, IoTyped
  <2>2. sock' = ioq[1].sock /\ sock' \in Socks /\ sock < sock'
      BY <1>1, <2>1 DEF IoSwap, SwapInv, Tasks, Socks
  <2>3. /\ read_buf' = toGui[sock'] /\ toGui' = [toGui EXCEPT ![sock'] = <<>>]
      BY <1>1, <2>1, <2>2 DEF IoSwap
  <2>4. s # sock
      BY <1>0, <2>2 DEF Socks
  <2>5. CASE s = sock'
    <3>1. Stream(s)' = toGui[s] \o <<>>
        BY <1>0, <2>3, <2>5 DEF Stream
    <3> QED
        BY <1>0, <2>2, <2>4, <2>5, <3>1, Concatenated DEF Stream, Socks
  <2>6. CASE s # sock'
      BY <1>0, <2>2, <2>3, <2>4, <2>6 DEF Stream, Socks
  <2> QED
      BY <2>5, <2>6
<1>2. CASE ~IoSwap
  <2>1. sock' = sock /\ s >= sock
    <3>1. \A d \in Calls : Call(d) => UNCHANGED sock
        BY DEF Call, CallCheck, CallRegister, CallPost, CallWake, CallTimeout, CallReclaim
    <3>2. CoreConnects \/ Reconnect => UNCHANGED sock
        BY DEF CoreConnects, Reconnect, ReconnectFlush, ReconnectQueue, ReconnectStore
    <3>3. Io => UNCHANGED sock
        BY <1>2 DEF Io, IoWrite, IoRead, IoParse, IoDeliver, IoHup, IoFlush, IoHupUnseen
    <3>4. Core => UNCHANGED sock
        BY DEF Core, Serve, CoreDies, WriteHeader, WriteBody
    <3> QED
        BY <3>1, <3>2, <3>3, <3>4 DEF Next
  <2>2. CASE UNCHANGED <<read_buf, toGui>>
      BY <1>0, <2>1, <2>2 DEF Stream
  <2>3. CASE IoRead
    <3>1. /\ sock \in Socks /\ read_buf' = read_buf \o toGui[sock]
          /\ toGui' = [toGui EXCEPT ![sock] = <<>>]
        BY <1>0, <2>3 DEF IoRead, Typed, IoTyped, Socks
    <3>2. CASE s = sock
      <4>1. Stream(s)' = (read_buf \o toGui[sock]) \o <<>>
          BY <1>0, <2>1, <3>1, <3>2 DEF Stream
      <4> QED
          BY <1>0, <2>1, <3>1, <3>2, <4>1, Concatenated DEF Stream
    <3>3. CASE s # sock
        BY <1>0, <2>1, <3>1, <3>3 DEF Stream
    <3> QED
        BY <3>2, <3>3
  <2>4. CASE IoParse
    <3>1. CASE Len(read_buf) < 2
        BY <2>2, <2>4, <3>1 DEF IoParse
    <3>2. CASE ~(Len(read_buf) < 2)
      <4>1. read_buf' = Tail(Tail(read_buf)) /\ UNCHANGED toGui
          BY <2>4, <3>2 DEF IoParse
      <4>2. CASE s = sock
        <5>1. Stream(s)' = Tail(Tail(read_buf)) \o toGui[s]
            BY <2>1, <4>1, <4>2 DEF Stream
        <5>2. Tail(Tail(read_buf)) \o toGui[s] = Tail(Tail(read_buf \o toGui[s]))
          <6>1. read_buf \in Seq(Chunks) /\ toGui[s] \in Seq(Chunks)
              BY <1>0
          <6> QED
              BY <3>2, <6>1, TwoTaken
        <5>3. Stream(s) = read_buf \o toGui[s]
            BY <4>2 DEF Stream
        <5>4. Stream(s)' = Tail(Tail(Stream(s)))
            BY <5>1, <5>2, <5>3
        <5>5. s >= sock
            BY <2>1
        <5> QED
            BY <1>0, <2>4, <3>2, <4>2, <5>4, <5>5
      <4>3. CASE s # sock
          BY <1>0, <2>1, <4>1, <4>3 DEF Stream
      <4> QED
          BY <4>2, <4>3
    <3> QED
        BY <3>1, <3>2
  <2>6. ASSUME NEW c \in Calls, NEW st \in {0, 1}, WriteHeader(c, st)
        PROVE  Stream(s)' = IF s = nsock THEN Append(Stream(s), Head9(c, st)) ELSE Stream(s)
    <3>1. Head9(c, st) \in Chunks
        BY DEF Head9, Chunks
    <3> QED
        BY <2>6, <3>1, StreamWritten DEF WriteHeader
  <2>7. ASSUME NEW c \in Calls, WriteBody(c)
        PROVE  Stream(s)' = IF s = nsock THEN Append(Stream(s), Body(c)) ELSE Stream(s)
    <3>1. Body(c) \in Chunks
        BY DEF Body, Chunks
    <3> QED
        BY <2>7, <3>1, StreamWritten DEF WriteBody
  <2>8. \/ UNCHANGED <<read_buf, toGui>> \/ IoRead \/ IoParse
        \/ (\E c \in Calls, st \in {0, 1} : WriteHeader(c, st)) \/ (\E c \in Calls : WriteBody(c))
    <3>1. \A d \in Calls : Call(d) => UNCHANGED <<read_buf, toGui>>
        BY DEF Call, CallCheck, CallRegister, CallPost, CallWake, CallTimeout, CallReclaim
    <3>2. CoreConnects \/ Reconnect => UNCHANGED <<read_buf, toGui>>
        BY DEF CoreConnects, Reconnect, ReconnectFlush, ReconnectQueue, ReconnectStore
    <3>3. Io => UNCHANGED <<read_buf, toGui>> \/ IoRead \/ IoParse
        BY <1>2 DEF Io, IoWrite, IoDeliver, IoHup, IoFlush, IoHupUnseen
    <3>4. Serve \/ CoreDies => UNCHANGED <<read_buf, toGui>>
        BY DEF Serve, CoreDies
    <3> QED
        BY <3>1, <3>2, <3>3, <3>4 DEF Next, Core
  <2> QED
    <3>1. CASE \E c \in Calls, st \in {0, 1} : WriteHeader(c, st)
        BY <1>0, <2>1, <2>6, <3>1
    <3>2. CASE \E c \in Calls : WriteBody(c)
        BY <1>0, <2>1, <2>7, <3>2
    <3> QED
        BY <2>2, <2>3, <2>4, <2>8, <3>1, <3>2
<1> QED
    BY <1>1, <1>2

LEMMA FinalTaken ==
    ASSUME NEW t \in Seq(Chunks), ~(Len(t) < 2)
    PROVE  IF Tail(Tail(t)) = <<>> THEN Final(t) = t[2] ELSE Final(Tail(Tail(t))) = Final(t)
<1>1. t # <<>> /\ Len(t) \in Nat
    BY LenZero
<1>2. Tail(t) \in Seq(Chunks) /\ Len(Tail(t)) = Len(t) - 1
    BY <1>1, HeadTail
<1>3. Len(Tail(t)) # 0
    BY <1>1, <1>2
<1>4. Tail(t) # <<>>
    BY <1>2, <1>3, LenZero
<1>5. Tail(Tail(t)) \in Seq(Chunks) /\ Len(Tail(Tail(t))) = Len(t) - 2
    BY <1>1, <1>2, <1>4, HeadTail
<1>6. Tail(Tail(t)) = <<>> <=> Len(t) = 2
  <2>1. Tail(Tail(t)) = <<>> <=> Len(Tail(Tail(t))) = 0
      BY <1>5, LenZero
  <2> QED
      BY <1>1, <1>5, <2>1
<1>7. ASSUME Len(t) # 2 PROVE Final(Tail(Tail(t))) = Final(t)
  <2>1. Len(t) - 2 \in 1..Len(Tail(Tail(t))) /\ Len(t) - 1 \in 1..Len(Tail(t))
      BY <1>1, <1>2, <1>5, <1>7
  <2>2. Tail(Tail(t))[Len(t) - 2] = Tail(t)[Len(t) - 2 + 1]
      BY <1>2, <1>4, <2>1, HeadTail
  <2>3. Tail(t)[Len(t) - 1] = t[Len(t) - 1 + 1]
      BY <1>1, <2>1, HeadTail
  <2>4. Len(t) - 2 + 1 = Len(t) - 1 /\ Len(t) - 1 + 1 = Len(t)
      BY <1>1
  <2> QED
      BY <1>5, <2>2, <2>3, <2>4 DEF Final
<1>8. Len(t) = 2 => Final(t) = t[2]
    BY DEF Final
<1> QED
    BY <1>6, <1>7, <1>8

\* Who may change the writer, the newest socket and its core.
WriterFrame == nsock' = nsock /\ (live' => live) /\ (live' => writer' = writer)

LEMMA WriterFrameStep ==
    ASSUME [Next]_vars
    PROVE  \/ WriterFrame \/ CoreConnects
           \/ (\E c \in Calls, st \in {0, 1} : WriteHeader(c, st)) \/ (\E c \in Calls : WriteBody(c))
<1> USE DEF WriterFrame
<1>1. \A d \in Calls : Call(d) => WriterFrame
    BY DEF Call, CallCheck, CallRegister, CallPost, CallWake, CallTimeout, CallReclaim
<1>2. Reconnect => WriterFrame
    BY DEF Reconnect, ReconnectFlush, ReconnectQueue, ReconnectStore
<1>3. Io => WriterFrame
    BY DEF Io, IoWrite, IoSwap, IoRead, IoParse, IoDeliver, IoHup, IoFlush, IoHupUnseen
<1>4. Serve \/ CoreDies => WriterFrame
    BY DEF Serve, CoreDies
<1> QED
    BY <1>1, <1>2, <1>3, <1>4 DEF Next, Core

LEMMA StreamStep ==
    Typed /\ SwapInv /\ AnswerInv /\ StreamInv /\ [Next]_vars => StreamInv'
<1> SUFFICES ASSUME Typed, SwapInv, AnswerInv, StreamInv, [Next]_vars PROVE StreamInv'
    OBVIOUS
<1>0. /\ read_buf \in Seq(Chunks) /\ toGui \in [Socks -> Seq(Chunks)]
      /\ nsock \in Nat /\ sock \in 0..nsock
      /\ live => nsock \in Socks /\ nsock >= sock
    BY DEF Typed, IoTyped, CoreTyped, Socks, SwapInv
<1>0a. sock' \in 0..nsock' /\ nsock' \in Nat
    BY IoTypedStep DEF IoTyped
<1>1. sock' = 0 => read_buf' = <<>>
  <2>1. \A d \in Calls : Call(d) => UNCHANGED <<sock, read_buf>>
      BY DEF Call, CallCheck, CallRegister, CallPost, CallWake, CallTimeout, CallReclaim
  <2>2. CoreConnects \/ Reconnect \/ Core => UNCHANGED <<sock, read_buf>>
      BY DEF CoreConnects, Reconnect, ReconnectFlush, ReconnectQueue, ReconnectStore,
             Core, Serve, CoreDies, WriteHeader, WriteBody
  <2>3. IoWrite \/ IoDeliver \/ IoHup \/ IoFlush \/ IoHupUnseen => UNCHANGED <<sock, read_buf>>
      BY DEF IoWrite, IoDeliver, IoHup, IoFlush, IoHupUnseen
  <2>4. IoRead => sock' # 0
      BY DEF IoRead
  <2>5. IoSwap => sock' # 0
    <3>1. ASSUME IoSwap PROVE ioq # <<>> /\ Head(ioq) = ioq[1] /\ 1 \in 1..Len(ioq) /\ ioq[1] \in Tasks
        BY <3>1 DEF IoSwap, Typed, IoTyped
    <3> QED
        BY <3>1 DEF IoSwap, Tasks, Socks
  <2>6. ASSUME IoParse, read_buf = <<>> PROVE UNCHANGED <<sock, read_buf>>
    <3>1. Len(read_buf) < 2
        BY <2>6, EmptySeq
    <3> QED
        BY <2>6, <3>1 DEF IoParse
  <2>7. IoParse => UNCHANGED sock
      BY DEF IoParse
  <2> QED
      BY <2>1, <2>2, <2>3, <2>4, <2>5, <2>6, <2>7 DEF StreamInv, Next, Io
<1>2. \A s \in Socks : s > nsock' => toGui'[s] = <<>>
  <2>1. nsock' >= nsock
    <3>1. CASE WriterFrame
        BY <1>0, <3>1 DEF WriterFrame
    <3>2. CASE CoreConnects
        BY <1>0, <3>2 DEF CoreConnects
    <3> QED
        BY <1>0, <3>1, <3>2, WriterFrameStep DEF WriteHeader, WriteBody
  <2>2. \A s \in Socks : s > nsock' => toGui[s] = <<>>
      BY <1>0, <1>0a, <2>1 DEF StreamInv, Socks
  <2>3. ASSUME NEW s \in Socks, s > nsock' PROVE toGui'[s] = toGui[s] \/ toGui'[s] = <<>>
    <3>1. \A d \in Calls : Call(d) => UNCHANGED toGui
        BY DEF Call, CallCheck, CallRegister, CallPost, CallWake, CallTimeout, CallReclaim
    <3>2. CoreConnects \/ Reconnect => UNCHANGED toGui
        BY DEF CoreConnects, Reconnect, ReconnectFlush, ReconnectQueue, ReconnectStore
    <3>3. IoWrite \/ IoParse \/ IoDeliver \/ IoHup \/ IoFlush \/ IoHupUnseen => UNCHANGED toGui
        BY DEF IoWrite, IoParse, IoDeliver, IoHup, IoFlush, IoHupUnseen
    <3>4. IoSwap \/ IoRead => \E t \in Socks \cup {0} : toGui' = [toGui EXCEPT ![t] = <<>>]
      <4>1. ASSUME IoSwap PROVE Head(ioq).sock \in Socks
        <5>1. ioq # <<>> /\ Head(ioq) = ioq[1] /\ ioq[1] \in Tasks
            BY <4>1 DEF IoSwap, Typed, IoTyped
        <5> QED
            BY <4>1, <5>1 DEF IoSwap, Tasks
      <4>2. IoRead => sock \in Socks
          BY <1>0 DEF IoRead, Typed, IoTyped, Socks
      <4> QED
          BY <4>1, <4>2 DEF IoSwap, IoRead
    <3>5. Core => toGui'[s] = toGui[s]
      <4>1. s # nsock
          BY <1>0, <2>1, <2>3, <1>0a DEF Socks
      <4> QED
          BY <1>0, <4>1 DEF Core, Serve, CoreDies, WriteHeader, WriteBody
    <3> QED
        BY <1>0, <3>1, <3>2, <3>3, <3>4, <3>5 DEF Next, Io
  <2> QED
      BY <2>2, <2>3
<1>3. ASSUME NEW s \in Socks, s >= sock' PROVE Responses(Stream(s))'
  <2>1. /\ s >= sock /\ Stream(s) \in Seq(Chunks)
        /\ \/ Stream(s)' = Stream(s)
           \/ \E c \in Calls, st \in {0, 1} :
                 WriteHeader(c, st) /\ s = nsock /\ Stream(s)' = Append(Stream(s), Head9(c, st))
           \/ \E c \in Calls :
                 WriteBody(c) /\ s = nsock /\ Stream(s)' = Append(Stream(s), Body(c))
           \/ /\ IoParse /\ s = sock /\ ~(Len(read_buf) < 2)
              /\ Stream(s)' = Tail(Tail(Stream(s)))
      BY <1>3, StreamChange
  <2>2. Responses(Stream(s))
      BY <2>1 DEF StreamInv
  <2>3. CASE Stream(s)' = Stream(s)
      BY <2>2, <2>3 DEF Responses
  <2>4. ASSUME NEW c \in Calls, NEW st \in {0, 1}, WriteHeader(c, st), s = nsock,
               Stream(s)' = Append(Stream(s), Head9(c, st))
        PROVE  Responses(Stream(s)')
    <3>1. Head9(c, st) \in Chunks /\ Head9(c, st).part = "head"
        BY DEF Head9, Chunks
    <3>2. Stream(s) = <<>> \/ Final(Stream(s)).part = "body"
        BY <2>4 DEF WriteHeader, StreamInv, LastOf
    <3> QED
        BY <2>1, <2>2, <2>4, <3>1, <3>2, ResponsesGrown
  <2>5. ASSUME NEW c \in Calls, WriteBody(c), s = nsock,
               Stream(s)' = Append(Stream(s), Body(c))
        PROVE  Responses(Stream(s)')
    <3>1. Body(c) \in Chunks
        BY DEF Body, Chunks
    <3>2. Stream(s) # <<>> /\ Final(Stream(s)).part # "body" /\ Final(Stream(s)).id = c
        BY <2>5 DEF WriteBody, StreamInv, LastOf
    <3> QED
        BY <2>1, <2>2, <2>5, <3>1, <3>2, ResponsesGrown
  <2>6. ASSUME s = sock, ~(Len(read_buf) < 2), Stream(s)' = Tail(Tail(Stream(s)))
        PROVE  Responses(Stream(s)')
    <3>1. read_buf \in Seq(Chunks) /\ toGui[s] \in Seq(Chunks) /\ Stream(s) = read_buf \o toGui[s]
        BY <1>0, <2>6 DEF Stream
    <3>2. ~(Len(Stream(s)) < 2)
        BY <2>6, <3>1, TwoTaken
    <3> QED
        BY <2>1, <2>2, <2>6, <3>2, ResponsesTaken
  <2>7. Responses(Stream(s)')
      BY <2>1, <2>2, <2>3, <2>4, <2>5, <2>6
  <2> QED
      BY <2>7 DEF Responses
<1>4. live' => LastOf(Stream(nsock))'
  <2> SUFFICES ASSUME live' PROVE LastOf(Stream(nsock))'
      OBVIOUS
  <2>1. CASE CoreConnects
    <3>1. /\ nsock' = nsock + 1 /\ nsock' \in Socks /\ sock' = sock /\ toGui' = toGui
          /\ writer' = None
        BY <1>0, <2>1 DEF CoreConnects, Socks, AnswerInv, DeadIdle
    <3>2. toGui[nsock'] = <<>> /\ sock' # nsock'
        BY <1>0, <3>1 DEF StreamInv, Socks
    <3>3. Stream(nsock)' = <<>>
        BY <3>1, <3>2 DEF Stream
    <3> QED
        BY <3>1, <3>3 DEF LastOf
  <2>2. CASE ~CoreConnects
    <3>1. /\ live /\ nsock' = nsock /\ nsock \in Socks /\ nsock >= sock'
          /\ LastOf(Stream(nsock))
      <4>1. live /\ nsock' = nsock
          BY <2>2, WriterFrameStep DEF WriterFrame, WriteHeader, WriteBody
      <4> QED
          BY <1>0, <1>0a, <4>1 DEF StreamInv
    <3> DEFINE t == Stream(nsock)
    <3>2. /\ t \in Seq(Chunks)
          /\ \/ t' = t
             \/ \E c \in Calls, st \in {0, 1} :
                   WriteHeader(c, st) /\ t' = Append(t, Head9(c, st))
             \/ \E c \in Calls :
                   WriteBody(c) /\ t' = Append(t, Body(c))
             \/ IoParse /\ nsock = sock /\ ~(Len(read_buf) < 2) /\ t' = Tail(Tail(t))
        BY <3>1, StreamChange DEF Stream
    <3>3. Responses(t)
        BY <1>0, <3>1 DEF StreamInv
    <3>4. ASSUME NEW c \in Calls, NEW st \in {0, 1}, WriteHeader(c, st), t' = Append(t, Head9(c, st))
          PROVE  LastOf(t)'
      <4>1. Head9(c, st) \in Chunks /\ Head9(c, st).part = "head" /\ Head9(c, st).id = c
          BY DEF Head9, Chunks
      <4>2. writer' = c /\ c # None
          BY <3>4 DEF WriteHeader
      <4>3. t = <<>> \/ Final(t).part = "body"
          BY <3>1, <3>4 DEF WriteHeader, LastOf
      <4>4. t' # <<>> /\ Final(t') = Head9(c, st)
          BY <3>2, <3>3, <3>4, <4>1, <4>3, ResponsesGrown
      <4> QED
          BY <4>1, <4>2, <4>4 DEF LastOf, Final
    <3>5. ASSUME NEW c \in Calls, WriteBody(c), t' = Append(t, Body(c))
          PROVE  LastOf(t)'
      <4>1. Body(c) \in Chunks /\ Body(c).part = "body"
          BY DEF Body, Chunks
      <4>2. writer' = None
          BY <3>5 DEF WriteBody
      <4>3. t # <<>> /\ Final(t).part # "body" /\ Final(t).id = c
          BY <3>1, <3>5 DEF WriteBody, LastOf
      <4>4. t' # <<>> /\ Final(t') = Body(c)
          BY <3>2, <3>3, <3>5, <4>1, <4>3, ResponsesGrown
      <4> QED
          BY <4>1, <4>2, <4>4 DEF LastOf, Final
    <3>6. ASSUME WriterFrame, t' = t
          PROVE  LastOf(t)'
        BY <3>1, <3>6 DEF LastOf, Final, WriterFrame
    <3>7. ASSUME IoParse, nsock = sock, ~(Len(read_buf) < 2), t' = Tail(Tail(t))
          PROVE  LastOf(t)'
      <4>1. read_buf \in Seq(Chunks) /\ toGui[nsock] \in Seq(Chunks) /\ t = read_buf \o toGui[nsock]
          BY <1>0, <3>1, <3>7 DEF Stream
      <4>2. ~(Len(t) < 2)
          BY <3>7, <4>1, TwoTaken
      <4>3. t # <<>>
          BY <4>2, EmptySeq
      <4>4. t[2].part = "body"
        <5>1. t[2] = Body(t[1].id)
            BY <3>2, <3>3, <4>2, ResponsesTaken
        <5> QED
            BY <5>1 DEF Body
      <4>5. IF t' = <<>> THEN Final(t) = t[2] ELSE Final(t') = Final(t)
          BY <3>2, <3>7, <4>2, FinalTaken
      <4>6. writer' = writer
          BY <3>7 DEF IoParse
      <4> QED
          BY <3>1, <4>3, <4>4, <4>5, <4>6 DEF LastOf, Final
    <3>8. ASSUME NEW c \in Calls, NEW st \in {0, 1}, WriteHeader(c, st)
          PROVE  t' = Append(t, Head9(c, st))
      <4>1. Head9(c, st) \in Chunks
          BY DEF Head9, Chunks
      <4>2. nsock' = nsock
          BY <3>1
      <4> QED
          BY <3>1, <3>8, <4>1, <4>2, StreamWritten DEF WriteHeader, Stream
    <3>9. ASSUME NEW c \in Calls, WriteBody(c)
          PROVE  t' = Append(t, Body(c))
      <4>1. Body(c) \in Chunks
          BY DEF Body, Chunks
      <4> QED
          BY <3>1, <3>9, <4>1, StreamWritten DEF WriteBody, Stream
    <3>10. CASE WriterFrame
        BY <3>2, <3>4, <3>5, <3>6, <3>7, <3>10
    <3>11. CASE ~WriterFrame
        BY <2>2, <3>4, <3>5, <3>8, <3>9, <3>11, WriterFrameStep
    <3> QED
        BY <3>10, <3>11
  <2> QED
      BY <2>1, <2>2
<1> QED
    BY <1>1, <1>2, <1>3, <1>4 DEF StreamInv

-----------------------------------------------------------------------------
(* The calls.                                                              *)

\* Only its own thread moves a call on.
LEMMA PcStep ==
    ASSUME [Next]_vars, NEW c \in Calls, pc \in [Calls -> Places]
    PROVE  pc'[c] = pc[c] \/ Call(c)
<1>1. ASSUME NEW d \in Calls, Call(d), d # c PROVE pc'[c] = pc[c]
    BY <1>1 DEF Call, CallCheck, CallRegister, CallPost, CallWake, CallTimeout, CallReclaim, Goto
<1>2. CoreConnects \/ Reconnect => UNCHANGED pc
    BY DEF CoreConnects, Reconnect, ReconnectFlush, ReconnectQueue, ReconnectStore
<1>3. Io => UNCHANGED pc
    BY DEF Io, IoWrite, IoSwap, IoRead, IoParse, IoDeliver, IoHup, IoFlush, IoHupUnseen
<1>4. Core => UNCHANGED pc
    BY DEF Core, Serve, CoreDies, WriteHeader, WriteBody
<1> QED
    BY <1>1, <1>2, <1>3, <1>4 DEF Next

\* A call is completed by a flush that finds it pending or by the io thread.
LEMMA ReplyStep ==
    ASSUME Typed, [Next]_vars, NEW c \in Calls
    PROVE  \/ reply'[c] = reply[c]
           \/ /\ c \in pending /\ reply'[c] = [reply[c] EXCEPT !.done = TRUE]
              /\ (ReconnectFlush \/ IoFlush)
           \/ /\ IoDeliver /\ c = claim.call
              /\ reply'[c] = [done |-> TRUE, status |-> claim.status, data |-> claim.data]
<1>0. reply \in [Calls -> Replies]
    BY DEF Typed, CallTyped
<1>1. \A d \in Calls : Call(d) => UNCHANGED reply
    BY DEF Call, CallCheck, CallRegister, CallPost, CallWake, CallTimeout, CallReclaim
<1>2. CoreConnects \/ ReconnectQueue \/ ReconnectStore \/ Core => UNCHANGED reply
    BY DEF CoreConnects, ReconnectQueue, ReconnectStore, Core, Serve, CoreDies, WriteHeader, WriteBody
<1>3. IoWrite \/ IoSwap \/ IoRead \/ IoParse \/ IoHup \/ IoHupUnseen => UNCHANGED reply
    BY DEF IoWrite, IoSwap, IoRead, IoParse, IoHup, IoHupUnseen
<1>4. ReconnectFlush \/ IoFlush =>
          reply'[c] = IF c \in pending THEN [reply[c] EXCEPT !.done = TRUE] ELSE reply[c]
    BY DEF ReconnectFlush, IoFlush, WakeAll
<1>5. IoDeliver => reply'[c] = IF c = claim.call
                               THEN [done |-> TRUE, status |-> claim.status, data |-> claim.data]
                               ELSE reply[c]
    BY <1>0 DEF IoDeliver
<1> QED
    BY <1>1, <1>2, <1>3, <1>4, <1>5 DEF Next, Reconnect, Io

\* A call enters pending by its own step.
LEMMA PendingStep ==
    ASSUME [Next]_vars, NEW c \in Calls, c \in pending'
    PROVE  c \in pending \/ CallRegister(c)
<1>1. ASSUME NEW d \in Calls, Call(d) PROVE c \in pending \/ CallRegister(c)
    BY <1>1 DEF Call, CallCheck, CallRegister, CallPost, CallWake, CallTimeout, CallReclaim
<1>2. CoreConnects \/ Reconnect => c \in pending
    BY DEF CoreConnects, Reconnect, ReconnectFlush, ReconnectQueue, ReconnectStore, WakeAll
<1>3. Io => c \in pending
    BY DEF Io, IoWrite, IoSwap, IoRead, IoParse, IoDeliver, IoHup, IoFlush, IoHupUnseen, WakeAll
<1>4. Core => c \in pending
    BY DEF Core, Serve, CoreDies, WriteHeader, WriteBody
<1> QED
    BY <1>1, <1>2, <1>3, <1>4 DEF Next

\* Only IoParse makes a claim, and only IoDeliver drops it.
LEMMA ClaimStays ==
    ASSUME [Next]_vars
    PROVE  \/ UNCHANGED <<claim, iopc>> \/ IoParse \/ IoDeliver
           \/ claim' = claim /\ iopc # "deliver" /\ iopc' # "deliver"
<1>1. \A d \in Calls : Call(d) => UNCHANGED <<claim, iopc>>
    BY DEF Call, CallCheck, CallRegister, CallPost, CallWake, CallTimeout, CallReclaim
<1>2. CoreConnects \/ Reconnect \/ Core => UNCHANGED <<claim, iopc>>
    BY DEF CoreConnects, Reconnect, ReconnectFlush, ReconnectQueue, ReconnectStore,
           Core, Serve, CoreDies, WriteHeader, WriteBody
<1>3. IoWrite \/ IoSwap \/ IoRead \/ IoHup \/ IoFlush \/ IoHupUnseen =>
          claim' = claim /\ iopc # "deliver" /\ iopc' # "deliver"
    BY DEF IoWrite, IoSwap, IoRead, IoHup, IoFlush, IoHupUnseen
<1> QED
    BY <1>1, <1>2, <1>3 DEF Next, Io

\* What IoParse hands over is the first response of the stream, whole.
LEMMA ParsedResponse ==
    ASSUME Typed, StreamInv, AnswerInv, IoParse, iopc' = "deliver"
    PROVE  /\ claim' \in Claims /\ claim'.call \in pending /\ pending' = pending \ {claim'.call}
           /\ executed[claim'.call] = 1 /\ claim'.data = Body(claim'.call)
<1>0. /\ read_buf \in Seq(Chunks) /\ toGui \in [Socks -> Seq(Chunks)]
      /\ nsock \in 0..MaxSocks /\ sock \in 0..nsock /\ pending \subseteq Calls
    BY DEF Typed, IoTyped, CoreTyped, CallTyped
<1>1. /\ ~(Len(read_buf) < 2) /\ Head(read_buf).id \in pending
      /\ claim' = [call |-> Head(read_buf).id, status |-> Head(read_buf).status, data |-> read_buf[2]]
      /\ pending' = pending \ {Head(read_buf).id}
    BY DEF IoParse
<1>2. read_buf # <<>>
    BY <1>1, EmptySeq
<1>3. sock \in Socks
    BY <1>0, <1>2 DEF StreamInv, Socks
<1> DEFINE t == Stream(sock)
<1>4. t \in Seq(Chunks) /\ t[1] = read_buf[1] /\ t[2] = read_buf[2] /\ ~(Len(t) < 2)
  <2>1. toGui[sock] \in Seq(Chunks) /\ t = read_buf \o toGui[sock]
      BY <1>0, <1>3 DEF Stream
  <2> QED
      BY <1>0, <1>1, <2>1, TwoTaken, Concatenated
<1>5. sock >= sock
    BY <1>0
<1>6. Responses(t) /\ \A i \in 1..Len(t) : executed[t[i].id] = 1
    BY <1>3, <1>5 DEF StreamInv, AnswerInv, StreamRan
<1>7. t[2] = Body(t[1].id)
    BY <1>4, <1>6, ResponsesTaken
<1>8. 1 \in 1..Len(t) /\ 2 \in 1..Len(t)
    BY <1>4
<1>9. t[1] \in Chunks /\ t[2] \in Chunks
    BY <1>4, <1>8
<1> HIDE DEF t
<1>10. Head(read_buf) = t[1] /\ read_buf[2] = t[2]
    BY <1>0, <1>2, <1>4, HeadTail
<1>11. executed[t[1].id] = 1
    BY <1>6, <1>8
<1> QED
    BY <1>1, <1>7, <1>9, <1>10, <1>11 DEF Claims, Chunks

LEMMA ClaimStep ==
    Typed /\ OnceInv /\ StreamInv /\ AnswerInv /\ ClaimInv /\ [Next]_vars => ClaimInv'
<1> SUFFICES ASSUME Typed, OnceInv, StreamInv, AnswerInv, ClaimInv, [Next]_vars PROVE ClaimInv'
    OBVIOUS
<1>0. /\ pc \in [Calls -> Places] /\ reply \in [Calls -> Replies] /\ pending \subseteq Calls
      /\ pending' \subseteq Calls
      /\ iopc = "deliver" => claim.call \in Calls
    BY CallTypedStep DEF Typed, CallTyped, ClaimInv, Claimed, Claims
<1>1. ClaimSet'
    BY ClaimStays DEF ClaimInv, ClaimSet, IoParse, IoDeliver
<1>2. Pending'
  <2> SUFFICES ASSUME NEW c \in pending'
               PROVE  pc'[c] \in {"registered", "waiting", "timedout"} /\ ~reply'[c].done
      BY DEF Pending
  <2>1. CASE CallRegister(c)
      BY <1>0, <2>1 DEF CallRegister, Goto, ClaimInv, NotBegun
  <2>2. CASE ~CallRegister(c)
    <3>1. c \in pending /\ pc[c] \in {"registered", "waiting", "timedout"} /\ ~reply[c].done
        BY <1>0, <2>2, PendingStep DEF ClaimInv, Pending
    <3>2. pc'[c] \in {"registered", "waiting", "timedout"}
      <4>1. CASE Call(c)
          BY <1>0, <3>1, <4>1 DEF Call, CallCheck, CallRegister, CallPost, CallWake,
                                  CallTimeout, CallReclaim, Goto
      <4> QED
          BY <1>0, <3>1, <4>1, PcStep
    <3>3. ~(ReconnectFlush \/ IoFlush)
        BY DEF ReconnectFlush, IoFlush, WakeAll
    <3>4. ~(IoDeliver /\ c = claim.call)
        BY <3>1 DEF IoDeliver, ClaimInv, Claimed
    <3>5. reply'[c] = reply[c]
        BY <1>0, <3>1, <3>3, <3>4, ReplyStep
    <3> QED
        BY <3>1, <3>2, <3>5
  <2> QED
      BY <2>1, <2>2
<1>3. Claimed'
  <2> SUFFICES ASSUME iopc' = "deliver"
               PROVE  /\ claim' \in Claims /\ claim'.call \notin pending' /\ ~reply'[claim'.call].done
                      /\ pc'[claim'.call] \in {"waiting", "timedout", "second"}
      BY DEF Claimed
  <2>1. CASE IoParse
    <3>1. /\ claim' \in Claims /\ claim'.call \in pending /\ claim'.call \notin pending'
          /\ executed[claim'.call] = 1
        BY <2>1, ParsedResponse
    <3>2. claim'.call \in Posted
        BY <3>1 DEF OnceInv, Ran, Claims
    <3>3. pc[claim'.call] \in {"waiting", "timedout"} /\ ~reply[claim'.call].done
        BY <3>1, <3>2 DEF Posted, ClaimInv, Pending
    <3> QED
        BY <2>1, <3>1, <3>3 DEF IoParse
  <2>2. CASE ~IoParse
    <3>1. ~IoDeliver
        BY DEF IoDeliver
    <3>2. claim' = claim /\ iopc = "deliver"
        BY <2>2, <3>1, ClaimStays
    <3> DEFINE c == claim.call
    <3>3. /\ claim \in Claims /\ c \notin pending /\ ~reply[c].done /\ c \in Calls
          /\ pc[c] \in {"waiting", "timedout", "second"}
        BY <1>0, <3>2 DEF ClaimInv, Claimed
    <3>4. reply'[c] = reply[c]
        BY <3>1, <3>3, ReplyStep
    <3>5. c \notin pending'
        BY <3>3, PendingStep DEF CallRegister, Goto
    <3>6. pc'[c] \in {"waiting", "timedout", "second"}
      <4>1. CASE Call(c)
          BY <1>0, <3>3, <4>1 DEF Call, CallCheck, CallRegister, CallPost, CallWake,
                                  CallTimeout, CallReclaim, Goto
      <4> QED
          BY <1>0, <3>3, <4>1, PcStep
    <3> QED
        BY <3>2, <3>3, <3>4, <3>5, <3>6
  <2> QED
      BY <2>1, <2>2
<1>4. ASSUME NEW c \in Calls
      PROVE  /\ pc'[c] = "failed" /\ reply'[c].done => reply'[c].status # 0
             /\ pc'[c] \in {"idle", "checked", "refused"} => ~reply'[c].done
  <2>1. CASE Call(c)
    <3>1. reply' = reply
        BY <2>1 DEF Call, CallCheck, CallRegister, CallPost, CallWake, CallTimeout, CallReclaim
    <3>2. /\ pc[c] \in {"idle", "checked", "refused"} => ~reply[c].done
          /\ c \in pending => ~reply[c].done
        BY DEF ClaimInv, NotBegun, Pending
    <3> QED
        BY <1>0, <2>1, <3>1, <3>2 DEF Call, CallCheck, CallRegister, CallPost, CallWake,
                                      CallTimeout, CallReclaim, Goto
  <2>2. CASE pc'[c] = pc[c]
    <3>1. pc[c] \in {"failed", "idle", "checked", "refused"} =>
              c \notin pending /\ ~(IoDeliver /\ c = claim.call)
        BY DEF ClaimInv, Pending, Claimed, IoDeliver
    <3>2. pc[c] \in {"failed", "idle", "checked", "refused"} => reply'[c] = reply[c]
        BY <3>1, ReplyStep
    <3> QED
        BY <2>2, <3>2 DEF ClaimInv, GivenUp, NotBegun
  <2> QED
      BY <1>0, <2>1, <2>2, PcStep
<1>5. GivenUp' /\ NotBegun'
    BY <1>4 DEF GivenUp, NotBegun
<1> QED
    BY <1>1, <1>2, <1>3, <1>5 DEF ClaimInv

LEMMA AnswerStep ==
    Typed /\ SwapInv /\ OnceInv /\ StreamInv /\ AnswerInv /\ ClaimInv /\ [Next]_vars => AnswerInv'
<1> SUFFICES ASSUME Typed, SwapInv, OnceInv, StreamInv, AnswerInv, ClaimInv, [Next]_vars
             PROVE  AnswerInv'
    OBVIOUS
<1>0. /\ pc \in [Calls -> Places] /\ reply \in [Calls -> Replies] /\ busy \subseteq Calls
      /\ executed \in [Calls -> Nat] /\ busy' \subseteq Calls
      /\ iopc = "deliver" => claim.call \in Calls
    BY CoreTypedStep DEF Typed, CallTyped, CoreTyped, ClaimInv, Claimed, Claims
<1>1. \A c \in Calls : executed[c] = 1 => executed'[c] = 1
    BY RanStays
<1>2. BusyRan' /\ WriterBusy' /\ DeadIdle'
  <2>1. CASE UNCHANGED <<busy, writer, live>>
      BY <1>0, <1>1, <2>1 DEF AnswerInv, BusyRan, WriterBusy, DeadIdle
  <2>2. CASE Serve
    <3> DEFINE c == Head(toCore[nsock])
    <3>1. nsock \in Socks /\ toCore[nsock] # <<>> /\ toCore[nsock] \in Seq(Calls)
        BY <2>2 DEF Serve, Typed, IoTyped, CoreTyped, SwapInv, Socks
    <3>2. c \in Calls /\ c = toCore[nsock][1] /\ 1 \in 1..Len(toCore[nsock])
        BY <3>1, HeadTail
    <3>3. executed[c] = 0
        BY <3>1, <3>2 DEF OnceInv, Sent
    <3>4. executed' = [executed EXCEPT ![c] = @ + 1] /\ busy' = busy \cup {c}
        BY <2>2 DEF Serve
    <3> HIDE DEF c
    <3>5. executed'[c] = 1
        BY <1>0, <3>2, <3>3, <3>4
    <3> QED
        BY <1>0, <1>1, <2>2, <3>4, <3>5 DEF Serve, AnswerInv, BusyRan, WriterBusy, DeadIdle
  <2>3. CASE CoreDies
      BY <2>3 DEF CoreDies, BusyRan, WriterBusy, DeadIdle
  <2>4. ASSUME NEW c \in Calls, NEW st \in {0, 1}, WriteHeader(c, st)
        PROVE  BusyRan' /\ WriterBusy' /\ DeadIdle'
      BY <1>0, <2>4 DEF WriteHeader, AnswerInv, BusyRan, WriterBusy, DeadIdle
  <2>5. ASSUME NEW c \in Calls, WriteBody(c)
        PROVE  BusyRan' /\ WriterBusy' /\ DeadIdle'
      BY <1>0, <2>5 DEF WriteBody, AnswerInv, BusyRan, WriterBusy, DeadIdle
  <2>6. CASE CoreConnects
      BY <1>0, <1>1, <2>6 DEF CoreConnects, AnswerInv, BusyRan, WriterBusy, DeadIdle
  <2>7. \A d \in Calls : Call(d) => UNCHANGED <<busy, writer, live>>
      BY DEF Call, CallCheck, CallRegister, CallPost, CallWake, CallTimeout, CallReclaim
  <2>8. Reconnect => UNCHANGED <<busy, writer, live>>
      BY DEF Reconnect, ReconnectFlush, ReconnectQueue, ReconnectStore
  <2>9. Io => UNCHANGED <<busy, writer, live>>
      BY DEF Io, IoWrite, IoSwap, IoRead, IoParse, IoDeliver, IoHup, IoFlush, IoHupUnseen
  <2> QED
      BY <2>1, <2>2, <2>3, <2>4, <2>5, <2>6, <2>7, <2>8, <2>9 DEF Next, Core
<1>3. StreamRan'
  <2> SUFFICES ASSUME NEW s \in Socks, s >= sock', NEW i \in 1..Len(Stream(s)')
               PROVE  executed'[Stream(s)'[i].id] = 1
      BY DEF StreamRan
  <2> DEFINE t == Stream(s)
  <2>1. /\ s >= sock /\ t \in Seq(Chunks)
        /\ \/ t' = t
           \/ \E c \in Calls, st \in {0, 1} : WriteHeader(c, st) /\ t' = Append(t, Head9(c, st))
           \/ \E c \in Calls : WriteBody(c) /\ t' = Append(t, Body(c))
           \/ IoParse /\ s = sock /\ ~(Len(read_buf) < 2) /\ t' = Tail(Tail(t))
      BY StreamChange
  <2>2. \A k \in 1..Len(t) : t[k].id \in Calls /\ executed'[t[k].id] = 1
    <3>1. \A k \in 1..Len(t) : t[k] \in Chunks
        BY <2>1
    <3>2. \A k \in 1..Len(t) : executed[t[k].id] = 1
        BY <2>1 DEF AnswerInv, StreamRan
    <3> QED
        BY <1>1, <3>1, <3>2 DEF Chunks
  <2>3. \A c \in busy : executed'[c] = 1
      BY <1>0, <1>1 DEF AnswerInv, BusyRan
  <2>4. ASSUME NEW e \in Chunks, e.id \in busy, t' = Append(t, e)
        PROVE  executed'[t'[i].id] = 1
    <3>1. /\ Len(t') = Len(t) + 1 /\ t'[Len(t) + 1] = e /\ Len(t) \in Nat
          /\ \A k \in 1..Len(t) : t'[k] = t[k]
        BY <2>1, <2>4, LastAppended
    <3>2. i \in 1..Len(t) \/ i = Len(t) + 1
        BY <3>1
    <3> QED
        BY <2>2, <2>3, <2>4, <3>1, <3>2
  <2>5. ASSUME NEW c \in Calls, NEW st \in {0, 1}, WriteHeader(c, st), t' = Append(t, Head9(c, st))
        PROVE  executed'[t'[i].id] = 1
    <3>1. Head9(c, st) \in Chunks /\ Head9(c, st).id \in busy
        BY <2>5 DEF WriteHeader, Head9, Chunks
    <3> QED
        BY <2>4, <2>5, <3>1
  <2>6. ASSUME NEW c \in Calls, WriteBody(c), t' = Append(t, Body(c))
        PROVE  executed'[t'[i].id] = 1
    <3>1. Body(c) \in Chunks /\ Body(c).id \in busy
        BY <2>6 DEF WriteBody, Body, Chunks, AnswerInv, WriterBusy
    <3> QED
        BY <2>4, <2>6, <3>1
  <2>7. ASSUME s = sock, ~(Len(read_buf) < 2), t' = Tail(Tail(t))
        PROVE  executed'[t'[i].id] = 1
    <3>1. read_buf \in Seq(Chunks) /\ toGui[s] \in Seq(Chunks) /\ t = read_buf \o toGui[s]
        BY <2>7 DEF Typed, IoTyped, CoreTyped, Stream
    <3>2. ~(Len(t) < 2)
        BY <2>7, <3>1, TwoTaken
    <3>3. i + 2 \in 1..Len(t) /\ Tail(Tail(t))[i] = t[i + 2]
        BY <2>1, <2>7, <3>2, TailTail
    <3> QED
        BY <2>2, <2>7, <3>3
  <2>8. CASE t' = t
      BY <2>2, <2>8
  <2> QED
      BY <2>1, <2>5, <2>6, <2>7, <2>8
<1>4. ClaimRan'
  <2> SUFFICES ASSUME iopc' = "deliver" PROVE executed'[claim'.call] = 1
      BY DEF ClaimRan
  <2>1. CASE IoParse
      BY <2>1, ParsedResponse DEF IoParse
  <2>2. CASE ~IoParse
    <3>1. claim' = claim /\ iopc = "deliver"
        BY <2>2, ClaimStays DEF IoDeliver
    <3> QED
        BY <1>0, <1>1, <3>1 DEF AnswerInv, ClaimRan
  <2> QED
      BY <2>1, <2>2
<1>5. ASSUME NEW c \in Calls
      PROVE  IF reply'[c].done THEN reply'[c].status = 0 => executed'[c] = 1
             ELSE reply'[c].status = 1
  <2>1. IF reply[c].done THEN reply[c].status = 0 => executed[c] = 1 ELSE reply[c].status = 1
      BY DEF AnswerInv, ReplyRan
  <2>2. CASE reply'[c] = reply[c]
      BY <1>1, <2>1, <2>2
  <2>3. CASE c \in pending /\ reply'[c] = [reply[c] EXCEPT !.done = TRUE]
    <3>1. reply[c] \in Replies /\ ~reply[c].done
        BY <1>0, <2>3 DEF ClaimInv, Pending
    <3>2. reply'[c].status = 1
        BY <2>1, <2>3, <3>1 DEF Replies
    <3> QED
        BY <2>3, <3>1, <3>2 DEF Replies
  <2>4. CASE /\ IoDeliver /\ c = claim.call
             /\ reply'[c] = [done |-> TRUE, status |-> claim.status, data |-> claim.data]
    <3>1. executed'[c] = 1
        BY <1>1, <2>4 DEF IoDeliver, AnswerInv, ClaimRan
    <3> QED
        BY <2>4, <3>1
  <2> QED
      BY <2>2, <2>3, <2>4, ReplyStep
<1>6. ASSUME NEW c \in Calls, pc'[c] = "ok"
      PROVE  reply'[c].done /\ reply'[c].status = 0
  <2>1. CASE Call(c)
      BY <1>0, <1>6, <2>1 DEF Call, CallCheck, CallRegister, CallPost, CallWake,
                              CallTimeout, CallReclaim, Goto, AnswerInv, OkReplied
  <2>2. CASE pc[c] = "ok"
    <3>1. c \notin pending /\ ~(IoDeliver /\ c = claim.call)
        BY <2>2 DEF ClaimInv, Pending, Claimed, IoDeliver
    <3>2. reply'[c] = reply[c]
        BY <3>1, ReplyStep
    <3> QED
        BY <2>2, <3>2 DEF AnswerInv, OkReplied
  <2> QED
      BY <1>0, <1>6, <2>1, <2>2, PcStep
<1>7. ReplyRan' /\ OkReplied'
    BY <1>5, <1>6 DEF ReplyRan, OkReplied
<1> QED
    BY <1>2, <1>3, <1>4, <1>7 DEF AnswerInv

LEMMA DataStep ==
    Typed /\ StreamInv /\ AnswerInv /\ ClaimInv /\ DataInv /\ [Next]_vars => DataInv'
<1> SUFFICES ASSUME Typed, StreamInv, AnswerInv, ClaimInv, DataInv, [Next]_vars PROVE DataInv'
    OBVIOUS
<1>0. reply \in [Calls -> Replies]
    BY DEF Typed, CallTyped
<1>1. iopc' = "deliver" => claim'.data = Body(claim'.call)
  <2>1. CASE IoParse
      BY <2>1, ParsedResponse
  <2>2. CASE ~IoParse
      BY <2>2, ClaimStays DEF IoDeliver, DataInv
  <2> QED
      BY <2>1, <2>2
<1>2. ASSUME NEW c \in Calls, reply'[c].done, reply'[c].status = 0
      PROVE  reply'[c].data = Body(c)
  <2>1. CASE reply'[c] = reply[c]
      BY <1>2, <2>1 DEF DataInv
  <2>2. CASE c \in pending /\ reply'[c] = [reply[c] EXCEPT !.done = TRUE]
    <3>1. reply[c] \in Replies /\ reply[c].status = 1
        BY <1>0, <2>2 DEF ClaimInv, Pending, AnswerInv, ReplyRan
    <3> QED
        BY <1>2, <2>2, <3>1 DEF Replies
  <2>3. CASE /\ IoDeliver /\ c = claim.call
             /\ reply'[c] = [done |-> TRUE, status |-> claim.status, data |-> claim.data]
      BY <2>3 DEF IoDeliver, DataInv
  <2> QED
      BY <2>1, <2>2, <2>3, ReplyStep
<1> QED
    BY <1>1, <1>2 DEF DataInv, Body

-----------------------------------------------------------------------------
(* The connection.                                                         *)

LinkFrame == UNCHANGED <<nsock, sock, live, hup, upc, connected, late>>

LEMMA LinkFrameStep ==
    ASSUME [Next]_vars
    PROVE  \/ LinkFrame \/ CoreConnects \/ Reconnect \/ CoreDies
           \/ IoSwap \/ IoHup \/ IoHupUnseen
<1> USE DEF LinkFrame
<1>1. \A d \in Calls : Call(d) => LinkFrame
    BY DEF Call, CallCheck, CallRegister, CallPost, CallWake, CallTimeout, CallReclaim
<1>2. IoWrite \/ IoRead \/ IoParse \/ IoDeliver \/ IoFlush => LinkFrame
    BY DEF IoWrite, IoRead, IoParse, IoDeliver, IoFlush
<1>3. Core => LinkFrame \/ CoreDies
    BY DEF Core, Serve, WriteHeader, WriteBody
<1> QED
    BY <1>1, <1>2, <1>3 DEF Next, Io

LEMMA LinkStep == Typed /\ SwapInv /\ LinkInv /\ [Next]_vars => LinkInv'
<1> SUFFICES ASSUME Typed, SwapInv, LinkInv, [Next]_vars PROVE LinkInv'
    OBVIOUS
<1> USE DEF LinkInv
<1>0. /\ hup \subseteq Socks /\ late \in BOOLEAN /\ live \in BOOLEAN /\ connected \in BOOLEAN
      /\ nsock \in Nat /\ sock \in Nat
    BY DEF Typed, IoTyped, CallTyped
<1>1. CASE LinkFrame
    BY <1>1 DEF LinkFrame
<1>2. CASE CoreConnects
    BY <1>2 DEF CoreConnects
<1>3. CASE Reconnect
    BY <1>3 DEF Reconnect, ReconnectFlush, ReconnectQueue, ReconnectStore
<1>4. CASE CoreDies
    BY <1>0, <1>4 DEF CoreDies
<1>5. CASE IoSwap
  <2>1. ioq # <<>> /\ Head(ioq) = ioq[1] /\ 1 \in 1..Len(ioq) /\ ioq[1] \in Tasks
      BY <1>5 DEF IoSwap, Typed, IoTyped
  <2>2. sock < ioq[1].sock /\ ioq[1].sock <= nsock /\ ioq[1].sock \in Nat
      BY <1>5, <2>1 DEF IoSwap, SwapInv, Tasks, Socks
  <2>3. sock # nsock
      BY <1>0, <2>2
  <2> QED
      BY <1>5, <2>3 DEF IoSwap
<1>6. CASE IoHup \/ IoHupUnseen
    BY <1>0, <1>6 DEF IoHup, IoHupUnseen
<1> QED
    BY <1>1, <1>2, <1>3, <1>4, <1>5, <1>6, LinkFrameStep

-----------------------------------------------------------------------------
LEMMA NextIInv == IInv /\ [Next]_vars => IInv'
BY TypedStep, SwapStep, OnceStep, StreamStep, AnswerStep, ClaimStep, DataStep, LinkStep DEF IInv

\* The strengthened invariant holds in every reachable state, for any calls and any
\* number of cores.
THEOREM ChannelInvariant == Spec => []IInv
BY InitIInv, NextIInv, PTL DEF Spec

\* Every variable of the channel keeps its type.
THEOREM ChannelTyped == Spec => []TypeOK
<1>1. IInv => TypeOK
    BY DEF IInv, Typed, CallTyped, IoTyped, CoreTyped, TypeOK, Places
<1> QED
    BY <1>1, ChannelInvariant, PTL

\* A Call that succeeds returns the payload of its own response.
THEOREM OwnAnswerHolds == Spec => []OwnAnswer
<1>1. IInv => OwnAnswer
    BY DEF IInv, DataInv, AnswerInv, OkReplied, OwnAnswer
<1> QED
    BY <1>1, ChannelInvariant, PTL

\* No call gives up on an answer the reader has claimed for it.
THEOREM ClaimedReturned == Spec => []ClaimedIsReturned
<1>1. IInv => ClaimedIsReturned
    BY DEF IInv, ClaimInv, ClaimSet, Claimed, GivenUp, ClaimedIsReturned
<1> QED
    BY <1>1, ChannelInvariant, PTL

\* At rest connected_ says whether the socket in use is alive.
THEOREM ConnectedTrue == Spec => []ConnectedIsTrue
<1>1. ASSUME IInv, AtRest, ~late PROVE connected <=> live /\ sock = nsock
  <2>1. sock = nsock
    <3>1. Len(ioq) = 0
        BY <1>1, EmptySeq DEF AtRest
    <3> QED
        BY <1>1, <3>1 DEF AtRest, IInv, SwapInv
  <2>2. connected \in BOOLEAN /\ live \in BOOLEAN
      BY <1>1 DEF IInv, Typed, CallTyped, IoTyped
  <2> QED
      BY <1>1, <2>1, <2>2 DEF AtRest, IInv, LinkInv
<1>2. IInv => ConnectedIsTrue
    BY <1>1 DEF ConnectedIsTrue
<1> QED
    BY <1>2, ChannelInvariant, PTL

-----------------------------------------------------------------------------
(* The abstract calls.                                                     *)

LEMMA StatusMoves ==
    ASSUME NEW c \in Calls, NEW q, pc \in [Calls -> Places], pc' = [pc EXCEPT ![c] = q]
    PROVE  CallStatus' = [CallStatus EXCEPT ![c] = StatusOf(q)]
BY DEF CallStatus

LEMMA InitCalls == Init => Abstract!Init
BY DEF Init, Abstract!Init, CallStatus, StatusOf

LEMMA NextCalls == IInv /\ [Next]_vars => [Abstract!Next]_<<CallStatus, executed>>
<1> SUFFICES ASSUME IInv, [Next]_vars PROVE [Abstract!Next]_<<CallStatus, executed>>
    OBVIOUS
<1>0. /\ pc \in [Calls -> Places] /\ executed \in [Calls -> Nat]
      /\ \A c \in Calls : CallStatus[c] = StatusOf(pc[c])
    BY DEF IInv, Typed, CallTyped, CoreTyped, CallStatus
<1>1. ASSUME NEW c \in Calls, Call(c) PROVE [Abstract!Next]_<<CallStatus, executed>>
  <2>0. UNCHANGED executed
      BY <1>1 DEF Call, CallCheck, CallRegister, CallPost, CallWake, CallTimeout, CallReclaim
  <2>1. PICK q : pc' = [pc EXCEPT ![c] = q]
      BY <1>1 DEF Call, CallCheck, CallRegister, CallPost, CallWake, CallTimeout, CallReclaim, Goto
  <2>2. CallStatus' = [CallStatus EXCEPT ![c] = StatusOf(q)] /\ pc'[c] = q
      BY <1>0, <2>1, StatusMoves
  <2>3. CASE CallCheck(c)
    <3>1. pc[c] = "idle" /\ q \in {"checked", "refused"}
        BY <2>2, <2>3, <1>0 DEF CallCheck, Goto
    <3>2. CallStatus[c] = "idle"
        BY <1>0, <3>1 DEF StatusOf
    <3>3. StatusOf(q) = IF q = "checked" THEN "busy" ELSE "refused"
        BY <3>1 DEF StatusOf
    <3>4. Abstract!Begin(c) \/ Abstract!Refuse(c)
        BY <2>0, <2>2, <3>1, <3>2, <3>3 DEF Abstract!Begin, Abstract!Refuse
    <3> QED
        BY <3>4 DEF Abstract!Next
  <2>4. CASE CallWake(c)
    <3>1. /\ pc[c] \in {"waiting", "second"}
          /\ reply[c].done /\ q = IF reply[c].status = 0 THEN "ok" ELSE "failed"
        BY <1>0, <2>2, <2>4 DEF CallWake
    <3>2. CallStatus[c] = "busy"
        BY <1>0, <3>1 DEF StatusOf
    <3>3. StatusOf(q) = q
        BY <3>1 DEF StatusOf
    <3>4. reply[c].status = 0 => executed[c] = 1
        BY <3>1 DEF IInv, AnswerInv, ReplyRan
    <3>5. Abstract!Succeed(c) \/ Abstract!Fail(c)
        BY <2>0, <2>2, <3>1, <3>2, <3>3, <3>4 DEF Abstract!Succeed, Abstract!Fail
    <3> QED
        BY <3>5 DEF Abstract!Next
  <2>5. CASE CallReclaim(c) /\ q = "failed"
    <3>1. CallStatus[c] = "busy" /\ StatusOf(q) = "failed"
        BY <1>0, <2>5 DEF CallReclaim, Goto, StatusOf
    <3>2. Abstract!Fail(c)
        BY <2>0, <2>2, <3>1 DEF Abstract!Fail
    <3> QED
        BY <3>2 DEF Abstract!Next
  <2>6. CASE CallRegister(c) \/ CallPost(c) \/ CallTimeout(c) \/ (CallReclaim(c) /\ q # "failed")
    <3>1. CallStatus[c] = "busy" /\ StatusOf(q) = "busy"
        BY <1>0, <2>2, <2>6 DEF CallRegister, CallPost, CallTimeout, CallReclaim, Goto, StatusOf
    <3>2. CallStatus' = CallStatus
        BY <2>2, <3>1 DEF CallStatus
    <3> QED
        BY <2>0, <3>2
  <2> QED
      BY <1>1, <2>3, <2>4, <2>5, <2>6 DEF Call
<1>2. UNCHANGED pc => UNCHANGED CallStatus
    BY DEF CallStatus
<1>3. CASE Serve
  <2> DEFINE c == Head(toCore[nsock])
  <2>1. nsock \in Socks /\ toCore[nsock] # <<>> /\ toCore[nsock] \in Seq(Calls)
      BY <1>3 DEF Serve, IInv, Typed, IoTyped, CoreTyped, SwapInv, Socks
  <2>2. c \in Calls /\ c = toCore[nsock][1] /\ 1 \in 1..Len(toCore[nsock])
      BY <2>1, HeadTail
  <2>3. executed[c] = 0 /\ c \in Posted
      BY <2>1, <2>2 DEF IInv, OnceInv, Sent
  <2>4. executed' = [executed EXCEPT ![c] = @ + 1] /\ UNCHANGED pc
      BY <1>3 DEF Serve
  <2> HIDE DEF c
  <2>5. executed' = [executed EXCEPT ![c] = 1]
      BY <1>0, <2>2, <2>3, <2>4
  <2>6. pc[c] # "ok"
      BY <2>2, <2>3 DEF IInv, AnswerInv, OkReplied, ReplyRan
  <2>7. CallStatus[c] \in {"busy", "failed"}
      BY <1>0, <2>2, <2>3, <2>6 DEF Posted, StatusOf
  <2>8. Abstract!Run(c)
      BY <1>2, <2>3, <2>4, <2>5, <2>7 DEF Abstract!Run
  <2> QED
      BY <2>2, <2>8 DEF Abstract!Next
<1>4. CoreConnects \/ Reconnect => UNCHANGED <<pc, executed>>
    BY DEF CoreConnects, Reconnect, ReconnectFlush, ReconnectQueue, ReconnectStore
<1>5. Io => UNCHANGED <<pc, executed>>
    BY DEF Io, IoWrite, IoSwap, IoRead, IoParse, IoDeliver, IoHup, IoFlush, IoHupUnseen
<1>6. Core => Serve \/ UNCHANGED <<pc, executed>>
    BY DEF Core, CoreDies, WriteHeader, WriteBody
<1> QED
    BY <1>1, <1>2, <1>3, <1>4, <1>5, <1>6 DEF Next

\* A Call that succeeded was executed, and none is executed twice: the channel
\* implements the abstract calls of RpcCalls.
THEOREM ChannelImplementsCalls == Spec => ImplementsCalls
BY InitCalls, NextCalls, ChannelInvariant, PTL DEF Spec, ImplementsCalls, Abstract!Spec
=============================================================================
