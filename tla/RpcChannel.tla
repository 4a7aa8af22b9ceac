----------------------------- MODULE RpcChannel -----------------------------
(***************************************************************************)
(* The GUI's connection to the core: LocalSocketChannel of src/api/RPC.cpp *)
(* on one side, Serve of core/internal/rpc/dispatch.go on the other.       *)
(*                                                                         *)
(* Processes: the threads inside Call, the UI thread inside Reconnect, the *)
(* io thread (one event loop: queued writes and socket swaps in FIFO order *)
(* and the signals of the current socket), and the core, which dies and is *)
(* replaced by one on a new socket.  A response crosses the socket in two  *)
(* writes, header and payload, and may be read after the first.            *)
(***************************************************************************)
EXTENDS Integers, Sequences, FiniteSets

CONSTANTS
    Calls,      \* one per Call(); stands for its request id, never reused
    MaxSocks,   \* bound on the number of core connections
    None

ASSUME ChannelAssumption ==
    /\ MaxSocks \in Nat /\ None \notin Calls

VARIABLES
    connected,  \* connected_
    pending,    \* ids in the pending map
    pc,         \* program counter of each Call
    reply,      \* its PendingCall: [done, status, data]
    upc,        \* UI thread inside Reconnect
    ioq,        \* tasks queued to io_anchor
    iopc,       \* io thread: in its loop, parsing, delivering, flushing
    claim,      \* the call whose response the io thread took out of pending
    sock,       \* the socket it uses, 0 before the first
    read_buf,   \* chunks read and not yet parsed
    nsock,      \* sockets connected so far
    live,       \* whether the newest socket's core is alive
    hup,        \* sockets whose disconnect the io thread has not seen
    toCore,     \* requests on their way, per socket
    toGui,      \* response chunks on their way, per socket
    busy,       \* requests the live core's goroutines are executing
    writer,     \* who holds writeMu between header and payload
    executed,   \* how often a core executed each request
    late        \* history: a core connected or died before the io thread had
                \* caught up with the one before

callVars == <<pc, reply>>
ioVars == <<ioq, iopc, claim, sock, read_buf>>
coreVars == <<toCore, busy, writer, executed>>
linkVars == <<nsock, live, hup>>
vars == <<connected, pending, callVars, upc, ioVars, linkVars, toGui, coreVars,
          late>>

Socks == 1..MaxSocks
Head9(c, st) == [id |-> c, part |-> "head", status |-> st]
Body(c) == [id |-> c, part |-> "body", status |-> 0]
Chunks == [id : Calls, part : {"head", "body"}, status : {0, 1}]

Init ==
    /\ connected = FALSE /\ pending = {}
    /\ pc = [c \in Calls |-> "idle"]
    /\ reply = [c \in Calls |-> [done |-> FALSE, status |-> 1, data |-> None]]
    /\ upc = "idle"
    /\ ioq = <<>> /\ iopc = "loop" /\ claim = None
    /\ sock = 0 /\ read_buf = <<>>
    /\ nsock = 0 /\ live = FALSE /\ hup = {}
    /\ toCore = [s \in Socks |-> <<>>] /\ toGui = [s \in Socks |-> <<>>]
    /\ busy = {} /\ writer = None
    /\ executed = [c \in Calls |-> 0]
    /\ late = FALSE

-----------------------------------------------------------------------------
(* Call.                                                                   *)

Goto(c, p, q) == pc[c] = p /\ pc' = [pc EXCEPT ![c] = q]

CallCheck(c) ==
    /\ Goto(c, "idle", IF connected THEN "checked" ELSE "refused")
    /\ UNCHANGED <<connected, pending, reply, upc, ioVars, linkVars, toGui,
                   coreVars, late>>

CallRegister(c) ==
    /\ Goto(c, "checked", "registered")
    /\ pending' = pending \cup {c}
    /\ UNCHANGED <<connected, reply, upc, ioVars, linkVars, toGui,
                   coreVars, late>>

\* The frame is queued to the io thread.
CallPost(c) ==
    /\ Goto(c, "registered", "waiting")
    /\ ioq' = Append(ioq, [op |-> "write", call |-> c])
    /\ UNCHANGED <<connected, pending, reply, upc, iopc, claim, sock,
                   read_buf, linkVars, toGui, coreVars, late>>

\* wait_for returns with done set.
CallWake(c) ==
    /\ reply[c].done
    /\ pc[c] \in {"waiting", "second"}
    /\ pc' = [pc EXCEPT ![c] = IF reply[c].status = 0 THEN "ok" ELSE "failed"]
    /\ UNCHANGED <<connected, pending, reply, upc, ioVars, linkVars,
                   toGui, coreVars, late>>

\* Mutant: the frame is sent again when no answer came in time.
CallTimeout_Resend(c) ==
    /\ ~reply[c].done
    /\ Goto(c, "waiting", "waiting")
    /\ ioq' = Append(ioq, [op |-> "write", call |-> c])
    /\ UNCHANGED <<connected, pending, reply, upc, iopc, claim, sock,
                   read_buf, linkVars, toGui, coreVars, late>>

CallTimeout(c) ==
    /\ ~reply[c].done
    /\ Goto(c, "waiting", "timedout")
    /\ UNCHANGED <<connected, pending, reply, upc, ioVars, linkVars,
                   toGui, coreVars, late>>

\* Mutant: a call whose answer was already claimed gives up as well.
CallReclaim_NoSecondWait(c) ==
    /\ Goto(c, "timedout", "failed")
    /\ pending' = pending \ {c}
    /\ UNCHANGED <<connected, reply, upc, ioVars, linkVars, toGui,
                   coreVars, late>>

\* The slot is reclaimed, unless the reader took it: then wait once more.
CallReclaim(c) ==
    /\ Goto(c, "timedout", IF c \in pending THEN "failed" ELSE "second")
    /\ pending' = pending \ {c}
    /\ UNCHANGED <<connected, reply, upc, ioVars, linkVars, toGui,
                   coreVars, late>>

-----------------------------------------------------------------------------
(* Reconnect, on the UI thread, for the socket of a core that connected.   *)

\* wakeAllWithError after connected_ was cleared: every pending call is done,
\* with the status it was created with.
WakeAll ==
    /\ reply' = [c \in Calls |-> IF c \in pending
                                 THEN [reply[c] EXCEPT !.done = TRUE]
                                 ELSE reply[c]]
    /\ pending' = {}

CoreConnects ==
    /\ upc = "idle"
    /\ ~live /\ nsock < MaxSocks
    /\ late' = (late \/ hup # {})
    /\ nsock' = nsock + 1 /\ live' = TRUE
    /\ connected' = FALSE
    /\ upc' = "flush"
    /\ UNCHANGED <<pending, callVars, ioVars, hup, toGui, coreVars>>

ReconnectFlush ==
    /\ upc = "flush" /\ upc' = "queue"
    /\ WakeAll
    /\ UNCHANGED <<connected, pc, ioVars, linkVars, toGui, coreVars,
                   late>>

ReconnectQueue ==
    /\ upc = "queue" /\ upc' = "store"
    /\ ioq' = Append(ioq, [op |-> "swap", sock |-> nsock])
    /\ UNCHANGED <<connected, pending, callVars, iopc, claim, sock, read_buf,
                   linkVars, toGui, coreVars, late>>

ReconnectStore ==
    /\ upc = "store" /\ upc' = "idle"
    /\ connected' = TRUE
    /\ UNCHANGED <<pending, callVars, ioVars, linkVars, toGui, coreVars, late>>

-----------------------------------------------------------------------------
(* The io thread.                                                          *)

\* A queued write; on a socket that is closed it is lost.
IoWrite ==
    /\ iopc = "loop"
    /\ ioq # <<>> /\ Head(ioq).op = "write"
    /\ ioq' = Tail(ioq)
    /\ LET c == Head(ioq).call
       IN  toCore' = IF sock = nsock /\ live
                     THEN [toCore EXCEPT ![sock] = Append(@, c)]
                     ELSE toCore
    /\ UNCHANGED <<connected, pending, callVars, upc, iopc, claim, sock,
                   read_buf, linkVars, toGui, busy, writer, executed, late>>

\* The queued swap: the old socket's signals are disconnected with it, its
\* partial response is dropped, and what the new one already holds is read.
IoSwap ==
    /\ iopc = "loop"
    /\ ioq # <<>> /\ Head(ioq).op = "swap"
    /\ ioq' = Tail(ioq)
    /\ sock' = Head(ioq).sock
    /\ hup' = hup \ {sock}
    /\ read_buf' = toGui[Head(ioq).sock]
    /\ toGui' = [toGui EXCEPT ![Head(ioq).sock] = <<>>]
    /\ iopc' = "parse"
    /\ UNCHANGED <<connected, pending, callVars, upc, claim, nsock, live,
                   coreVars, late>>

\* onReadyRead.
IoRead ==
    /\ iopc = "loop" /\ sock # 0
    /\ toGui[sock] # <<>>
    /\ read_buf' = read_buf \o toGui[sock]
    /\ toGui' = [toGui EXCEPT ![sock] = <<>>]
    /\ iopc' = "parse"
    /\ UNCHANGED <<connected, pending, callVars, upc, ioq, claim, sock,
                   linkVars, coreVars, late>>

\* processBuffer: a complete response is taken off, its call out of pending.
IoParse ==
    /\ iopc = "parse"
    /\ IF Len(read_buf) < 2
       THEN /\ iopc' = "loop"
            /\ UNCHANGED <<claim, pending, read_buf>>
       ELSE /\ read_buf' = Tail(Tail(read_buf))
            /\ LET c == Head(read_buf).id
               IN  IF c \in pending
                   THEN /\ claim' = [call |-> c, status |-> Head(read_buf).status,
                                     data |-> read_buf[2]]
                        /\ pending' = pending \ {c}
                        /\ iopc' = "deliver"
                   ELSE UNCHANGED <<claim, pending, iopc>>
    /\ UNCHANGED <<connected, callVars, upc, ioq, sock, linkVars, toGui,
                   coreVars, late>>

IoDeliver ==
    /\ iopc = "deliver" /\ iopc' = "parse"
    /\ reply' = [reply EXCEPT ![claim.call] =
                    [done |-> TRUE, status |-> claim.status,
                     data |-> claim.data]]
    /\ claim' = None
    /\ UNCHANGED <<connected, pending, pc, upc, ioq, sock, read_buf,
                   linkVars, toGui, coreVars, late>>

\* Mutant: a disconnect wakes the calls but leaves connected_ set.
IoHup_StaysConnected ==
    /\ iopc = "loop" /\ sock \in hup
    /\ hup' = hup \ {sock}
    /\ iopc' = "flush"
    /\ UNCHANGED <<connected, pending, callVars, upc, ioq, claim, sock,
                   read_buf, nsock, live, toGui, coreVars, late>>

\* disconnected of the current socket: wakeAllWithError.
IoHup ==
    /\ iopc = "loop" /\ sock \in hup
    /\ hup' = hup \ {sock}
    /\ connected' = FALSE
    /\ iopc' = "flush"
    /\ UNCHANGED <<pending, callVars, upc, ioq, claim, sock, read_buf, nsock,
                   live, toGui, coreVars, late>>

IoFlush ==
    /\ iopc = "flush" /\ iopc' = "loop"
    /\ WakeAll
    /\ UNCHANGED <<connected, pc, upc, ioq, claim, sock, read_buf,
                   linkVars, toGui, coreVars, late>>

\* A socket that closes before its swap ran has no slot connected to the signal.
IoHupUnseen ==
    /\ iopc = "loop"
    /\ \E s \in hup : s > sock /\ hup' = hup \ {s}
    /\ UNCHANGED <<connected, pending, callVars, upc, ioVars, nsock, live,
                   toGui, coreVars, late>>

-----------------------------------------------------------------------------
(* The core: Serve gives every request a goroutine, writeMu serialises the *)
(* two writes of a response.                                               *)

Serve ==
    /\ live /\ toCore[nsock] # <<>>
    /\ toCore' = [toCore EXCEPT ![nsock] = Tail(@)]
    /\ busy' = busy \cup {Head(toCore[nsock])}
    /\ executed' = [executed EXCEPT ![Head(toCore[nsock])] = @ + 1]
    /\ UNCHANGED <<connected, pending, callVars, upc, ioVars, linkVars, toGui,
                   writer, late>>

\* Mutant: writeMu does not cover both writes of a response.
WriteHeader_NoLock(c, st) ==
    /\ live /\ c \in busy /\ writer # c
    /\ writer' = c
    /\ toGui' = [toGui EXCEPT ![nsock] = Append(@, Head9(c, st))]
    /\ UNCHANGED <<connected, pending, callVars, upc, ioVars, linkVars, toCore,
                   busy, executed, late>>

WriteHeader(c, st) ==
    /\ live /\ c \in busy /\ writer = None
    /\ writer' = c
    /\ toGui' = [toGui EXCEPT ![nsock] = Append(@, Head9(c, st))]
    /\ UNCHANGED <<connected, pending, callVars, upc, ioVars, linkVars, toCore,
                   busy, executed, late>>

WriteBody(c) ==
    /\ live /\ writer = c
    /\ writer' = None
    /\ busy' = busy \ {c}
    /\ toGui' = [toGui EXCEPT ![nsock] = Append(@, Body(c))]
    /\ UNCHANGED <<connected, pending, callVars, upc, ioVars, linkVars, toCore,
                   executed, late>>

CoreDies ==
    /\ live /\ live' = FALSE
    /\ late' = (late \/ sock # nsock \/ upc # "idle")
    /\ hup' = hup \cup {nsock}
    /\ toCore' = [toCore EXCEPT ![nsock] = <<>>]
    /\ busy' = {} /\ writer' = None
    /\ UNCHANGED <<connected, pending, callVars, upc, ioVars, nsock, toGui,
                   executed>>

-----------------------------------------------------------------------------
Call(c) == CallCheck(c) \/ CallRegister(c) \/ CallPost(c) \/ CallWake(c)
              \/ CallTimeout(c) \/ CallReclaim(c)
Reconnect == ReconnectFlush \/ ReconnectQueue \/ ReconnectStore
Io == IoWrite \/ IoSwap \/ IoRead \/ IoParse \/ IoDeliver \/ IoHup \/ IoFlush
         \/ IoHupUnseen
Core == \/ Serve \/ CoreDies
        \/ \E c \in Calls, st \in {0, 1} : WriteHeader(c, st)
        \/ \E c \in Calls : WriteBody(c)

Next == (\E c \in Calls : Call(c)) \/ CoreConnects \/ Reconnect \/ Io \/ Core

Spec == Init /\ [][Next]_vars

-----------------------------------------------------------------------------
(* Properties.                                                             *)

\* The variables of the channel keep their types.
TypeOK ==
    /\ connected \in BOOLEAN /\ pending \subseteq Calls
    /\ pc \in [Calls -> {"idle", "checked", "registered", "waiting", "timedout",
                         "second", "ok", "failed", "refused"}]
    /\ upc \in {"idle", "flush", "queue", "store"}
    /\ iopc \in {"loop", "parse", "deliver", "flush"}
    /\ nsock \in 0..MaxSocks /\ sock \in 0..nsock
    /\ hup \subseteq Socks /\ live \in BOOLEAN
    /\ read_buf \in Seq(Chunks)
    /\ \A s \in Socks : toGui[s] \in Seq(Chunks) /\ toCore[s] \in Seq(Calls)
    /\ busy \subseteq Calls /\ executed \in [Calls -> Nat]

\* A Call that succeeds returns the payload of its own response, whole, whatever
\* was left unread of an earlier connection.
OwnAnswer ==
    \A c \in Calls : pc[c] = "ok" => reply[c].data = Body(c)

\* A call never gives up on an answer the reader has already claimed for it,
\* however its timeout and the reader interleave.
ClaimedIsReturned ==
    /\ claim # None => pc[claim.call] # "failed"
    /\ \A c \in Calls : reply[c].done /\ reply[c].status = 0 => pc[c] # "failed"

\* When every thread has come to rest, connected_ says whether the socket in use
\* is alive: calls are neither refused on a good connection nor left to time out
\* on a dead one.  This needs that the io thread was never a whole core behind.
AtRest == upc = "idle" /\ iopc = "loop" /\ ioq = <<>> /\ hup = {}
ConnectedIsTrue == AtRest /\ ~late => (connected <=> live /\ sock = nsock)

-----------------------------------------------------------------------------
\* The channel implements the abstract calls.
StatusOf(p) == IF p \in {"idle", "ok", "failed", "refused"} THEN p ELSE "busy"
CallStatus == [c \in Calls |-> StatusOf(pc[c])]
Abstract == INSTANCE RpcCalls WITH ran <- executed, status <- CallStatus

\* A Call that succeeded was executed, and none is executed twice.
ImplementsCalls == Abstract!Spec
=============================================================================
