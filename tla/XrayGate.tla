------------------------------ MODULE XrayGate ------------------------------
(***************************************************************************)
(* The on-demand gate in front of an Xray sidecar,                         *)
(* core/internal/xray/gate.go.  A gate owns the inbound ports of a config; *)
(* Xray itself listens on moved ports and is started by the first dial and *)
(* closed again by a sweeper once nobody has used it for a while.          *)
(*                                                                         *)
(* Processes: one handler goroutine per client connection, the sweeper     *)
(* goroutine, and the callers of Close.  An action is one step between two *)
(* points at which another goroutine can observe the gate: a critical      *)
(* section of mu or connsMu, an atomic load or store, a socket operation,  *)
(* or a call into Xray.                                                    *)
(***************************************************************************)
EXTENDS Integers, FiniteSets

CONSTANTS
    Conns,       \* client connections; one that ended may dial again
    Instances,   \* identities for Xray instances, reused once closed
    Closers,     \* goroutines that call Close, again and again
    Idle,        \* the idle time; 0 keeps the instance resident
    None         \* no instance, nobody holds mu

ASSUME GateAssumption ==
    /\ IsFiniteSet(Conns)
    /\ Idle \in Nat
    /\ None \notin Conns \cup Instances

VARIABLES
    mu,           \* the handler that holds g.mu across its calls into Xray
    instance,     \* g.instance
    closed,       \* g.closed
    stopped,      \* g.stopped and the listeners have been closed
    conns,        \* g.conns: the tracked sockets
    connsNil,     \* g.conns is nil
    open,         \* the sockets this process holds open
    active,       \* g.active
    quiet,        \* time.Since(g.lastUse) >= g.idle
    pc,           \* program counter of each connection's handler
    relays,       \* directions its relay goroutines still copy
    up,           \* the instance its upstream socket leads to
    xray,         \* state of each Xray instance
    spc, sinst,   \* sweeper: program counter and its local `instance`
    cpc, cinst,   \* closer: program counter and its local `instance`
    taken         \* closer: its local `conns`

gateVars == <<mu, instance, closed, stopped>>
connVars == <<conns, connsNil, open>>
useVars == <<active, quiet>>
handlerVars == <<pc, relays, up>>
sweepVars == <<spc, sinst>>
closeVars == <<cpc, cinst, taken>>
vars == <<gateVars, connVars, useVars, handlerVars, xray, sweepVars, closeVars>>

Directions == {"out", "in"}                 \* client to Xray, Xray to client
Sockets == Conns \X {"conn", "upstream"}

\* A started instance holds the moved ports until its Close returns.
Live == {i \in Instances : xray[i] = "listening"}

\* StartGate: every gated port is bound, serve and sweep are running.
Init ==
    /\ mu = None /\ instance = None
    /\ closed = FALSE /\ stopped = FALSE
    /\ conns = {} /\ connsNil = FALSE /\ open = {}
    /\ active = 0 /\ quiet = FALSE
    /\ pc = [c \in Conns |-> "away"]
    /\ relays = [c \in Conns |-> {}]
    /\ up = [c \in Conns |-> None]
    /\ xray = [i \in Instances |-> "none"]
    /\ spc = "tick" /\ sinst = None
    /\ cpc = [k \in Closers |-> "out"]
    /\ cinst = [k \in Closers |-> None]
    /\ taken = [k \in Closers |-> {}]

-----------------------------------------------------------------------------
(* serve and handle.                                                       *)

\* Handler c moves from program point p to q.
Goto(c, p, q) == pc[c] = p /\ pc' = [pc EXCEPT ![c] = q]

\* serve: a listener accepts the client's socket and starts its handler.
serve(c) ==
    /\ ~stopped
    /\ Goto(c, "away", "accepted")
    /\ open' = open \cup {<<c, "conn">>}
    /\ UNCHANGED <<gateVars, conns, connsNil, useVars, relays, up, xray,
                   sweepVars, closeVars>>

\* Mutant: the nil test of track is dropped.
track_NoNilTest(s) == conns' = conns \cup {s}

track(s) == ~connsNil /\ conns' = conns \cup {s}

\* forget, with the Close that follows it in both deferred functions.
forget(s) == conns' = conns \ {s} /\ open' = open \ {s}

touch == quiet' = FALSE

TrackConn(c) ==
    /\ Goto(c, "accepted", "tracked")
    /\ track(<<c, "conn">>)
    /\ UNCHANGED <<gateVars, connsNil, open, useVars, relays, up, xray,
                   sweepVars, closeVars>>

RejectConn(c) ==
    /\ connsNil
    /\ Goto(c, "accepted", "away")
    /\ open' = open \ {<<c, "conn">>}
    /\ UNCHANGED <<gateVars, conns, connsNil, useVars, relays, up, xray,
                   sweepVars, closeVars>>

Count(c) ==
    /\ Goto(c, "tracked", "counted")
    /\ active' = active + 1
    /\ UNCHANGED <<gateVars, connVars, quiet, relays, up, xray, sweepVars,
                   closeVars>>

Touch(c) ==
    /\ Goto(c, "counted", "ensure")
    /\ touch
    /\ UNCHANGED <<gateVars, connVars, active, relays, up, xray, sweepVars,
                   closeVars>>

\* ensure returns an error, also when CreateXrayInstance does.
EnsureError(c) ==
    /\ mu = None
    /\ closed \/ instance = None
    /\ Goto(c, "ensure", "uncount")
    /\ UNCHANGED <<gateVars, connVars, useVars, relays, up, xray, sweepVars,
                   closeVars>>

EnsureHit(c) ==
    /\ mu = None
    /\ ~closed /\ instance # None
    /\ Goto(c, "ensure", "dial")
    /\ UNCHANGED <<gateVars, connVars, useVars, relays, up, xray, sweepVars,
                   closeVars>>

\* Mutant: g.closed is not tested under mu.
EnsureCreate_Closed(c) ==
    /\ mu = None
    /\ instance = None
    /\ \E i \in Instances : /\ xray[i] = "none"
                            /\ xray' = [xray EXCEPT ![i] = "created"]
    /\ Goto(c, "ensure", "starting")
    /\ mu' = c
    /\ UNCHANGED <<instance, closed, stopped, connVars, useVars, relays, up,
                   sweepVars, closeVars>>

\* CreateXrayInstance; mu stays locked for prepare and Start.
EnsureCreate(c) ==
    /\ mu = None
    /\ ~closed /\ instance = None
    /\ \E i \in Instances : /\ xray[i] = "none"
                            /\ xray' = [xray EXCEPT ![i] = "created"]
    /\ Goto(c, "ensure", "starting")
    /\ mu' = c
    /\ UNCHANGED <<instance, closed, stopped, connVars, useVars, relays, up,
                   sweepVars, closeVars>>

\* prepare and Start, which needs the moved ports: none may still hold them.
EnsureStart(c) ==
    /\ Goto(c, "starting", "dial")
    /\ Live = {}
    /\ \E i \in Instances : /\ xray[i] = "created"
                            /\ xray' = [xray EXCEPT ![i] = "listening"]
                            /\ instance' = i
    /\ mu' = None
    /\ UNCHANGED <<closed, stopped, connVars, useVars, relays, up, sweepVars,
                   closeVars>>

\* Mutant: an error path returns with mu locked.
EnsureFail_KeepsLock(c) ==
    /\ Goto(c, "starting", "uncount")
    /\ xray' = [i \in Instances |->
                  IF xray[i] = "created" THEN "none" ELSE xray[i]]
    /\ UNCHANGED <<gateVars, connVars, useVars, relays, up, sweepVars,
                   closeVars>>

\* prepare or Start fails: the instance is closed before mu is released.
EnsureFail(c) ==
    /\ Goto(c, "starting", "uncount")
    /\ xray' = [i \in Instances |->
                  IF xray[i] = "created" THEN "none" ELSE xray[i]]
    /\ mu' = None
    /\ UNCHANGED <<instance, closed, stopped, connVars, useVars, relays, up,
                   sweepVars, closeVars>>

ensure(c) ==
    \/ EnsureError(c) \/ EnsureHit(c) \/ EnsureCreate(c)
    \/ EnsureStart(c) \/ EnsureFail(c)

\* net.Dial of the moved port reaches whichever instance listens there.
Dial(c) ==
    /\ Goto(c, "dial", "dialed")
    /\ \E i \in Live : up' = [up EXCEPT ![c] = i]
    /\ open' = open \cup {<<c, "upstream">>}
    /\ UNCHANGED <<gateVars, conns, connsNil, useVars, relays, xray, sweepVars,
                   closeVars>>

\* Mutant: the early return skips the deferred active.Add(-1).
DialRefused_StaysCounted(c) ==
    /\ Goto(c, "dial", "forget")
    /\ Live = {}
    /\ UNCHANGED <<gateVars, connVars, useVars, relays, up, xray, sweepVars,
                   closeVars>>

DialRefused(c) ==
    /\ Goto(c, "dial", "uncount")
    /\ Live = {}
    /\ UNCHANGED <<gateVars, connVars, useVars, relays, up, xray, sweepVars,
                   closeVars>>

TrackUpstream(c) ==
    /\ Goto(c, "dialed", "relay")
    /\ track(<<c, "upstream">>)
    /\ relays' = [relays EXCEPT ![c] = Directions]
    /\ UNCHANGED <<gateVars, connsNil, open, useVars, up, xray, sweepVars,
                   closeVars>>

RejectUpstream(c) ==
    /\ connsNil
    /\ Goto(c, "dialed", "uncount")
    /\ open' = open \ {<<c, "upstream">>}
    /\ up' = [up EXCEPT ![c] = None]
    /\ UNCHANGED <<gateVars, conns, connsNil, useVars, relays, xray, sweepVars,
                   closeVars>>

\* relay: its source reports EOF or an error.
relay(c, d) ==
    /\ pc[c] = "relay" /\ d \in relays[c]
    /\ relays' = [relays EXCEPT ![c] = @ \ {d}]
    /\ UNCHANGED <<gateVars, connVars, useVars, pc, up, xray, sweepVars,
                   closeVars>>

\* The source of the relay was closed on this side, or its instance was.
Severed(c, d) ==
    \/ d = "out" /\ <<c, "conn">> \notin open
    \/ d = "in" /\ (<<c, "upstream">> \notin open \/ up[c] = None)

ForgetUpstream(c) ==
    /\ relays[c] = {}
    /\ Goto(c, "relay", "uncount")
    /\ forget(<<c, "upstream">>)
    /\ up' = [up EXCEPT ![c] = None]
    /\ UNCHANGED <<gateVars, connsNil, useVars, relays, xray, sweepVars,
                   closeVars>>

Uncount(c) ==
    /\ Goto(c, "uncount", "retouch")
    /\ active' = active - 1
    /\ UNCHANGED <<gateVars, connVars, quiet, relays, up, xray, sweepVars,
                   closeVars>>

Retouch(c) ==
    /\ Goto(c, "retouch", "forget")
    /\ touch
    /\ UNCHANGED <<gateVars, connVars, active, relays, up, xray, sweepVars,
                   closeVars>>

ForgetConn(c) ==
    /\ Goto(c, "forget", "away")
    /\ forget(<<c, "conn">>)
    /\ UNCHANGED <<gateVars, connsNil, useVars, relays, up, xray, sweepVars,
                   closeVars>>

handle(c) ==
    \/ TrackConn(c) \/ RejectConn(c) \/ Count(c) \/ Touch(c)
    \/ ensure(c)
    \/ Dial(c) \/ DialRefused(c) \/ TrackUpstream(c) \/ RejectUpstream(c)
    \/ ForgetUpstream(c) \/ Uncount(c) \/ Retouch(c) \/ ForgetConn(c)

-----------------------------------------------------------------------------
(* sweep.                                                                  *)

SweepGoto(p, q) == spc = p /\ spc' = q

\* instance.Close(): its ports are free and its connections are cut.
XrayClose(i) ==
    /\ xray' = [xray EXCEPT ![i] = "none"]
    /\ up' = [c \in Conns |-> IF up[c] = i THEN None ELSE up[c]]

\* A tick that finds g.idle > 0 and g.active.Load() = 0.
SweepActive ==
    /\ Idle > 0 /\ active = 0
    /\ SweepGoto("tick", "since")
    /\ UNCHANGED <<gateVars, connVars, useVars, handlerVars, xray, sinst,
                   closeVars>>

\* time.Since(lastUse) against g.idle.
SweepSince ==
    /\ SweepGoto("since", IF quiet THEN "take" ELSE "tick")
    /\ UNCHANGED <<gateVars, connVars, useVars, handlerVars, xray, sinst,
                   closeVars>>

\* Mutant: the instance is closed but stays in the slot.
SweepTake_KeepsSlot ==
    /\ mu = None
    /\ SweepGoto("take", IF instance = None THEN "tick" ELSE "close")
    /\ sinst' = instance
    /\ UNCHANGED <<gateVars, connVars, useVars, handlerVars, xray, closeVars>>

\* Mutant: the slot is cleared but the instance is never closed.
SweepTake_NoClose ==
    /\ mu = None
    /\ SweepGoto("take", "tick")
    /\ instance' = None
    /\ UNCHANGED <<mu, closed, stopped, connVars, useVars, handlerVars, xray,
                   sinst, closeVars>>

SweepTake ==
    /\ mu = None
    /\ SweepGoto("take", IF instance = None THEN "tick" ELSE "close")
    /\ sinst' = instance
    /\ instance' = None
    /\ UNCHANGED <<mu, closed, stopped, connVars, useVars, handlerVars, xray,
                   closeVars>>

SweepClose ==
    /\ SweepGoto("close", "tick")
    /\ XrayClose(sinst)
    /\ sinst' = None
    /\ UNCHANGED <<gateVars, connVars, useVars, pc, relays, closeVars>>

SweepReturn ==
    /\ stopped
    /\ SweepGoto("tick", "returned")
    /\ UNCHANGED <<gateVars, connVars, useVars, handlerVars, xray, sinst,
                   closeVars>>

sweep == SweepActive \/ SweepSince \/ SweepTake \/ SweepClose \/ SweepReturn

\* The clock: lastUse falls more than Idle behind.
Elapse ==
    /\ ~quiet
    /\ quiet' = TRUE
    /\ UNCHANGED <<gateVars, connVars, active, handlerVars, xray, sweepVars,
                   closeVars>>

-----------------------------------------------------------------------------
(* Close.                                                                  *)

CloseGoto(k, p, q) == cpc[k] = p /\ cpc' = [cpc EXCEPT ![k] = q]

\* The critical section of mu.
CloseLock(k) ==
    /\ mu = None /\ ~closed
    /\ CloseGoto(k, "out", "stop")
    /\ closed' = TRUE
    /\ cinst' = [cinst EXCEPT ![k] = instance]
    /\ instance' = None
    /\ UNCHANGED <<mu, stopped, connVars, useVars, handlerVars, xray,
                   sweepVars, taken>>

CloseAgain(k) ==
    /\ mu = None /\ closed
    /\ cpc[k] \in {"out", "done"} /\ cpc' = [cpc EXCEPT ![k] = "done"]
    /\ UNCHANGED <<gateVars, connVars, useVars, handlerVars, xray, sweepVars,
                   cinst, taken>>

\* close(g.stopped) and the listeners.
CloseStop(k) ==
    /\ CloseGoto(k, "stop", "take")
    /\ stopped' = TRUE
    /\ UNCHANGED <<mu, instance, closed, connVars, useVars, handlerVars, xray,
                   sweepVars, cinst, taken>>

\* Mutant: the map is set to nil without a copy to close the sockets from.
CloseTake_DropsConns(k) ==
    /\ CloseGoto(k, "take", "conns")
    /\ conns' = {} /\ connsNil' = TRUE
    /\ UNCHANGED <<gateVars, open, useVars, handlerVars, xray, sweepVars,
                   cinst, taken>>

\* The critical section of connsMu.
CloseTake(k) ==
    /\ CloseGoto(k, "take", "conns")
    /\ taken' = [taken EXCEPT ![k] = conns]
    /\ conns' = {} /\ connsNil' = TRUE
    /\ UNCHANGED <<gateVars, open, useVars, handlerVars, xray, sweepVars,
                   cinst>>

CloseConn(k) ==
    /\ cpc[k] = "conns"
    /\ \E s \in taken[k] : /\ taken' = [taken EXCEPT ![k] = @ \ {s}]
                           /\ open' = open \ {s}
    /\ UNCHANGED <<gateVars, conns, connsNil, useVars, handlerVars, xray,
                   sweepVars, cpc, cinst>>

CloseInstance(k) ==
    /\ taken[k] = {}
    /\ CloseGoto(k, "conns", "done")
    /\ IF cinst[k] = None THEN UNCHANGED <<xray, up>> ELSE XrayClose(cinst[k])
    /\ cinst' = [cinst EXCEPT ![k] = None]
    /\ UNCHANGED <<gateVars, connVars, useVars, pc, relays, sweepVars, taken>>

Close(k) == CloseLock(k) \/ CloseAgain(k) \/ CloseStop(k) \/ CloseTake(k)
                \/ CloseConn(k) \/ CloseInstance(k)

-----------------------------------------------------------------------------
Next ==
    \/ \E c \in Conns : \/ serve(c) \/ handle(c)
                        \/ \E d \in Directions : relay(c, d)
    \/ sweep \/ Elapse
    \/ \E k \in Closers : Close(k)

Spec == Init /\ [][Next]_vars

(***************************************************************************)
(* Goroutines that can run are scheduled and time passes; nothing forces a *)
(* client to dial or to hang up, or anybody to call Close.  Taking mu is   *)
(* strongly fair: sync.Mutex hands over to a waiter that starves.  So is   *)
(* the sweeper's return: its select blocks on the ticker for seconds while *)
(* the closed channel is ready at once.                                    *)
(***************************************************************************)
Fairness ==
    /\ WF_vars(Elapse)
    /\ \A c \in Conns :
        /\ WF_vars(handle(c)) /\ SF_vars(ensure(c))
        /\ \A d \in Directions : WF_vars(Severed(c, d) /\ relay(c, d))
    /\ WF_vars(SweepActive \/ SweepSince \/ SweepClose)
    /\ SF_vars(SweepTake)
    /\ SF_vars(SweepReturn)
    /\ \A k \in Closers : WF_vars(cpc[k] # "out" /\ Close(k))

FairSpec == Spec /\ Fairness

-----------------------------------------------------------------------------
(* Properties.                                                             *)

HandlerPC == {"away", "accepted", "tracked", "counted", "ensure", "starting",
              "dial", "dialed", "relay", "uncount", "retouch", "forget"}

\* Handlers between active.Add(1) and active.Add(-1).
Counted == {c \in Conns : pc[c] \notin {"away", "accepted", "tracked",
                                       "retouch", "forget"}}

\* Every variable of the gate keeps its type (struct Gate and the locals of its
\* goroutines).
TypeOK ==
    /\ mu \in Conns \cup {None}
    /\ instance \in Instances \cup {None}
    /\ closed \in BOOLEAN /\ stopped \in BOOLEAN /\ connsNil \in BOOLEAN
    /\ conns \subseteq Sockets /\ open \subseteq Sockets
    /\ active \in Nat /\ quiet \in BOOLEAN
    /\ pc \in [Conns -> HandlerPC]
    /\ relays \in [Conns -> SUBSET Directions]
    /\ up \in [Conns -> Instances \cup {None}]
    /\ xray \in [Instances -> {"none", "created", "listening"}]
    /\ spc \in {"tick", "since", "take", "close", "returned"}
    /\ sinst \in Instances \cup {None}
    /\ cpc \in [Closers -> {"out", "stop", "take", "conns", "done"}]
    /\ cinst \in [Closers -> Instances \cup {None}]
    /\ taken \in [Closers -> SUBSET Sockets]

\* g.active is the number of handlers between its two Add calls, on every path
\* out of handle: the sweeper's idle test never runs on a drifted counter.
ActiveCounts == active = Cardinality(Counted)

\* Whoever will still close instance i: the gate's slot, the sweeper that took
\* it out of the slot, or the Close that did.
Owned(i) == instance = i \/ sinst = i \/ \E k \in Closers : cinst[k] = i

\* Every listening instance has exactly one slot or goroutine that will close it
\* and nothing else is ever closed: sweep racing ensure racing Close neither
\* leaks an instance nor closes one twice.
ExactlyOneOwner ==
    \A i \in Instances :
        /\ i \in Live <=> Owned(i)
        /\ ~(instance = i /\ sinst = i)
        /\ \A k \in Closers :
            cinst[k] = i => /\ instance # i /\ sinst # i
                            /\ \A l \in Closers : cinst[l] = i => l = k

\* After Close has passed its critical section no instance comes up again:
\* ensure's test of g.closed and its Start are one critical section.
ClosedStaysCold == closed => instance = None /\ mu = None

\* Once Close has taken the map, every socket still open is one it is about to
\* close, one its handler will find refused by track, or one whose handler has
\* already left its relays: nothing is left for a peer to keep alive.
TeardownReachesAll ==
    connsNil =>
        \A c \in Conns :
            /\ <<c, "conn">> \in open =>
                \/ \E k \in Closers : <<c, "conn">> \in taken[k]
                \/ pc[c] = "accepted"
            /\ <<c, "upstream">> \in open =>
                \/ \E k \in Closers : <<c, "upstream">> \in taken[k]
                \/ pc[c] = "dialed"

\* The strengthening under which the invariants above are inductive: who holds
\* mu, what the sweeper's and the closers' locals are at each of their program
\* points, that only one Close gets past the critical section, and where an open
\* socket is recorded.
LockInv ==
    /\ \A c \in Conns : pc[c] = "starting" <=> mu = c
    /\ mu # None => instance = None
LocalsInv ==
    /\ spc # "close" => sinst = None
    /\ \A k \in Closers : cpc[k] \in {"out", "done"} => cinst[k] = None
OneCloserInv ==
    /\ connsNil => closed /\ conns = {}
    /\ \A k \in Closers :
        /\ cpc[k] # "out" => closed
        /\ cpc[k] \in {"stop", "take"} => ~connsNil
        /\ cpc[k] # "conns" => taken[k] = {}
        /\ cpc[k] \in {"stop", "take", "conns"} =>
            \A l \in Closers : cpc[l] \in {"stop", "take", "conns"} => l = k
SocketInv ==
    ~connsNil =>
        \A c \in Conns :
            /\ <<c, "conn">> \in open => <<c, "conn">> \in conns \/ pc[c] = "accepted"
            /\ <<c, "upstream">> \in open =>
                <<c, "upstream">> \in conns \/ pc[c] = "dialed"
IInv ==
    /\ TypeOK /\ ActiveCounts /\ ExactlyOneOwner /\ ClosedStaysCold
    /\ TeardownReachesAll
    /\ LockInv /\ LocalsInv /\ OneCloserInv /\ SocketInv

\* A closed gate comes to rest: every handler ends, every socket and instance is
\* closed and the sweeper returns.
AtRest ==
    /\ \A c \in Conns : pc[c] = "away"
    /\ open = {} /\ Live = {} /\ active = 0 /\ spc = "returned"
CloseComesToRest == closed ~> AtRest

\* An accepted connection is relayed or dropped, whatever sweep and Close do:
\* nobody waits for mu or for the instance for ever.
AcceptedIsServed ==
    \A c \in Conns : pc[c] = "accepted" ~> pc[c] \in {"relay", "away"}

\* A gate nobody uses any more gets its instance closed by the sweeper.
IdleIsSwept ==
    <>[](active = 0 /\ quiet) => []<>(Live = {})
=============================================================================
