-------------------------- MODULE XrayGate_proofs --------------------------
(***************************************************************************)
(* The safety invariants of XrayGate, for any number of connections,       *)
(* instances and callers of Close.  None of them is inductive by itself;   *)
(* IInv adds who holds mu, the locals of the sweeper and of Close at each  *)
(* of their program points, that one Close alone gets past its critical    *)
(* section, and where an open socket is recorded.  One lemma per group of  *)
(* conjuncts, one step per action.                                         *)
(***************************************************************************)
EXTENDS XrayGate, FiniteSetTheorems, TLAPS

\* StartGate establishes the invariant.
LEMMA InitInv == Init => IInv
<1> SUFFICES ASSUME Init PROVE IInv
  OBVIOUS
<1> USE GateAssumption DEF Init
<1>1. Counted = {}
  BY DEF Counted
<1>2. ActiveCounts
  BY <1>1, FS_EmptySet DEF ActiveCounts
<1>3. TypeOK
  BY DEF TypeOK, HandlerPC, Sockets
<1>4. ExactlyOneOwner /\ ClosedStaysCold
  BY DEF ExactlyOneOwner, Owned, Live, ClosedStaysCold
<1>5. TeardownReachesAll /\ SocketInv
  BY DEF TeardownReachesAll, SocketInv
<1>6. LockInv /\ LocalsInv /\ OneCloserInv
  BY DEF LockInv, LocalsInv, OneCloserInv
<1> QED
  BY <1>2, <1>3, <1>4, <1>5, <1>6 DEF IInv

\* The set of counted handlers is finite, so active is a natural number.
LEMMA CountedFinite == IsFiniteSet(Counted) /\ Cardinality(Counted) \in Nat
<1>1. IsFiniteSet(Counted)
  BY GateAssumption, FS_Subset DEF Counted
<1> QED
  BY <1>1, FS_CardinalityType

\* What Count and Uncount do to the set of counted handlers.
LEMMA CountedAdd ==
  ASSUME TypeOK, NEW c \in Conns, pc[c] = "tracked",
         pc' = [pc EXCEPT ![c] = "counted"]
  PROVE  Cardinality(Counted') = Cardinality(Counted) + 1
<1>1. Counted' = Counted \cup {c} /\ c \notin Counted
  BY DEF Counted, TypeOK
<1> QED
  BY <1>1, CountedFinite, FS_AddElement

\* Uncount takes one handler out of the set.
LEMMA CountedRemove ==
  ASSUME TypeOK, NEW c \in Conns, pc[c] = "uncount",
         pc' = [pc EXCEPT ![c] = "retouch"]
  PROVE  Cardinality(Counted') = Cardinality(Counted) - 1
<1>1. Counted' = Counted \ {c} /\ c \in Counted
  BY DEF Counted, TypeOK
<1> QED
  BY <1>1, CountedFinite, FS_RemoveElement

\* Count and Uncount move active and the set together; no other step moves
\* either.
LEMMA ActiveStep == IInv /\ [Next]_vars => ActiveCounts'
<1> SUFFICES ASSUME IInv, [Next]_vars PROVE ActiveCounts'
  OBVIOUS
<1> USE GateAssumption DEF IInv, gateVars, connVars, useVars, handlerVars,
     sweepVars, closeVars, TypeOK, Counted
<1> DEFINE Same == Counted' = Counted /\ active' = active
<1>1. ASSUME NEW c \in Conns, serve(c) PROVE Same
  BY <1>1 DEF serve, Goto
<1>2. ASSUME NEW c \in Conns, TrackConn(c) PROVE Same
  BY <1>2 DEF TrackConn, Goto, track
<1>3. ASSUME NEW c \in Conns, RejectConn(c) PROVE Same
  BY <1>3 DEF RejectConn, Goto
<1>4. ASSUME NEW c \in Conns, Count(c) PROVE ActiveCounts'
  BY CountedAdd, CountedFinite, <1>4 DEF Count, Goto, ActiveCounts
<1>5. ASSUME NEW c \in Conns, Touch(c) PROVE Same
  BY <1>5 DEF Touch, Goto, touch
<1>6. ASSUME NEW c \in Conns, EnsureError(c) PROVE Same
  BY <1>6 DEF EnsureError, Goto
<1>7. ASSUME NEW c \in Conns, EnsureHit(c) PROVE Same
  BY <1>7 DEF EnsureHit, Goto
<1>8. ASSUME NEW c \in Conns, EnsureCreate(c) PROVE Same
  BY <1>8 DEF EnsureCreate, Goto
<1>9. ASSUME NEW c \in Conns, EnsureStart(c) PROVE Same
  BY <1>9 DEF EnsureStart, Goto, Live
<1>10. ASSUME NEW c \in Conns, EnsureFail(c) PROVE Same
  BY <1>10 DEF EnsureFail, Goto
<1>11. ASSUME NEW c \in Conns, Dial(c) PROVE Same
  BY <1>11 DEF Dial, Goto, Live
<1>12. ASSUME NEW c \in Conns, DialRefused(c) PROVE Same
  BY <1>12 DEF DialRefused, Goto, Live
<1>13. ASSUME NEW c \in Conns, TrackUpstream(c) PROVE Same
  BY <1>13 DEF TrackUpstream, Goto, track
<1>14. ASSUME NEW c \in Conns, RejectUpstream(c) PROVE Same
  BY <1>14 DEF RejectUpstream, Goto
<1>15. ASSUME NEW c \in Conns, ForgetUpstream(c) PROVE Same
  BY <1>15 DEF ForgetUpstream, Goto, forget
<1>16. ASSUME NEW c \in Conns, Uncount(c) PROVE ActiveCounts'
  BY CountedRemove, CountedFinite, <1>16 DEF Uncount, Goto, ActiveCounts
<1>17. ASSUME NEW c \in Conns, Retouch(c) PROVE Same
  BY <1>17 DEF Retouch, Goto, touch
<1>18. ASSUME NEW c \in Conns, ForgetConn(c) PROVE Same
  BY <1>18 DEF ForgetConn, Goto, forget
<1>19. ASSUME NEW c \in Conns, NEW d \in Directions, relay(c, d) PROVE Same
  BY <1>19 DEF relay
<1>20. ASSUME SweepActive PROVE Same
  BY <1>20 DEF SweepActive, SweepGoto
<1>21. ASSUME SweepSince PROVE Same
  BY <1>21 DEF SweepSince, SweepGoto
<1>22. ASSUME SweepTake PROVE Same
  BY <1>22 DEF SweepTake, SweepGoto
<1>23. ASSUME SweepClose PROVE Same
  BY <1>23 DEF SweepClose, SweepGoto, XrayClose
<1>24. ASSUME SweepReturn PROVE Same
  BY <1>24 DEF SweepReturn, SweepGoto
<1>25. ASSUME Elapse PROVE Same
  BY <1>25 DEF Elapse
<1>26. ASSUME NEW k \in Closers, CloseLock(k) PROVE Same
  BY <1>26 DEF CloseLock, CloseGoto
<1>27. ASSUME NEW k \in Closers, CloseAgain(k) PROVE Same
  BY <1>27 DEF CloseAgain, CloseGoto
<1>28. ASSUME NEW k \in Closers, CloseStop(k) PROVE Same
  BY <1>28 DEF CloseStop, CloseGoto
<1>29. ASSUME NEW k \in Closers, CloseTake(k) PROVE Same
  BY <1>29 DEF CloseTake, CloseGoto
<1>30. ASSUME NEW k \in Closers, CloseConn(k) PROVE Same
  BY <1>30 DEF CloseConn
<1>31. ASSUME NEW k \in Closers, CloseInstance(k) PROVE Same
  BY <1>31 DEF CloseInstance, XrayClose, CloseGoto
<1>32. ASSUME UNCHANGED vars PROVE Same
  BY <1>32 DEF vars
<1>33. Same => ActiveCounts'
  BY DEF ActiveCounts
<1> HIDE DEF Same
<1> QED
  BY <1>33, <1>1, <1>2, <1>3, <1>4, <1>5, <1>6, <1>7, <1>8, <1>9, <1>10, <1>11,
       <1>12, <1>13, <1>14, <1>15, <1>16, <1>17, <1>18, <1>19, <1>20, <1>21,
       <1>22, <1>23, <1>24, <1>25, <1>26, <1>27, <1>28, <1>29, <1>30, <1>31,
       <1>32 DEF Next, handle, ensure, sweep, Close

\* The type invariant; active stays a natural number because it is a count.
LEMMA TypeStep == IInv /\ [Next]_vars => TypeOK'
<1> SUFFICES ASSUME IInv, [Next]_vars PROVE TypeOK'
  OBVIOUS
<1>a. (Cardinality(Counted) \in Nat)'
  BY CountedFinite, PTL
<1>0. active' \in Nat
  BY <1>a, ActiveStep DEF ActiveCounts
<1> USE GateAssumption DEF IInv, gateVars, connVars, useVars, handlerVars,
     sweepVars, closeVars, TypeOK, HandlerPC, Sockets, Directions
<1>1. ASSUME NEW c \in Conns, serve(c) PROVE TypeOK'
  BY <1>0, <1>1 DEF serve, Goto
<1>2. ASSUME NEW c \in Conns, TrackConn(c) PROVE TypeOK'
  BY <1>0, <1>2 DEF TrackConn, Goto, track
<1>3. ASSUME NEW c \in Conns, RejectConn(c) PROVE TypeOK'
  BY <1>0, <1>3 DEF RejectConn, Goto
<1>4. ASSUME NEW c \in Conns, Count(c) PROVE TypeOK'
  BY <1>0, <1>4 DEF Count, Goto
<1>5. ASSUME NEW c \in Conns, Touch(c) PROVE TypeOK'
  BY <1>0, <1>5 DEF Touch, Goto, touch
<1>6. ASSUME NEW c \in Conns, EnsureError(c) PROVE TypeOK'
  BY <1>0, <1>6 DEF EnsureError, Goto
<1>7. ASSUME NEW c \in Conns, EnsureHit(c) PROVE TypeOK'
  BY <1>0, <1>7 DEF EnsureHit, Goto
<1>8. ASSUME NEW c \in Conns, EnsureCreate(c) PROVE TypeOK'
  BY <1>0, <1>8 DEF EnsureCreate, Goto
<1>9. ASSUME NEW c \in Conns, EnsureStart(c) PROVE TypeOK'
  BY <1>0, <1>9 DEF EnsureStart, Goto, Live
<1>10. ASSUME NEW c \in Conns, EnsureFail(c) PROVE TypeOK'
  BY <1>0, <1>10 DEF EnsureFail, Goto
<1>11. ASSUME NEW c \in Conns, Dial(c) PROVE TypeOK'
  BY <1>0, <1>11 DEF Dial, Goto, Live
<1>12. ASSUME NEW c \in Conns, DialRefused(c) PROVE TypeOK'
  BY <1>0, <1>12 DEF DialRefused, Goto, Live
<1>13. ASSUME NEW c \in Conns, TrackUpstream(c) PROVE TypeOK'
  BY <1>0, <1>13 DEF TrackUpstream, Goto, track
<1>14. ASSUME NEW c \in Conns, RejectUpstream(c) PROVE TypeOK'
  BY <1>0, <1>14 DEF RejectUpstream, Goto
<1>15. ASSUME NEW c \in Conns, ForgetUpstream(c) PROVE TypeOK'
  BY <1>0, <1>15 DEF ForgetUpstream, Goto, forget
<1>16. ASSUME NEW c \in Conns, Uncount(c) PROVE TypeOK'
  BY <1>0, <1>16 DEF Uncount, Goto
<1>17. ASSUME NEW c \in Conns, Retouch(c) PROVE TypeOK'
  BY <1>0, <1>17 DEF Retouch, Goto, touch
<1>18. ASSUME NEW c \in Conns, ForgetConn(c) PROVE TypeOK'
  BY <1>0, <1>18 DEF ForgetConn, Goto, forget
<1>19. ASSUME NEW c \in Conns, NEW d \in Directions, relay(c, d) PROVE TypeOK'
  BY <1>0, <1>19 DEF relay
<1>20. ASSUME SweepActive PROVE TypeOK'
  BY <1>0, <1>20 DEF SweepActive, SweepGoto
<1>21. ASSUME SweepSince PROVE TypeOK'
  BY <1>0, <1>21 DEF SweepSince, SweepGoto
<1>22. ASSUME SweepTake PROVE TypeOK'
  BY <1>0, <1>22 DEF SweepTake, SweepGoto
<1>23. ASSUME SweepClose PROVE TypeOK'
  BY <1>0, <1>23 DEF SweepClose, SweepGoto, XrayClose
<1>24. ASSUME SweepReturn PROVE TypeOK'
  BY <1>0, <1>24 DEF SweepReturn, SweepGoto
<1>25. ASSUME Elapse PROVE TypeOK'
  BY <1>0, <1>25 DEF Elapse
<1>26. ASSUME NEW k \in Closers, CloseLock(k) PROVE TypeOK'
  BY <1>0, <1>26 DEF CloseLock, CloseGoto
<1>27. ASSUME NEW k \in Closers, CloseAgain(k) PROVE TypeOK'
  BY <1>0, <1>27 DEF CloseAgain, CloseGoto
<1>28. ASSUME NEW k \in Closers, CloseStop(k) PROVE TypeOK'
  BY <1>0, <1>28 DEF CloseStop, CloseGoto
<1>29. ASSUME NEW k \in Closers, CloseTake(k) PROVE TypeOK'
  BY <1>0, <1>29 DEF CloseTake, CloseGoto
<1>30. ASSUME NEW k \in Closers, CloseConn(k) PROVE TypeOK'
  BY <1>0, <1>30 DEF CloseConn
<1>31. ASSUME NEW k \in Closers, CloseInstance(k) PROVE TypeOK'
  BY <1>0, <1>31 DEF CloseInstance, XrayClose, CloseGoto
<1>32. ASSUME UNCHANGED vars PROVE TypeOK'
  BY <1>0, <1>32 DEF vars
<1> QED
  BY <1>1, <1>2, <1>3, <1>4, <1>5, <1>6, <1>7, <1>8, <1>9, <1>10, <1>11, <1>12,
       <1>13, <1>14, <1>15, <1>16, <1>17, <1>18, <1>19, <1>20, <1>21, <1>22,
       <1>23, <1>24, <1>25, <1>26, <1>27, <1>28, <1>29, <1>30, <1>31, <1>32 DEF
       Next, handle, ensure, sweep, Close

\* Ownership of instances: EnsureStart fills an empty slot, SweepTake and
\* CloseLock move the slot's instance to a local that is free, SweepClose and
\* CloseInstance close what that local holds.
LEMMA OwnerStep == IInv /\ [Next]_vars => ExactlyOneOwner'
<1> SUFFICES ASSUME IInv, [Next]_vars PROVE ExactlyOneOwner'
  OBVIOUS
<1> USE GateAssumption DEF IInv, gateVars, connVars, useVars, handlerVars,
     sweepVars, closeVars, ExactlyOneOwner, Owned, Live, TypeOK, LockInv,
     LocalsInv, ClosedStaysCold, OneCloserInv
<1>1. ASSUME NEW c \in Conns, serve(c) PROVE ExactlyOneOwner'
  BY <1>1 DEF serve, Goto
<1>2. ASSUME NEW c \in Conns, TrackConn(c) PROVE ExactlyOneOwner'
  BY <1>2 DEF TrackConn, Goto, track
<1>3. ASSUME NEW c \in Conns, RejectConn(c) PROVE ExactlyOneOwner'
  BY <1>3 DEF RejectConn, Goto
<1>4. ASSUME NEW c \in Conns, Count(c) PROVE ExactlyOneOwner'
  BY <1>4 DEF Count, Goto
<1>5. ASSUME NEW c \in Conns, Touch(c) PROVE ExactlyOneOwner'
  BY <1>5 DEF Touch, Goto, touch
<1>6. ASSUME NEW c \in Conns, EnsureError(c) PROVE ExactlyOneOwner'
  BY <1>6 DEF EnsureError, Goto
<1>7. ASSUME NEW c \in Conns, EnsureHit(c) PROVE ExactlyOneOwner'
  BY <1>7 DEF EnsureHit, Goto
<1>8. ASSUME NEW c \in Conns, EnsureCreate(c) PROVE ExactlyOneOwner'
  BY <1>8 DEF EnsureCreate, Goto
<1>9. ASSUME NEW c \in Conns, EnsureStart(c) PROVE ExactlyOneOwner'
  BY <1>9 DEF EnsureStart, Goto
<1>10. ASSUME NEW c \in Conns, EnsureFail(c) PROVE ExactlyOneOwner'
  BY <1>10 DEF EnsureFail, Goto
<1>11. ASSUME NEW c \in Conns, Dial(c) PROVE ExactlyOneOwner'
  BY <1>11 DEF Dial, Goto
<1>12. ASSUME NEW c \in Conns, DialRefused(c) PROVE ExactlyOneOwner'
  BY <1>12 DEF DialRefused, Goto
<1>13. ASSUME NEW c \in Conns, TrackUpstream(c) PROVE ExactlyOneOwner'
  BY <1>13 DEF TrackUpstream, Goto, track
<1>14. ASSUME NEW c \in Conns, RejectUpstream(c) PROVE ExactlyOneOwner'
  BY <1>14 DEF RejectUpstream, Goto
<1>15. ASSUME NEW c \in Conns, ForgetUpstream(c) PROVE ExactlyOneOwner'
  BY <1>15 DEF ForgetUpstream, Goto, forget
<1>16. ASSUME NEW c \in Conns, Uncount(c) PROVE ExactlyOneOwner'
  BY <1>16 DEF Uncount, Goto
<1>17. ASSUME NEW c \in Conns, Retouch(c) PROVE ExactlyOneOwner'
  BY <1>17 DEF Retouch, Goto, touch
<1>18. ASSUME NEW c \in Conns, ForgetConn(c) PROVE ExactlyOneOwner'
  BY <1>18 DEF ForgetConn, Goto, forget
<1>19. ASSUME NEW c \in Conns, NEW d \in Directions, relay(c, d)
       PROVE  ExactlyOneOwner'
  BY <1>19 DEF relay
<1>20. ASSUME SweepActive PROVE ExactlyOneOwner'
  BY <1>20 DEF SweepActive, SweepGoto
<1>21. ASSUME SweepSince PROVE ExactlyOneOwner'
  BY <1>21 DEF SweepSince, SweepGoto
<1>22. ASSUME SweepTake PROVE ExactlyOneOwner'
  BY <1>22 DEF SweepTake, SweepGoto
<1>23. ASSUME SweepClose PROVE ExactlyOneOwner'
  BY <1>23 DEF SweepClose, SweepGoto, XrayClose
<1>24. ASSUME SweepReturn PROVE ExactlyOneOwner'
  BY <1>24 DEF SweepReturn, SweepGoto
<1>25. ASSUME Elapse PROVE ExactlyOneOwner'
  BY <1>25 DEF Elapse
<1>26. ASSUME NEW k \in Closers, CloseLock(k) PROVE ExactlyOneOwner'
  BY <1>26 DEF CloseLock, CloseGoto
<1>27. ASSUME NEW k \in Closers, CloseAgain(k) PROVE ExactlyOneOwner'
  BY <1>27 DEF CloseAgain, CloseGoto
<1>28. ASSUME NEW k \in Closers, CloseStop(k) PROVE ExactlyOneOwner'
  BY <1>28 DEF CloseStop, CloseGoto
<1>29. ASSUME NEW k \in Closers, CloseTake(k) PROVE ExactlyOneOwner'
  BY <1>29 DEF CloseTake, CloseGoto
<1>30. ASSUME NEW k \in Closers, CloseConn(k) PROVE ExactlyOneOwner'
  BY <1>30 DEF CloseConn
<1>31. ASSUME NEW k \in Closers, CloseInstance(k) PROVE ExactlyOneOwner'
  BY <1>31 DEF CloseInstance, XrayClose, CloseGoto
<1>32. ASSUME UNCHANGED vars PROVE ExactlyOneOwner'
  BY <1>32 DEF vars
<1> QED
  BY <1>1, <1>2, <1>3, <1>4, <1>5, <1>6, <1>7, <1>8, <1>9, <1>10, <1>11, <1>12,
       <1>13, <1>14, <1>15, <1>16, <1>17, <1>18, <1>19, <1>20, <1>21, <1>22,
       <1>23, <1>24, <1>25, <1>26, <1>27, <1>28, <1>29, <1>30, <1>31, <1>32 DEF
       Next, handle, ensure, sweep, Close

\* mu is held only by the handler in the middle of ensure, on an open gate.
LEMMA LockStep == IInv /\ [Next]_vars => (LockInv /\ ClosedStaysCold)'
<1> SUFFICES ASSUME IInv, [Next]_vars PROVE (LockInv /\ ClosedStaysCold)'
  OBVIOUS
<1> USE GateAssumption DEF IInv, gateVars, connVars, useVars, handlerVars,
     sweepVars, closeVars, LockInv, ClosedStaysCold, TypeOK
<1>1. ASSUME NEW c \in Conns, serve(c) PROVE (LockInv /\ ClosedStaysCold)'
  BY <1>1 DEF serve, Goto
<1>2. ASSUME NEW c \in Conns, TrackConn(c) PROVE (LockInv /\ ClosedStaysCold)'
  BY <1>2 DEF TrackConn, Goto, track
<1>3. ASSUME NEW c \in Conns, RejectConn(c) PROVE (LockInv /\ ClosedStaysCold)'
  BY <1>3 DEF RejectConn, Goto
<1>4. ASSUME NEW c \in Conns, Count(c) PROVE (LockInv /\ ClosedStaysCold)'
  BY <1>4 DEF Count, Goto
<1>5. ASSUME NEW c \in Conns, Touch(c) PROVE (LockInv /\ ClosedStaysCold)'
  BY <1>5 DEF Touch, Goto, touch
<1>6. ASSUME NEW c \in Conns, EnsureError(c)
      PROVE  (LockInv /\ ClosedStaysCold)'
  BY <1>6 DEF EnsureError, Goto
<1>7. ASSUME NEW c \in Conns, EnsureHit(c) PROVE (LockInv /\ ClosedStaysCold)'
  BY <1>7 DEF EnsureHit, Goto
<1>8. ASSUME NEW c \in Conns, EnsureCreate(c)
      PROVE  (LockInv /\ ClosedStaysCold)'
  BY <1>8 DEF EnsureCreate, Goto
<1>9. ASSUME NEW c \in Conns, EnsureStart(c)
      PROVE  (LockInv /\ ClosedStaysCold)'
  BY <1>9 DEF EnsureStart, Goto, Live
<1>10. ASSUME NEW c \in Conns, EnsureFail(c)
       PROVE  (LockInv /\ ClosedStaysCold)'
  BY <1>10 DEF EnsureFail, Goto
<1>11. ASSUME NEW c \in Conns, Dial(c) PROVE (LockInv /\ ClosedStaysCold)'
  BY <1>11 DEF Dial, Goto, Live
<1>12. ASSUME NEW c \in Conns, DialRefused(c)
       PROVE  (LockInv /\ ClosedStaysCold)'
  BY <1>12 DEF DialRefused, Goto, Live
<1>13. ASSUME NEW c \in Conns, TrackUpstream(c)
       PROVE  (LockInv /\ ClosedStaysCold)'
  BY <1>13 DEF TrackUpstream, Goto, track
<1>14. ASSUME NEW c \in Conns, RejectUpstream(c)
       PROVE  (LockInv /\ ClosedStaysCold)'
  BY <1>14 DEF RejectUpstream, Goto
<1>15. ASSUME NEW c \in Conns, ForgetUpstream(c)
       PROVE  (LockInv /\ ClosedStaysCold)'
  BY <1>15 DEF ForgetUpstream, Goto, forget
<1>16. ASSUME NEW c \in Conns, Uncount(c) PROVE (LockInv /\ ClosedStaysCold)'
  BY <1>16 DEF Uncount, Goto
<1>17. ASSUME NEW c \in Conns, Retouch(c) PROVE (LockInv /\ ClosedStaysCold)'
  BY <1>17 DEF Retouch, Goto, touch
<1>18. ASSUME NEW c \in Conns, ForgetConn(c)
       PROVE  (LockInv /\ ClosedStaysCold)'
  BY <1>18 DEF ForgetConn, Goto, forget
<1>19. ASSUME NEW c \in Conns, NEW d \in Directions, relay(c, d)
       PROVE  (LockInv /\ ClosedStaysCold)'
  BY <1>19 DEF relay
<1>20. ASSUME SweepActive PROVE (LockInv /\ ClosedStaysCold)'
  BY <1>20 DEF SweepActive, SweepGoto
<1>21. ASSUME SweepSince PROVE (LockInv /\ ClosedStaysCold)'
  BY <1>21 DEF SweepSince, SweepGoto
<1>22. ASSUME SweepTake PROVE (LockInv /\ ClosedStaysCold)'
  BY <1>22 DEF SweepTake, SweepGoto
<1>23. ASSUME SweepClose PROVE (LockInv /\ ClosedStaysCold)'
  BY <1>23 DEF SweepClose, SweepGoto, XrayClose
<1>24. ASSUME SweepReturn PROVE (LockInv /\ ClosedStaysCold)'
  BY <1>24 DEF SweepReturn, SweepGoto
<1>25. ASSUME Elapse PROVE (LockInv /\ ClosedStaysCold)'
  BY <1>25 DEF Elapse
<1>26. ASSUME NEW k \in Closers, CloseLock(k)
       PROVE  (LockInv /\ ClosedStaysCold)'
  BY <1>26 DEF CloseLock, CloseGoto
<1>27. ASSUME NEW k \in Closers, CloseAgain(k)
       PROVE  (LockInv /\ ClosedStaysCold)'
  BY <1>27 DEF CloseAgain, CloseGoto
<1>28. ASSUME NEW k \in Closers, CloseStop(k)
       PROVE  (LockInv /\ ClosedStaysCold)'
  BY <1>28 DEF CloseStop, CloseGoto
<1>29. ASSUME NEW k \in Closers, CloseTake(k)
       PROVE  (LockInv /\ ClosedStaysCold)'
  BY <1>29 DEF CloseTake, CloseGoto
<1>30. ASSUME NEW k \in Closers, CloseConn(k)
       PROVE  (LockInv /\ ClosedStaysCold)'
  BY <1>30 DEF CloseConn
<1>31. ASSUME NEW k \in Closers, CloseInstance(k)
       PROVE  (LockInv /\ ClosedStaysCold)'
  BY <1>31 DEF CloseInstance, XrayClose, CloseGoto
<1>32. ASSUME UNCHANGED vars PROVE (LockInv /\ ClosedStaysCold)'
  BY <1>32 DEF vars
<1> QED
  BY <1>1, <1>2, <1>3, <1>4, <1>5, <1>6, <1>7, <1>8, <1>9, <1>10, <1>11, <1>12,
       <1>13, <1>14, <1>15, <1>16, <1>17, <1>18, <1>19, <1>20, <1>21, <1>22,
       <1>23, <1>24, <1>25, <1>26, <1>27, <1>28, <1>29, <1>30, <1>31, <1>32 DEF
       Next, handle, ensure, sweep, Close

\* The locals of the sweeper and of Close.
LEMMA LocalsStep == IInv /\ [Next]_vars => (LocalsInv /\ OneCloserInv)'
<1> SUFFICES ASSUME IInv, [Next]_vars PROVE (LocalsInv /\ OneCloserInv)'
  OBVIOUS
<1> USE GateAssumption DEF IInv, gateVars, connVars, useVars, handlerVars,
     sweepVars, closeVars, LocalsInv, OneCloserInv, TypeOK
<1>1. ASSUME NEW c \in Conns, serve(c) PROVE (LocalsInv /\ OneCloserInv)'
  BY <1>1 DEF serve, Goto
<1>2. ASSUME NEW c \in Conns, TrackConn(c) PROVE (LocalsInv /\ OneCloserInv)'
  BY <1>2 DEF TrackConn, Goto, track
<1>3. ASSUME NEW c \in Conns, RejectConn(c) PROVE (LocalsInv /\ OneCloserInv)'
  BY <1>3 DEF RejectConn, Goto
<1>4. ASSUME NEW c \in Conns, Count(c) PROVE (LocalsInv /\ OneCloserInv)'
  BY <1>4 DEF Count, Goto
<1>5. ASSUME NEW c \in Conns, Touch(c) PROVE (LocalsInv /\ OneCloserInv)'
  BY <1>5 DEF Touch, Goto, touch
<1>6. ASSUME NEW c \in Conns, EnsureError(c) PROVE (LocalsInv /\ OneCloserInv)'
  BY <1>6 DEF EnsureError, Goto
<1>7. ASSUME NEW c \in Conns, EnsureHit(c) PROVE (LocalsInv /\ OneCloserInv)'
  BY <1>7 DEF EnsureHit, Goto
<1>8. ASSUME NEW c \in Conns, EnsureCreate(c)
      PROVE  (LocalsInv /\ OneCloserInv)'
  BY <1>8 DEF EnsureCreate, Goto
<1>9. ASSUME NEW c \in Conns, EnsureStart(c) PROVE (LocalsInv /\ OneCloserInv)'
  BY <1>9 DEF EnsureStart, Goto, Live
<1>10. ASSUME NEW c \in Conns, EnsureFail(c) PROVE (LocalsInv /\ OneCloserInv)'
  BY <1>10 DEF EnsureFail, Goto
<1>11. ASSUME NEW c \in Conns, Dial(c) PROVE (LocalsInv /\ OneCloserInv)'
  BY <1>11 DEF Dial, Goto, Live
<1>12. ASSUME NEW c \in Conns, DialRefused(c)
       PROVE  (LocalsInv /\ OneCloserInv)'
  BY <1>12 DEF DialRefused, Goto, Live
<1>13. ASSUME NEW c \in Conns, TrackUpstream(c)
       PROVE  (LocalsInv /\ OneCloserInv)'
  BY <1>13 DEF TrackUpstream, Goto, track
<1>14. ASSUME NEW c \in Conns, RejectUpstream(c)
       PROVE  (LocalsInv /\ OneCloserInv)'
  BY <1>14 DEF RejectUpstream, Goto
<1>15. ASSUME NEW c \in Conns, ForgetUpstream(c)
       PROVE  (LocalsInv /\ OneCloserInv)'
  BY <1>15 DEF ForgetUpstream, Goto, forget
<1>16. ASSUME NEW c \in Conns, Uncount(c) PROVE (LocalsInv /\ OneCloserInv)'
  BY <1>16 DEF Uncount, Goto
<1>17. ASSUME NEW c \in Conns, Retouch(c) PROVE (LocalsInv /\ OneCloserInv)'
  BY <1>17 DEF Retouch, Goto, touch
<1>18. ASSUME NEW c \in Conns, ForgetConn(c) PROVE (LocalsInv /\ OneCloserInv)'
  BY <1>18 DEF ForgetConn, Goto, forget
<1>19. ASSUME NEW c \in Conns, NEW d \in Directions, relay(c, d)
       PROVE  (LocalsInv /\ OneCloserInv)'
  BY <1>19 DEF relay
<1>20. ASSUME SweepActive PROVE (LocalsInv /\ OneCloserInv)'
  BY <1>20 DEF SweepActive, SweepGoto
<1>21. ASSUME SweepSince PROVE (LocalsInv /\ OneCloserInv)'
  BY <1>21 DEF SweepSince, SweepGoto
<1>22. ASSUME SweepTake PROVE (LocalsInv /\ OneCloserInv)'
  BY <1>22 DEF SweepTake, SweepGoto
<1>23. ASSUME SweepClose PROVE (LocalsInv /\ OneCloserInv)'
  BY <1>23 DEF SweepClose, SweepGoto, XrayClose
<1>24. ASSUME SweepReturn PROVE (LocalsInv /\ OneCloserInv)'
  BY <1>24 DEF SweepReturn, SweepGoto
<1>25. ASSUME Elapse PROVE (LocalsInv /\ OneCloserInv)'
  BY <1>25 DEF Elapse
<1>26. ASSUME NEW k \in Closers, CloseLock(k)
       PROVE  (LocalsInv /\ OneCloserInv)'
  BY <1>26 DEF CloseLock, CloseGoto
<1>27. ASSUME NEW k \in Closers, CloseAgain(k)
       PROVE  (LocalsInv /\ OneCloserInv)'
  BY <1>27 DEF CloseAgain, CloseGoto
<1>28. ASSUME NEW k \in Closers, CloseStop(k)
       PROVE  (LocalsInv /\ OneCloserInv)'
  BY <1>28 DEF CloseStop, CloseGoto
<1>29. ASSUME NEW k \in Closers, CloseTake(k)
       PROVE  (LocalsInv /\ OneCloserInv)'
  BY <1>29 DEF CloseTake, CloseGoto
<1>30. ASSUME NEW k \in Closers, CloseConn(k)
       PROVE  (LocalsInv /\ OneCloserInv)'
  BY <1>30 DEF CloseConn
<1>31. ASSUME NEW k \in Closers, CloseInstance(k)
       PROVE  (LocalsInv /\ OneCloserInv)'
  BY <1>31 DEF CloseInstance, XrayClose, CloseGoto
<1>32. ASSUME UNCHANGED vars PROVE (LocalsInv /\ OneCloserInv)'
  BY <1>32 DEF vars
<1> QED
  BY <1>1, <1>2, <1>3, <1>4, <1>5, <1>6, <1>7, <1>8, <1>9, <1>10, <1>11, <1>12,
       <1>13, <1>14, <1>15, <1>16, <1>17, <1>18, <1>19, <1>20, <1>21, <1>22,
       <1>23, <1>24, <1>25, <1>26, <1>27, <1>28, <1>29, <1>30, <1>31, <1>32 DEF
       Next, handle, ensure, sweep, Close

\* An open socket is in the map, or after Close took the map, in its local.
LEMMA SocketStep == IInv /\ [Next]_vars => (SocketInv /\ TeardownReachesAll)'
<1> SUFFICES ASSUME IInv, [Next]_vars PROVE (SocketInv /\ TeardownReachesAll)'
  OBVIOUS
<1> USE GateAssumption DEF IInv, gateVars, connVars, useVars, handlerVars,
     sweepVars, closeVars, SocketInv, TeardownReachesAll, OneCloserInv, TypeOK,
     Sockets
<1>1. ASSUME NEW c \in Conns, serve(c) PROVE (SocketInv /\ TeardownReachesAll)'
  BY <1>1 DEF serve, Goto
<1>2. ASSUME NEW c \in Conns, TrackConn(c)
      PROVE  (SocketInv /\ TeardownReachesAll)'
  BY <1>2 DEF TrackConn, Goto, track
<1>3. ASSUME NEW c \in Conns, RejectConn(c)
      PROVE  (SocketInv /\ TeardownReachesAll)'
  BY <1>3 DEF RejectConn, Goto
<1>4. ASSUME NEW c \in Conns, Count(c) PROVE (SocketInv /\ TeardownReachesAll)'
  BY <1>4 DEF Count, Goto
<1>5. ASSUME NEW c \in Conns, Touch(c) PROVE (SocketInv /\ TeardownReachesAll)'
  BY <1>5 DEF Touch, Goto, touch
<1>6. ASSUME NEW c \in Conns, EnsureError(c)
      PROVE  (SocketInv /\ TeardownReachesAll)'
  BY <1>6 DEF EnsureError, Goto
<1>7. ASSUME NEW c \in Conns, EnsureHit(c)
      PROVE  (SocketInv /\ TeardownReachesAll)'
  BY <1>7 DEF EnsureHit, Goto
<1>8. ASSUME NEW c \in Conns, EnsureCreate(c)
      PROVE  (SocketInv /\ TeardownReachesAll)'
  BY <1>8 DEF EnsureCreate, Goto
<1>9. ASSUME NEW c \in Conns, EnsureStart(c)
      PROVE  (SocketInv /\ TeardownReachesAll)'
  BY <1>9 DEF EnsureStart, Goto, Live
<1>10. ASSUME NEW c \in Conns, EnsureFail(c)
       PROVE  (SocketInv /\ TeardownReachesAll)'
  BY <1>10 DEF EnsureFail, Goto
<1>11. ASSUME NEW c \in Conns, Dial(c) PROVE (SocketInv /\ TeardownReachesAll)'
  BY <1>11 DEF Dial, Goto, Live
<1>12. ASSUME NEW c \in Conns, DialRefused(c)
       PROVE  (SocketInv /\ TeardownReachesAll)'
  BY <1>12 DEF DialRefused, Goto, Live
<1>13. ASSUME NEW c \in Conns, TrackUpstream(c)
       PROVE  (SocketInv /\ TeardownReachesAll)'
  BY <1>13 DEF TrackUpstream, Goto, track
<1>14. ASSUME NEW c \in Conns, RejectUpstream(c)
       PROVE  (SocketInv /\ TeardownReachesAll)'
  BY <1>14 DEF RejectUpstream, Goto
<1>15. ASSUME NEW c \in Conns, ForgetUpstream(c)
       PROVE  (SocketInv /\ TeardownReachesAll)'
  BY <1>15 DEF ForgetUpstream, Goto, forget
<1>16. ASSUME NEW c \in Conns, Uncount(c)
       PROVE  (SocketInv /\ TeardownReachesAll)'
  BY <1>16 DEF Uncount, Goto
<1>17. ASSUME NEW c \in Conns, Retouch(c)
       PROVE  (SocketInv /\ TeardownReachesAll)'
  BY <1>17 DEF Retouch, Goto, touch
<1>18. ASSUME NEW c \in Conns, ForgetConn(c)
       PROVE  (SocketInv /\ TeardownReachesAll)'
  BY <1>18 DEF ForgetConn, Goto, forget
<1>19. ASSUME NEW c \in Conns, NEW d \in Directions, relay(c, d)
       PROVE  (SocketInv /\ TeardownReachesAll)'
  BY <1>19 DEF relay
<1>20. ASSUME SweepActive PROVE (SocketInv /\ TeardownReachesAll)'
  BY <1>20 DEF SweepActive, SweepGoto
<1>21. ASSUME SweepSince PROVE (SocketInv /\ TeardownReachesAll)'
  BY <1>21 DEF SweepSince, SweepGoto
<1>22. ASSUME SweepTake PROVE (SocketInv /\ TeardownReachesAll)'
  BY <1>22 DEF SweepTake, SweepGoto
<1>23. ASSUME SweepClose PROVE (SocketInv /\ TeardownReachesAll)'
  BY <1>23 DEF SweepClose, SweepGoto, XrayClose
<1>24. ASSUME SweepReturn PROVE (SocketInv /\ TeardownReachesAll)'
  BY <1>24 DEF SweepReturn, SweepGoto
<1>25. ASSUME Elapse PROVE (SocketInv /\ TeardownReachesAll)'
  BY <1>25 DEF Elapse
<1>26. ASSUME NEW k \in Closers, CloseLock(k)
       PROVE  (SocketInv /\ TeardownReachesAll)'
  BY <1>26 DEF CloseLock, CloseGoto
<1>27. ASSUME NEW k \in Closers, CloseAgain(k)
       PROVE  (SocketInv /\ TeardownReachesAll)'
  BY <1>27 DEF CloseAgain, CloseGoto
<1>28. ASSUME NEW k \in Closers, CloseStop(k)
       PROVE  (SocketInv /\ TeardownReachesAll)'
  BY <1>28 DEF CloseStop, CloseGoto
<1>29. ASSUME NEW k \in Closers, CloseTake(k)
       PROVE  (SocketInv /\ TeardownReachesAll)'
  BY <1>29 DEF CloseTake, CloseGoto
<1>30. ASSUME NEW k \in Closers, CloseConn(k)
       PROVE  (SocketInv /\ TeardownReachesAll)'
  BY <1>30 DEF CloseConn
<1>31. ASSUME NEW k \in Closers, CloseInstance(k)
       PROVE  (SocketInv /\ TeardownReachesAll)'
  BY <1>31 DEF CloseInstance, XrayClose, CloseGoto
<1>32. ASSUME UNCHANGED vars PROVE (SocketInv /\ TeardownReachesAll)'
  BY <1>32 DEF vars
<1> QED
  BY <1>1, <1>2, <1>3, <1>4, <1>5, <1>6, <1>7, <1>8, <1>9, <1>10, <1>11, <1>12,
       <1>13, <1>14, <1>15, <1>16, <1>17, <1>18, <1>19, <1>20, <1>21, <1>22,
       <1>23, <1>24, <1>25, <1>26, <1>27, <1>28, <1>29, <1>30, <1>31, <1>32 DEF
       Next, handle, ensure, sweep, Close

\* The invariant is inductive.
LEMMA NextInv == IInv /\ [Next]_vars => IInv'
BY ActiveStep, TypeStep, OwnerStep, LockStep, LocalsStep, SocketStep DEF IInv

\* The invariant holds in every reachable state.
THEOREM GateInvariant == Spec => []IInv
BY InitInv, NextInv, PTL DEF Spec

\* Every variable keeps its type.
THEOREM GateTypes == Spec => []TypeOK
<1>1. IInv => TypeOK
  BY DEF IInv
<1> QED
  BY <1>1, GateInvariant, PTL

\* g.active always is the number of handlers between its two Add calls.
THEOREM GateActive == Spec => []ActiveCounts
<1>1. IInv => ActiveCounts
  BY DEF IInv
<1> QED
  BY <1>1, GateInvariant, PTL

\* No interleaving of ensure, sweep and Close leaks an instance or closes one
\* twice.
THEOREM GateOwnership == Spec => []ExactlyOneOwner
<1>1. IInv => ExactlyOneOwner
  BY DEF IInv
<1> QED
  BY <1>1, GateInvariant, PTL

\* A closed gate never holds or starts an instance again.
THEOREM GateClosed == Spec => []ClosedStaysCold
<1>1. IInv => ClosedStaysCold
  BY DEF IInv
<1> QED
  BY <1>1, GateInvariant, PTL

\* Close reaches every socket, also one accepted or dialed while it runs.
THEOREM GateTeardown == Spec => []TeardownReachesAll
<1>1. IInv => TeardownReachesAll
  BY DEF IInv
<1> QED
  BY <1>1, GateInvariant, PTL

=============================================================================
