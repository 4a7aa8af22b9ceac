------------------------ MODULE CoreLifecycle_proofs ------------------------
(***************************************************************************)
(* Proofs about CoreLifecycle, for any set of profiles and any number of   *)
(* Starts.  SlotInv is inductive whatever a client sends; ExactInv needs   *)
(* Start to be sent only when no box is published.                         *)
(***************************************************************************)
EXTENDS CoreLifecycle, TLAPS

\* The five kinds of resource are told apart by their first component, and the
\* Start that made one by its second.
LEMMA Kinds ==
    ASSUME NEW g \in Nat, NEW h \in Nat, NEW i \in Nat
    PROVE  /\ Box(g)[1] = "box" /\ Proc(g)[1] = "proc" /\ Xray(g)[1] = "xray"
           /\ Gate(g)[1] = "gate" /\ Full(g, i)[1] = "full"
           /\ Box(g) = Box(h) => g = h
BY DEF Box, Proc, Xray, Gate, Full

\* What a Start makes is a resource.
LEMMA Made ==
    ASSUME NEW g \in Gens
    PROVE  /\ {Box(g), Proc(g), Xray(g), Gate(g)} \subseteq Resources
           /\ \A i \in 1..MaxFull : Full(g, i) \in Resources
BY LifecycleAssumption DEF Gens, Resources, Box, Proc, Xray, Gate, Full

\* Every pointer that is set names a Start that took place, so what the slots
\* hold, and what the fan-out opened, are resources.
LEMMA PointersTyped ==
    ASSUME TypeOK
    PROVE  /\ \A g \in {boxInstance, extraProcess, xrayInstance, xrayGate} \ {Nil} :
                  g \in Gens
           /\ Sidecars \subseteq Resources
           /\ gen > 0 => gen \in Gens /\ OpenedFull \subseteq Resources
<1>1. \A g \in {boxInstance, extraProcess, xrayInstance, xrayGate} \ {Nil} :
          g \in Gens
  BY LifecycleAssumption DEF TypeOK, Gens, Nil
<1>2. Sidecars \subseteq Resources
  BY <1>1, Made DEF Sidecars, TypeOK
<1>3. gen > 0 => gen \in Gens
  BY LifecycleAssumption DEF TypeOK, Gens
<1>4. gen > 0 => OpenedFull \subseteq Resources
  BY <1>3, Made DEF OpenedFull
<1> QED
  BY <1>1, <1>2, <1>3, <1>4

\* The empty core.
LEMMA InitInv == Init => TypeOK /\ SlotInv
<1>1. NoCfg \in CfgType
  BY LifecycleAssumption DEF NoCfg, CfgType
<1>2. Init => TypeOK
  <2>1. SUFFICES ASSUME Init PROVE TypeOK
    OBVIOUS
  <2>2. cfg \in [Gens -> CfgType]
    BY <1>1, <2>1 DEF Init
  <2>3. at \in Points /\ gen \in 0..MaxStarts /\ autoRedirectMark \in Nat
    BY <2>1, LifecycleAssumption DEF Init, Points
  <2>4. {boxInstance, extraProcess, xrayInstance, xrayGate} \subseteq 0..gen
    BY <2>1 DEF Init, Nil
  <2> QED
    BY <2>1, <2>2, <2>3, <2>4 DEF Init, TypeOK
<1>3. Init => SlotInv
  BY DEF Init, SlotInv, Nil
<1> QED
  BY <1>2, <1>3

\* Every step keeps the types.
LEMMA TypeStep == TypeOK /\ SlotInv /\ [Next]_vars => TypeOK'
<1> SUFFICES ASSUME TypeOK, SlotInv, [Next]_vars PROVE TypeOK'
  OBVIOUS
<1>a. gen \in 0..MaxStarts /\ 0 \in Nat /\ \A n \in Nat : n \in 0..n
  BY LifecycleAssumption DEF TypeOK
<1>b. at # "free" => gen \in Gens
  BY PointersTyped DEF SlotInv
<1>c. at # "free" => cfg[gen] \in CfgType
  BY <1>b DEF TypeOK
<1>1. ASSUME NEW c \in Cfgs, Start(c) PROVE TypeOK'
  <2>1. gen + 1 \in Gens /\ gen + 1 \in 0..MaxStarts /\ 0..gen \subseteq 0..(gen + 1)
    BY <1>1, <1>a, LifecycleAssumption DEF Start, Gens
  <2>2. cfg' \in [Gens -> CfgType]
    BY <1>1, <2>1, LifecycleAssumption DEF Start, TypeOK
  <2> QED
    BY <1>1, <2>1, <2>2
       DEF Start, TypeOK, Points, Goto, Nil, reqVars, boxVars, xrayVars,
           dnsVars
<1>2. ASSUME StartAlready PROVE TypeOK'
  BY <1>2, <1>a, <1>b
     DEF StartAlready, TypeOK, Points, Goto, Nil, reqVars, boxVars, xrayVars,
         dnsVars, Failed
<1>3. ASSUME StartExtra PROVE TypeOK'
  BY <1>3, <1>a, <1>b, <1>c, Made
     DEF StartExtra, TypeOK, Points, Goto, Nil, reqVars, boxVars, xrayVars,
         dnsVars, CfgType
<1>4. ASSUME StartExtraFail PROVE TypeOK'
  BY <1>4, <1>a, <1>b
     DEF StartExtraFail, TypeOK, Points, Goto, Nil, reqVars, boxVars,
         xrayVars, dnsVars, Failed
<1>5. ASSUME StartXray PROVE TypeOK'
  BY <1>5, <1>a, <1>b, Made
     DEF StartXray, TypeOK, Points, Goto, Nil, reqVars, boxVars, xrayVars,
         dnsVars
<1>6. ASSUME StartXrayFail PROVE TypeOK'
  BY <1>6, <1>a, <1>b
     DEF StartXrayFail, TypeOK, Points, Goto, Nil, reqVars, boxVars,
         xrayVars, dnsVars, Failed
<1>7. ASSUME NEW i \in 1..MaxFull, OpenFullGate(i) PROVE TypeOK'
  <2>a. \E ok \in BOOLEAN : opened' = opened \cup {<<i, ok>>}
    BY <1>7 DEF OpenFullGate
  <2>b. opened \subseteq (1..MaxFull) \X BOOLEAN
    BY DEF TypeOK
  <2>1. opened' \subseteq (1..MaxFull) \X BOOLEAN
    BY <2>a, <2>b
  <2>c. Full(gen, i) \in Resources
    BY <1>7, <1>b, Made DEF OpenFullGate
  <2>d. running' \subseteq running \cup {Full(gen, i)}
    BY <1>7 DEF OpenFullGate
  <2>2. running' \subseteq Resources
    BY <2>c, <2>d DEF TypeOK
  <2> QED
    BY <1>7, <2>1, <2>2
       DEF OpenFullGate, TypeOK, Points, Goto, Nil, reqVars, boxVars,
           xrayVars, dnsVars
<1>8. ASSUME StartFull PROVE TypeOK'
  <2>1. xrayFullGates' \subseteq Resources
    BY <1>8, <1>b, PointersTyped DEF StartFull, TypeOK, Goto, SlotInv
  <2> QED
    BY <1>8, <2>1
       DEF StartFull, TypeOK, Points, Goto, Nil, reqVars, boxVars, xrayVars,
           dnsVars
<1>9. ASSUME StartFullFail PROVE TypeOK'
  BY <1>9, <1>a, <1>b, PointersTyped
     DEF StartFullFail, TypeOK, Points, Goto, Nil, reqVars, boxVars,
         xrayVars, dnsVars, ClearXray
<1>10. ASSUME StartBox PROVE TypeOK'
  BY <1>10, <1>a, <1>b, Made
     DEF StartBox, TypeOK, Points, Goto, Nil, reqVars, boxVars, xrayVars,
         dnsVars
<1>11. ASSUME StartBoxFail PROVE TypeOK'
  BY <1>11, <1>a, <1>b, PointersTyped
     DEF StartBoxFail, TypeOK, Points, Goto, Nil, reqVars, boxVars, xrayVars,
         dnsVars, ClearXray
<1>12. ASSUME StartFail PROVE TypeOK'
  BY <1>12, <1>a, <1>b
     DEF StartFail, TypeOK, Points, Goto, Nil, reqVars, boxVars, xrayVars,
         dnsVars, Failed
<1>13. ASSUME StartDone PROVE TypeOK'
  BY <1>13, <1>a, <1>b
     DEF StartDone, TypeOK, Points, Goto, Nil, reqVars, boxVars, xrayVars,
         dnsVars
<1>14. ASSUME StopAllCores PROVE TypeOK'
  BY <1>14, <1>a, <1>b, Made
     DEF StopAllCores, TypeOK, Points, Goto, Nil, reqVars, boxVars, xrayVars,
         dnsVars, SlotInv
<1>15. ASSUME StopAllRest PROVE TypeOK'
  BY <1>15, <1>a, <1>b, PointersTyped
     DEF StopAllRest, TypeOK, Points, Goto, Nil, reqVars, boxVars, xrayVars,
         dnsVars, ClearXray
<1>16. ASSUME Stop PROVE TypeOK'
  <2>a. boxInstance \in Gens /\ closing' = {Box(boxInstance)}
    BY <1>16, PointersTyped DEF Stop
  <2>1. closing' \subseteq Resources
    BY <2>a, Made
  <2>2. sysDNS' \in {"own", "tun", "stuck"}
    BY <1>16 DEF Stop, TypeOK
  <2>3. /\ at' = "stop" /\ needUnsetDNS' = FALSE /\ boxInstance' = Nil
        /\ UNCHANGED <<reqVars, opened, autoRedirectMark, xrayVars,
                       extraProcess, running>>
    BY <1>16 DEF Stop, Goto
  <2>4. {boxInstance, extraProcess, xrayInstance, xrayGate}' \subseteq 0..gen'
    BY <1>a, <2>3 DEF TypeOK, Nil, reqVars, xrayVars
  <2>5. /\ at' \in Points /\ gen' \in 0..MaxStarts /\ overlapped' \in BOOLEAN
        /\ cfg' \in [Gens -> CfgType]
        /\ opened' \subseteq (1..MaxFull) \X BOOLEAN
    BY <2>3 DEF TypeOK, Points, reqVars
  <2>6. /\ xrayFullGates' \subseteq Resources /\ running' \subseteq Resources
        /\ needUnsetDNS' \in BOOLEAN /\ autoRedirectMark' \in Nat
    BY <2>3 DEF TypeOK, xrayVars
  <2> QED
    BY <2>1, <2>2, <2>4, <2>5, <2>6 DEF TypeOK
<1>17. ASSUME StopRest PROVE TypeOK'
  BY <1>17, <1>a, <1>b, PointersTyped
     DEF StopRest, TypeOK, Points, Goto, Nil, reqVars, boxVars, xrayVars,
         dnsVars, ClearXray
<1>18. ASSUME StopMark PROVE TypeOK'
  BY <1>18, <1>a, <1>b
     DEF StopMark, TypeOK, Points, Goto, Nil, reqVars, boxVars, xrayVars,
         dnsVars
<1>19. ASSUME ProcessExits PROVE TypeOK'
  BY <1>19, <1>a, <1>b
     DEF ProcessExits, TypeOK, Points, Goto, Nil, reqVars, boxVars, xrayVars,
         dnsVars
<1>20. ASSUME UNCHANGED vars PROVE TypeOK'
  BY <1>20
     DEF vars, TypeOK, Points, Goto, Nil, reqVars, boxVars, xrayVars, dnsVars
<1> QED
  BY <1>1, <1>2, <1>3, <1>4, <1>5, <1>6, <1>7, <1>8, <1>9, <1>10, <1>11,
     <1>12, <1>13, <1>14, <1>15, <1>16, <1>17, <1>18, <1>19, <1>20
     DEF Next

\* No slot for a sidecar holds a box or a process, and neither does the fan-out.
LEMMA SidecarKinds ==
    ASSUME TypeOK, SlotInv
    PROVE  /\ \A r \in Sidecars : r[1] \in {"xray", "gate", "full"}
           /\ \A r \in OpenedFull : r[1] = "full"
<1>1. \A g \in {xrayInstance, xrayGate} \ {Nil} : g \in Nat
  BY PointersTyped, LifecycleAssumption DEF Gens
<1>2. \A r \in xrayFullGates : r[1] = "full"
  BY DEF SlotInv
<1>3. \A r \in Sidecars : r[1] \in {"xray", "gate", "full"}
  BY <1>1, <1>2, Kinds DEF Sidecars
<1>4. \A i \in 1..MaxFull : Full(gen, i)[1] = "full"
  BY DEF Full
<1>5. \A r \in OpenedFull : r[1] = "full"
  BY <1>4 DEF OpenedFull
<1> QED
  BY <1>3, <1>5

\* Slots that are not assigned keep their sidecars, and closeXray empties them.
LEMMA SlotFrame ==
    /\ UNCHANGED xrayVars => Sidecars' = Sidecars
    /\ UNCHANGED <<gen, opened>> => OpenedFull' = OpenedFull
    /\ ClearXray => Sidecars' = {} /\ xrayFullGates' = {}
<1>1. UNCHANGED xrayVars => Sidecars' = Sidecars
  BY DEF xrayVars, Sidecars
<1>2. UNCHANGED <<gen, opened>> => OpenedFull' = OpenedFull
  BY DEF OpenedFull
<1>3. ClearXray => Sidecars' = {} /\ xrayFullGates' = {}
  BY DEF ClearXray, Sidecars
<1> QED
  BY <1>1, <1>2, <1>3

\* Whatever a client sends, a slot is cleared before what it names is closed and
\* is assigned only once it runs.
LEMMA SlotStep ==
    TypeOK /\ SlotInv /\ PublishedIsAlive /\ [Next]_vars
        => SlotInv' /\ PublishedIsAlive'
<1> SUFFICES ASSUME TypeOK, SlotInv, PublishedIsAlive, [Next]_vars
             PROVE  (SlotInv /\ PublishedIsAlive)'
  OBVIOUS
<1>a. /\ gen \in Nat
      /\ at # "free" => gen \in Gens
      /\ boxInstance # Nil => boxInstance \in Gens
      /\ Nil = 0
  BY PointersTyped, LifecycleAssumption DEF SlotInv, TypeOK, Nil
<1>b. /\ \A r \in Sidecars : r[1] \in {"xray", "gate", "full"}
      /\ \A r \in OpenedFull : r[1] = "full"
  BY SidecarKinds
<1>c. \A g \in Gens : Box(g)[1] = "box" /\ Proc(g)[1] = "proc"
  BY Kinds, LifecycleAssumption DEF Gens
<1>d. \A g : \A r \in ProcOf(g) : r[1] = "proc"
  BY DEF ProcOf, Proc
<1>1. ASSUME NEW c \in Cfgs, Start(c) PROVE (SlotInv /\ PublishedIsAlive)'
  <2>1. /\ at' = "extra" /\ gen' = gen + 1 /\ boxInstance' = Nil
        /\ UNCHANGED xrayVars /\ running' = running /\ closing' = {}
    BY <1>1 DEF Start, Goto, boxVars, SlotInv
  <2>2. Sidecars' = Sidecars /\ Sidecars \subseteq running
    BY <2>1, SlotFrame DEF PublishedIsAlive
  <2>3. SlotInv'
    BY <1>a, <2>1 DEF SlotInv, xrayVars
  <2> QED
    BY <2>1, <2>2, <2>3 DEF PublishedIsAlive
<1>2. ASSUME StartAlready PROVE (SlotInv /\ PublishedIsAlive)'
  BY <1>2, <1>a, <1>b, <1>c, <1>d, SlotFrame
     DEF StartAlready, Goto, SlotInv, PublishedIsAlive, reqVars, boxVars,
         xrayVars, Failed
<1>3. ASSUME StartExtra PROVE (SlotInv /\ PublishedIsAlive)'
  BY <1>3, <1>a, <1>b, <1>c, <1>d, SlotFrame
     DEF StartExtra, Goto, SlotInv, PublishedIsAlive, reqVars, boxVars,
         xrayVars
<1>4. ASSUME StartExtraFail PROVE (SlotInv /\ PublishedIsAlive)'
  BY <1>4, <1>a, <1>b, <1>c, <1>d, SlotFrame
     DEF StartExtraFail, Goto, SlotInv, PublishedIsAlive, reqVars, boxVars,
         xrayVars, Failed
<1>5. ASSUME StartXray PROVE (SlotInv /\ PublishedIsAlive)'
  <2>1. /\ at = "xray" /\ at' = "full" /\ opened' = {}
        /\ closing = {} /\ closing' = {} /\ boxInstance' = Nil
        /\ gen \in Gens /\ gen' = gen /\ xrayFullGates' = xrayFullGates
    BY <1>5, <1>a DEF StartXray, Goto, boxVars, reqVars, SlotInv
  <2>2. Sidecars' \subseteq running'
    <3>1. Sidecars \subseteq running
      BY DEF PublishedIsAlive
    <3>2. CASE cfg[gen].xray = "no"
      BY <1>5, <2>1, <3>1, <3>2 DEF StartXray, Sidecars
    <3>3. CASE cfg[gen].xray = "eager"
      <4>1. /\ xrayInstance' = gen /\ xrayGate' = Nil
            /\ running' = running \cup {Xray(gen)}
        BY <1>5, <3>3 DEF StartXray
      <4> QED
        BY <2>1, <3>1, <4>1 DEF Sidecars
    <3>4. CASE cfg[gen].xray = "lazy"
      <4>1. /\ xrayInstance' = Nil /\ xrayGate' = gen
            /\ running' = running \cup {Gate(gen)}
        BY <1>5, <3>4 DEF StartXray
      <4> QED
        BY <2>1, <3>1, <4>1 DEF Sidecars
    <3> QED
      BY <1>5, <3>2, <3>3, <3>4 DEF StartXray
  <2>3. OpenedFull' = {}
    BY <2>1 DEF OpenedFull
  <2>4. SlotInv'
    BY <1>a, <2>1, <2>3 DEF SlotInv
  <2> QED
    BY <2>1, <2>2, <2>4 DEF PublishedIsAlive
<1>6. ASSUME StartXrayFail PROVE (SlotInv /\ PublishedIsAlive)'
  BY <1>6, <1>a, <1>b, <1>c, <1>d, SlotFrame
     DEF StartXrayFail, Goto, SlotInv, PublishedIsAlive, reqVars, boxVars,
         xrayVars, Failed
<1>7. ASSUME NEW i \in 1..MaxFull, OpenFullGate(i) PROVE (SlotInv /\ PublishedIsAlive)'
  <2>1. /\ at = "full" /\ at' = "full" /\ running \subseteq running'
        /\ closing = {} /\ closing' = {} /\ boxInstance' = Nil
        /\ gen' = gen /\ UNCHANGED xrayVars
    BY <1>7 DEF OpenFullGate, boxVars, reqVars, SlotInv
  <2>2. OpenedFull' \subseteq running'
    <3>1. OpenedFull \subseteq running
      BY <2>1 DEF SlotInv
    <3>2. CASE opened' = opened \cup {<<i, TRUE>>} /\ running' = running \cup {Full(gen, i)}
      BY <2>1, <3>1, <3>2 DEF OpenedFull
    <3>3. CASE opened' = opened \cup {<<i, FALSE>>} /\ running' = running
      BY <2>1, <3>1, <3>3 DEF OpenedFull
    <3> QED
      BY <1>7, <3>2, <3>3 DEF OpenFullGate
  <2>3. Sidecars' = Sidecars /\ Sidecars \subseteq running
    BY <2>1, SlotFrame DEF PublishedIsAlive
  <2>4. SlotInv'
    BY <1>a, <2>1, <2>2 DEF SlotInv, xrayVars
  <2> QED
    BY <2>1, <2>3, <2>4 DEF PublishedIsAlive
<1>8. ASSUME StartFull PROVE (SlotInv /\ PublishedIsAlive)'
  <2>1. /\ at = "full" /\ at' = "box" /\ running' = running
        /\ closing = {} /\ closing' = {} /\ boxInstance' = Nil /\ gen' = gen
        /\ UNCHANGED <<xrayInstance, xrayGate>>
        /\ xrayFullGates' = OpenedFull \/ xrayFullGates' = xrayFullGates
    BY <1>8 DEF StartFull, Goto, boxVars, reqVars, SlotInv
  <2>2. OpenedFull \subseteq running /\ Sidecars \subseteq running
    BY <2>1 DEF SlotInv, PublishedIsAlive
  <2>3. Sidecars' \subseteq running'
    BY <2>1, <2>2 DEF Sidecars
  <2>4. SlotInv'
    BY <1>a, <1>b, <2>1 DEF SlotInv
  <2> QED
    BY <2>1, <2>3, <2>4 DEF PublishedIsAlive
<1>9. ASSUME StartFullFail PROVE (SlotInv /\ PublishedIsAlive)'
  BY <1>9, <1>a, <1>b, <1>c, <1>d, SlotFrame
     DEF StartFullFail, Goto, SlotInv, PublishedIsAlive, reqVars, boxVars,
         xrayVars
<1>10. ASSUME StartBox PROVE (SlotInv /\ PublishedIsAlive)'
  BY <1>10, <1>a, <1>b, <1>c, <1>d, SlotFrame
     DEF StartBox, Goto, SlotInv, PublishedIsAlive, reqVars, boxVars,
         xrayVars
<1>11. ASSUME StartBoxFail PROVE (SlotInv /\ PublishedIsAlive)'
  BY <1>11, <1>a, <1>b, <1>c, <1>d, SlotFrame
     DEF StartBoxFail, Goto, SlotInv, PublishedIsAlive, reqVars, boxVars,
         xrayVars
<1>12. ASSUME StartFail PROVE (SlotInv /\ PublishedIsAlive)'
  BY <1>12, <1>a, <1>b, <1>c, <1>d, SlotFrame
     DEF StartFail, Goto, SlotInv, PublishedIsAlive, reqVars, boxVars,
         xrayVars, Failed
<1>13. ASSUME StartDone PROVE (SlotInv /\ PublishedIsAlive)'
  BY <1>13, <1>a, <1>b, <1>c, <1>d, SlotFrame
     DEF StartDone, Goto, SlotInv, PublishedIsAlive, reqVars, boxVars,
         xrayVars
<1>14. ASSUME StopAllCores PROVE (SlotInv /\ PublishedIsAlive)'
  BY <1>14, <1>a, <1>b, <1>c, <1>d, SlotFrame
     DEF StopAllCores, Goto, SlotInv, PublishedIsAlive, reqVars, boxVars,
         xrayVars
<1>15. ASSUME StopAllRest PROVE (SlotInv /\ PublishedIsAlive)'
  BY <1>15, <1>a, <1>b, <1>c, <1>d, SlotFrame
     DEF StopAllRest, Goto, SlotInv, PublishedIsAlive, reqVars, boxVars,
         xrayVars
<1>16. ASSUME Stop PROVE (SlotInv /\ PublishedIsAlive)'
  <2>1. /\ at' = "stop" /\ boxInstance # Nil /\ boxInstance' = Nil
        /\ closing' = {Box(boxInstance)} /\ gen' = gen
        /\ UNCHANGED <<xrayVars, running>>
    BY <1>16 DEF Stop, Goto, reqVars
  <2>2. boxInstance \in Gens /\ gen \in Nat \ {0}
    BY <1>a, <2>1, LifecycleAssumption DEF TypeOK, Gens
  <2>3. Sidecars' = Sidecars /\ Sidecars \subseteq running \ closing'
    BY <1>b, <1>c, <2>1, <2>2, SlotFrame DEF PublishedIsAlive
  <2>4. SlotInv'
    BY <2>1, <2>2 DEF SlotInv, xrayVars
  <2> QED
    BY <2>1, <2>3, <2>4 DEF PublishedIsAlive
<1>17. ASSUME StopRest PROVE (SlotInv /\ PublishedIsAlive)'
  BY <1>17, <1>a, <1>b, <1>c, <1>d, SlotFrame
     DEF StopRest, Goto, SlotInv, PublishedIsAlive, reqVars, boxVars,
         xrayVars
<1>18. ASSUME StopMark PROVE (SlotInv /\ PublishedIsAlive)'
  BY <1>18, <1>a, <1>b, <1>c, <1>d, SlotFrame
     DEF StopMark, Goto, SlotInv, PublishedIsAlive, reqVars, boxVars,
         xrayVars
<1>19. ASSUME ProcessExits PROVE (SlotInv /\ PublishedIsAlive)'
  BY <1>19, <1>a, <1>b, <1>c, <1>d, SlotFrame
     DEF ProcessExits, Goto, SlotInv, PublishedIsAlive, reqVars, boxVars,
         xrayVars
<1>20. ASSUME UNCHANGED vars PROVE (SlotInv /\ PublishedIsAlive)'
  BY <1>20, SlotFrame
     DEF vars, Goto, SlotInv, PublishedIsAlive, reqVars, boxVars, xrayVars
<1> QED
  BY <1>1, <1>2, <1>3, <1>4, <1>5, <1>6, <1>7, <1>8, <1>9, <1>10, <1>11,
     <1>12, <1>13, <1>14, <1>15, <1>16, <1>17, <1>18, <1>19, <1>20
     DEF Next

\* The mark is stored with the profile and cleared with it.
LEMMA MarkStep == TypeOK /\ SlotInv /\ MarkInv /\ [Next]_vars => MarkInv'
<1> SUFFICES ASSUME TypeOK, SlotInv, MarkInv, [Next]_vars PROVE MarkInv'
  OBVIOUS
<1>a. Nil = 0 /\ (gen # 0 <=> gen > 0)
  BY LifecycleAssumption DEF Nil, TypeOK
<1>b. at # "free" => gen > 0
  BY DEF SlotInv
<1>1. ASSUME NEW c \in Cfgs, Start(c) PROVE MarkInv'
  BY <1>1, <1>a, <1>b
     DEF Start, MarkInv, SlotInv, Goto, Failed, reqVars, boxVars
<1>2. ASSUME StartAlready PROVE MarkInv'
  BY <1>2, <1>a, <1>b
     DEF StartAlready, MarkInv, SlotInv, Goto, Failed, reqVars, boxVars
<1>3. ASSUME StartExtra PROVE MarkInv'
  BY <1>3, <1>a, <1>b
     DEF StartExtra, MarkInv, SlotInv, Goto, Failed, reqVars, boxVars
<1>4. ASSUME StartExtraFail PROVE MarkInv'
  BY <1>4, <1>a, <1>b
     DEF StartExtraFail, MarkInv, SlotInv, Goto, Failed, reqVars, boxVars
<1>5. ASSUME StartXray PROVE MarkInv'
  BY <1>5, <1>a, <1>b
     DEF StartXray, MarkInv, SlotInv, Goto, Failed, reqVars, boxVars
<1>6. ASSUME StartXrayFail PROVE MarkInv'
  BY <1>6, <1>a, <1>b
     DEF StartXrayFail, MarkInv, SlotInv, Goto, Failed, reqVars, boxVars
<1>7. ASSUME NEW i \in 1..MaxFull, OpenFullGate(i) PROVE MarkInv'
  BY <1>7, <1>a, <1>b
     DEF OpenFullGate, MarkInv, SlotInv, Goto, Failed, reqVars, boxVars
<1>8. ASSUME StartFull PROVE MarkInv'
  BY <1>8, <1>a, <1>b
     DEF StartFull, MarkInv, SlotInv, Goto, Failed, reqVars, boxVars
<1>9. ASSUME StartFullFail PROVE MarkInv'
  BY <1>9, <1>a, <1>b
     DEF StartFullFail, MarkInv, SlotInv, Goto, Failed, reqVars, boxVars
<1>10. ASSUME StartBox PROVE MarkInv'
  BY <1>10, <1>a, <1>b
     DEF StartBox, MarkInv, SlotInv, Goto, Failed, reqVars, boxVars
<1>11. ASSUME StartBoxFail PROVE MarkInv'
  BY <1>11, <1>a, <1>b
     DEF StartBoxFail, MarkInv, SlotInv, Goto, Failed, reqVars, boxVars
<1>12. ASSUME StartFail PROVE MarkInv'
  BY <1>12, <1>a, <1>b
     DEF StartFail, MarkInv, SlotInv, Goto, Failed, reqVars, boxVars
<1>13. ASSUME StartDone PROVE MarkInv'
  BY <1>13, <1>a, <1>b
     DEF StartDone, MarkInv, SlotInv, Goto, Failed, reqVars, boxVars
<1>14. ASSUME StopAllCores PROVE MarkInv'
  BY <1>14, <1>a, <1>b
     DEF StopAllCores, MarkInv, SlotInv, Goto, Failed, reqVars, boxVars
<1>15. ASSUME StopAllRest PROVE MarkInv'
  BY <1>15, <1>a, <1>b
     DEF StopAllRest, MarkInv, SlotInv, Goto, Failed, reqVars, boxVars
<1>16. ASSUME Stop PROVE MarkInv'
  BY <1>16, <1>a, <1>b
     DEF Stop, MarkInv, SlotInv, Goto, Failed, reqVars, boxVars
<1>17. ASSUME StopRest PROVE MarkInv'
  BY <1>17, <1>a, <1>b
     DEF StopRest, MarkInv, SlotInv, Goto, Failed, reqVars, boxVars
<1>18. ASSUME StopMark PROVE MarkInv'
  BY <1>18, <1>a, <1>b
     DEF StopMark, MarkInv, SlotInv, Goto, Failed, reqVars, boxVars
<1>19. ASSUME ProcessExits PROVE MarkInv'
  BY <1>19, <1>a, <1>b
     DEF ProcessExits, MarkInv, SlotInv, Goto, Failed, reqVars, boxVars
<1>20. ASSUME UNCHANGED vars PROVE MarkInv'
  BY <1>20, <1>a, <1>b
     DEF vars, MarkInv, SlotInv, Goto, Failed, reqVars, boxVars
<1> QED
  BY <1>1, <1>2, <1>3, <1>4, <1>5, <1>6, <1>7, <1>8, <1>9, <1>10, <1>11,
     <1>12, <1>13, <1>14, <1>15, <1>16, <1>17, <1>18, <1>19, <1>20
     DEF Next

\* What a change of running means for the proxies among it.
LEMMA ProxyFrame ==
    /\ running' = running => Proxies' = Proxies
    /\ \A x : running' = running \cup {x} =>
            Proxies' = Proxies \cup (IF x[1] = "proc" THEN {} ELSE {x})
    /\ \A A, g : running' = (running \ A) \ ProcOf(g) => Proxies' = Proxies \ A
    /\ \A g : running' = running \ ProcOf(g) => Proxies' = Proxies
    /\ \A A : running' = running \ A => Proxies' = Proxies \ A
<1>1. \A g : \A r \in ProcOf(g) : r[1] = "proc"
  BY DEF ProcOf, Proc
<1>2. running' = running => Proxies' = Proxies
  BY DEF Proxies
<1>3. \A x : running' = running \cup {x} =>
            Proxies' = Proxies \cup (IF x[1] = "proc" THEN {} ELSE {x})
  BY DEF Proxies
<1>4. \A A, g : running' = (running \ A) \ ProcOf(g) => Proxies' = Proxies \ A
  BY <1>1 DEF Proxies
<1>5. \A A : running' = running \ A => Proxies' = Proxies \ A
  BY DEF Proxies
<1>6. \A g : running' = running \ ProcOf(g) => Proxies' = Proxies
  BY <1>1 DEF Proxies
<1> QED
  BY <1>2, <1>3, <1>4, <1>5, <1>6

\* Unless a Start is sent over a running box, resolver and slots follow the box.
LEMMA RestStep ==
    TypeOK /\ SlotInv /\ RestInv /\ [Next]_vars /\ ~overlapped' => RestInv'
<1> SUFFICES ASSUME TypeOK, SlotInv, RestInv, [Next]_vars, ~overlapped'
             PROVE  RestInv'
  OBVIOUS
<1>a. Nil = 0 /\ (gen # 0 <=> gen > 0)
  BY LifecycleAssumption DEF Nil, TypeOK
<1>b. at # "free" => gen > 0
  BY DEF SlotInv
<1>1. ASSUME NEW c \in Cfgs, Start(c) PROVE RestInv'
  BY <1>1, <1>a, <1>b, SlotFrame
     DEF Start, RestInv, SlotInv, Goto, Failed, reqVars, boxVars, xrayVars,
         dnsVars
<1>2. ASSUME StartAlready PROVE RestInv'
  BY <1>2, <1>a, <1>b, SlotFrame
     DEF StartAlready, RestInv, SlotInv, Goto, Failed, reqVars, boxVars,
         xrayVars, dnsVars
<1>3. ASSUME StartExtra PROVE RestInv'
  BY <1>3, <1>a, <1>b, SlotFrame
     DEF StartExtra, RestInv, SlotInv, Goto, Failed, reqVars, boxVars,
         xrayVars, dnsVars
<1>4. ASSUME StartExtraFail PROVE RestInv'
  BY <1>4, <1>a, <1>b, SlotFrame
     DEF StartExtraFail, RestInv, SlotInv, Goto, Failed, reqVars, boxVars,
         xrayVars, dnsVars
<1>5. ASSUME StartXray PROVE RestInv'
  <2>1. xrayFullGates = {} /\ xrayFullGates' = xrayFullGates
    BY <1>5 DEF StartXray, Goto, SlotInv, RestInv, Sidecars
  <2>2. /\ at = "xray" /\ at' = "full" /\ opened' = {}
        /\ UNCHANGED <<boxInstance, needUnsetDNS, sysDNS>>
    BY <1>5 DEF StartXray, Goto, boxVars, dnsVars
  <2> QED
    BY <2>1, <2>2 DEF RestInv, SlotInv
<1>6. ASSUME StartXrayFail PROVE RestInv'
  BY <1>6, <1>a, <1>b, SlotFrame
     DEF StartXrayFail, RestInv, SlotInv, Goto, Failed, reqVars, boxVars,
         xrayVars, dnsVars
<1>7. ASSUME NEW i \in 1..MaxFull, OpenFullGate(i) PROVE RestInv'
  <2>1. \A j \in 1..MaxFull : <<j, TRUE>> \in opened' => j <= cfg[gen].full
    <3>1. \/ opened' = opened \cup {<<i, TRUE>>}
          \/ opened' = opened \cup {<<i, FALSE>>}
      BY <1>7 DEF OpenFullGate
    <3>2. at = "full" /\ i <= cfg[gen].full
      BY <1>7 DEF OpenFullGate
    <3>3. \A j \in 1..MaxFull : <<j, TRUE>> \in opened => j <= cfg[gen].full
      BY <3>2 DEF RestInv
    <3> SUFFICES ASSUME NEW j \in 1..MaxFull, <<j, TRUE>> \in opened'
                 PROVE  j <= cfg[gen].full
      OBVIOUS
    <3>4. <<j, TRUE>> = <<i, TRUE>> => j = i
      OBVIOUS
    <3>5. <<j, TRUE>> # <<i, FALSE>>
      OBVIOUS
    <3>6. <<j, TRUE>> \in opened \/ j = i
      BY <3>1, <3>4, <3>5
    <3> QED
      BY <3>2, <3>3, <3>6
  <2>2. /\ at = "full" /\ at' = "full"
        /\ UNCHANGED <<gen, cfg, boxInstance, xrayFullGates, needUnsetDNS, sysDNS>>
    BY <1>7 DEF OpenFullGate, reqVars, boxVars, xrayVars, dnsVars
  <2> QED
    BY <2>1, <2>2 DEF RestInv
<1>8. ASSUME StartFull PROVE RestInv'
  BY <1>8, <1>a, <1>b, SlotFrame
     DEF StartFull, RestInv, SlotInv, Goto, Failed, reqVars, boxVars,
         xrayVars, dnsVars
<1>9. ASSUME StartFullFail PROVE RestInv'
  BY <1>9, <1>a, <1>b, SlotFrame
     DEF StartFullFail, RestInv, SlotInv, Goto, Failed, reqVars, boxVars,
         xrayVars, dnsVars
<1>10. ASSUME StartBox PROVE RestInv'
  BY <1>10, <1>a, <1>b, SlotFrame
     DEF StartBox, RestInv, SlotInv, Goto, Failed, reqVars, boxVars,
         xrayVars, dnsVars
<1>11. ASSUME StartBoxFail PROVE RestInv'
  BY <1>11, <1>a, <1>b, SlotFrame
     DEF StartBoxFail, RestInv, SlotInv, Goto, Failed, reqVars, boxVars,
         xrayVars, dnsVars
<1>12. ASSUME StartFail PROVE RestInv'
  BY <1>12, <1>a, <1>b, SlotFrame
     DEF StartFail, RestInv, SlotInv, Goto, Failed, reqVars, boxVars,
         xrayVars, dnsVars
<1>13. ASSUME StartDone PROVE RestInv'
  BY <1>13, <1>a, <1>b, SlotFrame
     DEF StartDone, RestInv, SlotInv, Goto, Failed, reqVars, boxVars,
         xrayVars, dnsVars
<1>14. ASSUME StopAllCores PROVE RestInv'
  <2>1. closing' = Boxes' /\ at = "dns" /\ at' = "stopall"
    BY <1>14, <1>a, <1>b DEF StopAllCores, Goto, SlotInv, Boxes, boxVars
  <2> QED
    BY <1>14, <2>1 DEF StopAllCores, RestInv, dnsVars, boxVars
<1>15. ASSUME StopAllRest PROVE RestInv'
  BY <1>15, <1>a, <1>b, SlotFrame
     DEF StopAllRest, RestInv, SlotInv, Goto, Failed, reqVars, boxVars,
         xrayVars, dnsVars
<1>16. ASSUME Stop PROVE RestInv'
  BY <1>16, <1>a, <1>b, SlotFrame
     DEF Stop, RestInv, SlotInv, Goto, Failed, reqVars, boxVars, xrayVars,
         dnsVars
<1>17. ASSUME StopRest PROVE RestInv'
  BY <1>17, <1>a, <1>b, SlotFrame
     DEF StopRest, RestInv, SlotInv, Goto, Failed, reqVars, boxVars,
         xrayVars, dnsVars
<1>18. ASSUME StopMark PROVE RestInv'
  BY <1>18, <1>a, <1>b, SlotFrame
     DEF StopMark, RestInv, SlotInv, Goto, Failed, reqVars, boxVars,
         xrayVars, dnsVars
<1>19. ASSUME ProcessExits PROVE RestInv'
  BY <1>19, SlotFrame
     DEF ProcessExits, RestInv, Boxes, reqVars, boxVars, xrayVars, dnsVars
<1>20. ASSUME UNCHANGED vars PROVE RestInv'
  BY <1>20, SlotFrame
     DEF vars, RestInv, Boxes, reqVars, boxVars, xrayVars, dnsVars
<1> QED
  BY <1>1, <1>2, <1>3, <1>4, <1>5, <1>6, <1>7, <1>8, <1>9, <1>10, <1>11,
     <1>12, <1>13, <1>14, <1>15, <1>16, <1>17, <1>18, <1>19, <1>20
     DEF Next


\* Unless a Start is sent over a running box, each step moves what it starts into
\* a slot, and what it takes out of a slot to closing and then out of running.
LEMMA ExactStep ==
    TypeOK /\ SlotInv /\ ExactInv /\ RestInv /\ [Next]_vars /\ ~overlapped'
        => ExactInv'
<1> SUFFICES ASSUME TypeOK, SlotInv, ExactInv, RestInv, [Next]_vars, ~overlapped'
             PROVE  ExactInv'
  OBVIOUS
<1>a. Nil = 0 /\ (gen # 0 <=> gen > 0)
  BY LifecycleAssumption DEF Nil, TypeOK
<1>b. at # "free" => gen > 0
  BY DEF SlotInv
<1>c. /\ \A r \in Sidecars : r[1] \in {"xray", "gate", "full"}
      /\ \A r \in OpenedFull : r[1] = "full"
  BY SidecarKinds
<1>d. /\ \A g : Box(g)[1] = "box" /\ Proc(g)[1] = "proc"
      /\ \A g : Xray(g)[1] = "xray" /\ Gate(g)[1] = "gate"
      /\ \A g, i : Full(g, i)[1] = "full"
  BY DEF Box, Proc, Xray, Gate, Full
<1>e. /\ at # "full" => Opening = {}
      /\ at' # "full" => Opening' = {}
  BY DEF Opening
<1>f. /\ boxInstance' = boxInstance => Boxes' = Boxes
      /\ boxInstance' = Nil => Boxes' = {}
      /\ boxInstance = Nil => Boxes = {}
      /\ boxInstance # Nil => Boxes = {Box(boxInstance)}
  BY DEF Boxes
<1>1. ASSUME NEW c \in Cfgs, Start(c) PROVE ExactInv'
  BY <1>1, <1>a, <1>b, <1>e, <1>f, SlotFrame, ProxyFrame
     DEF Start, ExactInv, RestInv, SlotInv, Goto, Failed, reqVars, boxVars,
         xrayVars, dnsVars
<1>2. ASSUME StartAlready PROVE ExactInv'
  BY <1>2 DEF StartAlready
<1>3. ASSUME StartExtra PROVE ExactInv'
  <2>1. /\ at = "extra" /\ at' = "xray"
        /\ UNCHANGED <<boxInstance, xrayVars, closing>>
    BY <1>3 DEF StartExtra, Goto
  <2>2. Proxies' = Proxies
    BY <1>3, <1>d, ProxyFrame DEF StartExtra
  <2> QED
    BY <1>e, <1>f, <2>1, <2>2, SlotFrame DEF ExactInv
<1>4. ASSUME StartExtraFail PROVE ExactInv'
  BY <1>4, <1>a, <1>b, <1>e, <1>f, SlotFrame, ProxyFrame
     DEF StartExtraFail, ExactInv, RestInv, SlotInv, Goto, Failed, reqVars,
         boxVars, xrayVars, dnsVars
<1>5. ASSUME StartXray PROVE ExactInv'
  <2>1. /\ at = "xray" /\ at' = "full" /\ opened' = {} /\ closing' = {}
        /\ UNCHANGED <<boxInstance, xrayFullGates>> /\ boxInstance = Nil
    BY <1>5 DEF StartXray, Goto, boxVars, SlotInv
  <2>2. Proxies = {} /\ Sidecars = {} /\ xrayFullGates = {} /\ Boxes' = {}
    BY <1>e, <1>f, <2>1 DEF ExactInv, RestInv, SlotInv, Sidecars
  <2>3. Opening' = {}
    BY <2>1 DEF Opening, OpenedFull
  <2>4. Proxies' = Sidecars'
    <3>1. CASE UNCHANGED <<xrayInstance, xrayGate, running>>
      BY <2>1, <2>2, <3>1, SlotFrame, ProxyFrame DEF xrayVars
    <3>2. CASE /\ xrayInstance' = gen /\ xrayGate' = Nil
               /\ running' = running \cup {Xray(gen)}
      <4>1. Proxies' = {Xray(gen)}
        BY <1>d, <2>2, <3>2, ProxyFrame
      <4>2. Sidecars' = {Xray(gen)}
        BY <1>a, <1>b, <2>1, <2>2, <3>2 DEF Sidecars
      <4> QED
        BY <4>1, <4>2
    <3>3. CASE /\ xrayInstance' = Nil /\ xrayGate' = gen
               /\ running' = running \cup {Gate(gen)}
      <4>1. Proxies' = {Gate(gen)}
        BY <1>d, <2>2, <3>3, ProxyFrame
      <4>2. Sidecars' = {Gate(gen)}
        BY <1>a, <1>b, <2>1, <2>2, <3>3 DEF Sidecars
      <4> QED
        BY <4>1, <4>2
    <3> QED
      BY <1>5, <3>1, <3>2, <3>3 DEF StartXray
  <2> QED
    BY <2>1, <2>2, <2>3, <2>4 DEF ExactInv
<1>6. ASSUME StartXrayFail PROVE ExactInv'
  BY <1>6, <1>a, <1>b, <1>e, <1>f, SlotFrame, ProxyFrame
     DEF StartXrayFail, ExactInv, RestInv, SlotInv, Goto, Failed, reqVars,
         boxVars, xrayVars, dnsVars
<1>7. ASSUME NEW i \in 1..MaxFull, OpenFullGate(i) PROVE ExactInv'
  <2>1. /\ at = "full" /\ at' = "full" /\ gen' = gen
        /\ UNCHANGED <<boxInstance, xrayVars, closing>>
    BY <1>7 DEF OpenFullGate, reqVars, boxVars
  <2>2. Opening = OpenedFull /\ Opening' = OpenedFull'
    BY <2>1 DEF Opening
  <2>3. CASE opened' = opened \cup {<<i, TRUE>>} /\ running' = running \cup {Full(gen, i)}
    <3>1. OpenedFull' = OpenedFull \cup {Full(gen, i)}
      BY <2>1, <2>3 DEF OpenedFull
    <3>2. Proxies' = Proxies \cup {Full(gen, i)}
      BY <1>d, <2>3, ProxyFrame
    <3> QED
      BY <1>f, <2>1, <2>2, <3>1, <3>2, SlotFrame DEF ExactInv
  <2>4. CASE opened' = opened \cup {<<i, FALSE>>} /\ running' = running
    <3>1. OpenedFull' = OpenedFull
      BY <2>1, <2>4 DEF OpenedFull
    <3> QED
      BY <1>f, <2>1, <2>2, <2>4, <3>1, SlotFrame, ProxyFrame DEF ExactInv
  <2> QED
    BY <1>7, <2>3, <2>4 DEF OpenFullGate
<1>8. ASSUME StartFull PROVE ExactInv'
  <2>1. /\ at = "full" /\ at' = "box" /\ running' = running
        /\ UNCHANGED <<boxInstance, closing, xrayInstance, xrayGate>>
    BY <1>8 DEF StartFull, Goto, boxVars
  <2>2. xrayFullGates = {} /\ xrayFullGates' = OpenedFull
    <3>1. cfg[gen].full > 0 => xrayFullGates' = OpenedFull
      BY <1>8 DEF StartFull
    <3>2. ~(cfg[gen].full > 0) => xrayFullGates' = xrayFullGates
      BY <1>8 DEF StartFull
    <3>3. ~(cfg[gen].full > 0) => OpenedFull = {}
      <4>1. gen \in Gens
        BY <1>b, <2>1, PointersTyped
      <4>2. cfg[gen].full \in Nat
        BY <4>1, LifecycleAssumption DEF TypeOK, CfgType
      <4>3. ~(cfg[gen].full > 0) => \A j \in 1..MaxFull : <<j, TRUE>> \notin opened
        <5> SUFFICES ASSUME NEW j \in 1..MaxFull, <<j, TRUE>> \in opened
                     PROVE  cfg[gen].full > 0
          OBVIOUS
        <5>1. j <= cfg[gen].full
          BY <2>1 DEF RestInv
        <5>2. j \in Nat /\ j >= 1
          BY LifecycleAssumption
        <5> QED
          BY <4>2, <5>1, <5>2
      <4> QED
        BY <4>3 DEF OpenedFull
    <3> QED
      BY <2>1, <3>1, <3>2, <3>3 DEF RestInv
  <2>3. Sidecars' = Sidecars \cup OpenedFull
    BY <2>1, <2>2 DEF Sidecars
  <2> QED
    BY <1>e, <1>f, <2>1, <2>3, ProxyFrame DEF ExactInv, Opening
<1>9. ASSUME StartFullFail PROVE ExactInv'
  <2>1. /\ at = "full" /\ at' = "fail" /\ running' = running \ OpenedFull
        /\ boxInstance = Nil /\ boxInstance' = Nil /\ closing = {}
        /\ closing' = Sidecars /\ ClearXray
    BY <1>9 DEF StartFullFail, Goto, boxVars, SlotInv
  <2>2. Proxies' = Proxies \ OpenedFull
    BY <2>1, ProxyFrame
  <2>3. Proxies = Sidecars \cup OpenedFull
    BY <1>f, <2>1 DEF ExactInv, Opening
  <2>4. Sidecars \cap OpenedFull = {}
    <3>1. xrayFullGates = {}
      BY <2>1 DEF RestInv
    <3>2. \A r \in Sidecars : r[1] # "full"
      BY <1>d, <3>1 DEF Sidecars
    <3> QED
      BY <1>c, <3>2
  <2> QED
    BY <1>e, <1>f, <2>1, <2>2, <2>3, <2>4, SlotFrame DEF ExactInv
<1>10. ASSUME StartBox PROVE ExactInv'
  <2>1. /\ at = "box" /\ at' = "dns" /\ running' = running \cup {Box(gen)}
        /\ boxInstance = Nil /\ boxInstance' = gen /\ gen' = gen
        /\ UNCHANGED <<closing, xrayVars>>
    BY <1>10 DEF StartBox, Goto, SlotInv, reqVars
  <2>2. Proxies' = Proxies \cup {Box(gen)}
    BY <1>d, <2>1, ProxyFrame
  <2>3. Boxes' = {Box(gen)}
    BY <1>a, <1>b, <2>1 DEF Boxes
  <2> QED
    BY <1>e, <1>f, <2>1, <2>2, <2>3, SlotFrame DEF ExactInv
<1>11. ASSUME StartBoxFail PROVE ExactInv'
  <2>1. /\ at = "box" /\ at' = "fail" /\ running' = running \ ProcOf(extraProcess)
        /\ boxInstance = Nil /\ boxInstance' = Nil /\ closing = {}
        /\ closing' = Sidecars /\ ClearXray
    BY <1>11 DEF StartBoxFail, Goto, boxVars, SlotInv
  <2>2. Proxies' = Proxies
    BY <2>1, ProxyFrame
  <2> QED
    BY <1>e, <1>f, <2>1, <2>2, SlotFrame DEF ExactInv
<1>12. ASSUME StartFail PROVE ExactInv'
  <2>1. /\ at = "fail" /\ at' = "free" /\ running' = running \ closing
        /\ boxInstance = Nil /\ boxInstance' = Nil /\ closing' = {}
        /\ UNCHANGED xrayVars /\ Sidecars = {}
    BY <1>12 DEF StartFail, Goto, Failed, SlotInv
  <2>2. Proxies' = Proxies \ closing
    BY <2>1, ProxyFrame
  <2> QED
    BY <1>e, <1>f, <2>1, <2>2, SlotFrame DEF ExactInv
<1>13. ASSUME StartDone PROVE ExactInv'
  BY <1>13, <1>a, <1>b, <1>e, <1>f, SlotFrame, ProxyFrame
     DEF StartDone, ExactInv, RestInv, SlotInv, Goto, Failed, reqVars,
         boxVars, xrayVars, dnsVars
<1>14. ASSUME StopAllCores PROVE ExactInv'
  <2>1. /\ at = "dns" /\ at' = "stopall" /\ running' = running
        /\ boxInstance # Nil /\ boxInstance' = boxInstance /\ closing = {}
        /\ closing' = {Box(boxInstance)} /\ UNCHANGED xrayVars
    BY <1>14, <1>a, <1>b DEF StopAllCores, Goto, SlotInv, boxVars
  <2> QED
    BY <1>e, <1>f, <2>1, SlotFrame, ProxyFrame DEF ExactInv
<1>15. ASSUME StopAllRest PROVE ExactInv'
  <2>1. /\ at = "stopall" /\ at' = "fail"
        /\ running' = (running \ closing) \ ProcOf(extraProcess)
        /\ boxInstance' = Nil /\ closing' = Sidecars /\ ClearXray
        /\ closing = Boxes
    BY <1>15 DEF StopAllRest, Goto, RestInv
  <2>2. Proxies' = Proxies \ closing
    BY <2>1, ProxyFrame
  <2>3. Sidecars \cap Boxes = {}
    BY <1>c, <1>d DEF Boxes
  <2> QED
    BY <1>e, <1>f, <2>1, <2>2, <2>3, SlotFrame DEF ExactInv
<1>16. ASSUME Stop PROVE ExactInv'
  <2>1. /\ at = "free" /\ at' = "stop" /\ running' = running
        /\ boxInstance # Nil /\ boxInstance' = Nil /\ closing = {}
        /\ closing' = {Box(boxInstance)} /\ UNCHANGED xrayVars
    BY <1>16 DEF Stop, Goto, SlotInv
  <2> QED
    BY <1>e, <1>f, <2>1, SlotFrame, ProxyFrame DEF ExactInv
<1>17. ASSUME StopRest PROVE ExactInv'
  <2>1. /\ at = "stop" /\ at' = "mark"
        /\ running' = (running \ closing) \ ProcOf(extraProcess)
        /\ boxInstance = Nil /\ boxInstance' = Nil
        /\ closing' = Sidecars /\ ClearXray
    BY <1>17 DEF StopRest, Goto, SlotInv, boxVars
  <2>2. Proxies' = Proxies \ closing
    BY <2>1, ProxyFrame
  <2>3. Sidecars \cap closing = {}
    BY <1>c, <1>d, <2>1 DEF SlotInv
  <2> QED
    BY <1>e, <1>f, <2>1, <2>2, <2>3, SlotFrame DEF ExactInv
<1>18. ASSUME StopMark PROVE ExactInv'
  <2>1. /\ at = "mark" /\ at' = "free" /\ running' = running \ closing
        /\ boxInstance = Nil /\ boxInstance' = Nil /\ closing' = {}
        /\ UNCHANGED xrayVars /\ Sidecars = {}
    BY <1>18 DEF StopMark, Goto, SlotInv
  <2>2. Proxies' = Proxies \ closing
    BY <2>1, ProxyFrame
  <2> QED
    BY <1>e, <1>f, <2>1, <2>2, SlotFrame DEF ExactInv
<1>19. ASSUME ProcessExits PROVE ExactInv'
  <2>1. /\ at' = at /\ UNCHANGED <<boxInstance, gen, opened, closing, xrayVars>>
    BY <1>19 DEF ProcessExits, boxVars, reqVars
  <2>2. PICK g \in Gens : running' = running \ {Proc(g)}
    BY <1>19 DEF ProcessExits
  <2>3. Proxies' = Proxies
    BY <1>d, <2>2 DEF Proxies
  <2>4. Opening' = Opening
    BY <2>1, SlotFrame DEF Opening
  <2> QED
    BY <1>f, <2>1, <2>3, <2>4, SlotFrame DEF ExactInv
<1>20. ASSUME UNCHANGED vars PROVE ExactInv'
  BY <1>20, <1>f, SlotFrame, ProxyFrame
     DEF vars, ExactInv, Opening, reqVars, boxVars
<1> QED
  BY <1>1, <1>2, <1>3, <1>4, <1>5, <1>6, <1>7, <1>8, <1>9, <1>10, <1>11,
     <1>12, <1>13, <1>14, <1>15, <1>16, <1>17, <1>18, <1>19, <1>20
     DEF Next

\* The invariant is inductive.
LEMMA NextInv == IInv /\ [Next]_vars => IInv'
<1> SUFFICES ASSUME IInv, [Next]_vars PROVE IInv'
  OBVIOUS
<1>1. TypeOK' /\ SlotInv' /\ PublishedIsAlive' /\ MarkInv'
  BY TypeStep, SlotStep, MarkStep DEF IInv
<1>2. ~overlapped' => ~overlapped
  BY DEF Next, vars, reqVars, Start, StartAlready, StartExtra, StartExtraFail,
         StartXray, StartXrayFail, OpenFullGate, StartFull, StartFullFail,
         StartBox, StartBoxFail, StartFail, StartDone, StopAllCores, StopAllRest,
         Stop, StopRest, StopMark, ProcessExits
<1>3. ~overlapped' => ExactInv' /\ RestInv'
  BY <1>2, ExactStep, RestStep DEF IInv
<1> QED
  BY <1>1, <1>3 DEF IInv

\* The core starts in it.
LEMMA InitIInv == Init => IInv
<1> SUFFICES ASSUME Init PROVE IInv
  OBVIOUS
<1>1. Sidecars = {} /\ Boxes = {} /\ Opening = {} /\ Proxies = {}
  BY DEF Init, Sidecars, Boxes, Opening, Proxies
<1>2. PublishedIsAlive /\ MarkInv
  BY <1>1 DEF Init, PublishedIsAlive, MarkInv
<1>3. ExactInv /\ RestInv
  BY <1>1 DEF Init, ExactInv, RestInv
<1> QED
  BY <1>2, <1>3, InitInv DEF IInv

\* The invariant holds in every reachable state, whichever steps of however many
\* Starts fail.
THEOREM LifecycleInvariant == Spec => []IInv
BY InitIInv, NextInv, PTL DEF Spec

\* Pointers, flags and resources keep their types.
THEOREM LifecycleTypes == Spec => []TypeOK
<1>1. IInv => TypeOK
  BY DEF IInv
<1> QED
  BY <1>1, LifecycleInvariant, PTL

\* Nothing that proxies is out of reach of a later Stop.
THEOREM LifecycleRunning == Spec => []RunningIsPublished
<1>1. IInv => RunningIsPublished
  BY DEF IInv, SlotInv, ExactInv, Boxes, Opening, RunningIsPublished
<1> QED
  BY <1>1, LifecycleInvariant, PTL

\* A stopped core leaves nothing behind.
THEOREM LifecycleClean == Spec => []StoppedIsClean
<1>1. IInv => StoppedIsClean
  <2> SUFFICES ASSUME IInv, at = "free", boxInstance = Nil
               PROVE  /\ autoRedirectMark = 0
                      /\ ~overlapped => Proxies = {} /\ ~needUnsetDNS /\ sysDNS # "tun"
    BY DEF StoppedIsClean
  <2>1. Boxes = {} /\ Opening = {} /\ closing = {}
    BY DEF Boxes, Opening, IInv, SlotInv
  <2> QED
    BY <2>1 DEF IInv, MarkInv, ExactInv, RestInv
<1> QED
  BY <1>1, LifecycleInvariant, PTL

\* No poll, test or interface monitor picks up an instance that is going down.
THEOREM LifecycleAlive == Spec => []PublishedIsAlive
<1>1. IInv => PublishedIsAlive
  BY DEF IInv
<1> QED
  BY <1>1, LifecycleInvariant, PTL

\* The exemption mark is the published box's.
THEOREM LifecycleMark == Spec => []MarkIsPublished
<1>1. IInv => MarkIsPublished
  BY DEF IInv, MarkInv, MarkIsPublished
<1> QED
  BY <1>1, LifecycleInvariant, PTL
=============================================================================
