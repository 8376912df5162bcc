--------------------------- MODULE AudioPathProofs ---------------------------
(***************************************************************************)
(* Proofs about AudioPath, for every set of endpoints, every set of        *)
(* requests and every compatibility relation, symmetric or not.            *)
(*                                                                         *)
(* The inductive invariant is the conjunction of the type invariant, the   *)
(* agreement of activePaths with the suspended-by lists and the mirroring  *)
(* of the two lists; the priorities and the connected pairs follow by      *)
(* induction on top of it.                                                 *)
(***************************************************************************)
EXTENDS AudioPath, TLAPS

IInv ==
  /\ TypeOK
  /\ ActiveAgrees
  /\ ListsMirror
  /\ SuspendersOutrank
  /\ NothingLeftConnected

(* What a granted request does to the routes. *)
LEMMA OpenRoutes ==
  ASSUME IInv, NEW pair \in Pairs, NEW prio \in Priority, Open(pair, prio)
  PROVE  /\ pathCounter \notin Live
         /\ Conflicting(pair) \subseteq activePaths /\ activePaths \subseteq Live
         /\ Live' = Live \cup {pathCounter}
         /\ routes'[pathCounter] = [pair |-> pair, prio |-> prio,
              suspendList |-> Conflicting(pair), suspendedBy |-> {}]
         /\ \A i \in Live :
              /\ routes'[i].pair = routes[i].pair
              /\ routes'[i].prio = routes[i].prio
              /\ routes'[i].suspendList = routes[i].suspendList
              /\ \A j : j \in routes'[i].suspendedBy <=>
                   \/ j \in routes[i].suspendedBy
                   \/ i \in Conflicting(pair) /\ j = pathCounter
  BY DEF IInv, TypeOK, Open, Live, Conflicting, Route, Ids

(* What a release of a live path does to the routes. *)
LEMMA CloseRoutes ==
  ASSUME IInv, NEW id, Close(id)
  PROVE  /\ id \in Live
         /\ Live' = Live \ {id}
         /\ Resumed(id) \subseteq routes[id].suspendList
         /\ \A i \in Live' :
              /\ routes'[i].pair = routes[i].pair
              /\ routes'[i].prio = routes[i].prio
              /\ \A j : j \in routes'[i].suspendList <=>
                   IF i \in routes[id].suspendedBy
                   THEN (j \in routes[i].suspendList /\ j # id) \/ j \in routes[id].suspendList
                   ELSE j \in routes[i].suspendList
              /\ \A j : j \in routes'[i].suspendedBy <=>
                   IF i \in routes[id].suspendList
                   THEN (j \in routes[i].suspendedBy /\ j # id) \/ j \in routes[id].suspendedBy
                   ELSE j \in routes[i].suspendedBy
<1>1. /\ id \in Live
      /\ routes' = [i \in Live \ {id} |->
           [routes[i] EXCEPT !.suspendList = ListAfter(i, id),
                             !.suspendedBy = ByAfter(i, id)]]
      /\ routes \in [Live -> Route]
  BY DEF IInv, TypeOK, Close, Live
<1>2. Live' = Live \ {id} /\ Resumed(id) \subseteq routes[id].suspendList
  BY <1>1 DEF Live, Resumed
<1>3. ASSUME NEW i \in Live'
      PROVE  /\ routes'[i].pair = routes[i].pair
             /\ routes'[i].prio = routes[i].prio
             /\ routes'[i].suspendList = ListAfter(i, id)
             /\ routes'[i].suspendedBy = ByAfter(i, id)
  BY <1>1, <1>2, <1>3 DEF Route
<1>4. ASSUME NEW i \in Live'
      PROVE  /\ routes'[i].pair = routes[i].pair
             /\ routes'[i].prio = routes[i].prio
             /\ \A j : j \in routes'[i].suspendList <=>
                  IF i \in routes[id].suspendedBy
                  THEN (j \in routes[i].suspendList /\ j # id) \/ j \in routes[id].suspendList
                  ELSE j \in routes[i].suspendList
             /\ \A j : j \in routes'[i].suspendedBy <=>
                  IF i \in routes[id].suspendList
                  THEN (j \in routes[i].suspendedBy /\ j # id) \/ j \in routes[id].suspendedBy
                  ELSE j \in routes[i].suspendedBy
  BY <1>3, <1>4 DEF ListAfter, ByAfter
<1> QED
  BY <1>1, <1>2, <1>4

-----------------------------------------------------------------------------
LEMMA InitIInv == Init => IInv
  BY DEF Init, IInv, TypeOK, ActiveAgrees, ListsMirror, SuspendersOutrank,
         NothingLeftConnected, Live, Ids, Route

(* A granted request preserves the invariant. *)
LEMMA OpenIInv ==
  ASSUME IInv, NEW pair \in Pairs, NEW prio \in Priority, Open(pair, prio)
  PROVE  IInv'
<1> DEFINE toSuspend == Conflicting(pair)
           new == pathCounter
<1>1. /\ new \notin Live /\ toSuspend \subseteq activePaths
      /\ activePaths \subseteq Live
      /\ Live' = Live \cup {new}
      /\ routes'[new] = [pair |-> pair, prio |-> prio,
                         suspendList |-> toSuspend, suspendedBy |-> {}]
      /\ \A i \in Live :
           /\ routes'[i].pair = routes[i].pair
           /\ routes'[i].prio = routes[i].prio
           /\ routes'[i].suspendList = routes[i].suspendList
           /\ \A j : j \in routes'[i].suspendedBy <=>
                   j \in routes[i].suspendedBy \/ (i \in toSuspend /\ j = new)
  BY OpenRoutes
<1>2. /\ activePaths' = (activePaths \ toSuspend) \cup {new}
      /\ pathCounter' = new + 1
      /\ connected' = (connected \ {routes[i].pair : i \in toSuspend}) \cup {pair}
      /\ \A i \in toSuspend : routes[i].prio < prio
  BY DEF Open, Granted, ConnectedByOpen
<1>3. /\ \A i \in Live : /\ routes[i].suspendList \subseteq Live
                         /\ routes[i].suspendedBy \subseteq Live
                         /\ routes[i].prio \in Int
      /\ \A i, j \in Live : j \in routes[i].suspendList
                              <=> i \in routes[j].suspendedBy
      /\ \A j \in Live : \A i \in routes[j].suspendedBy :
           routes[j].prio < routes[i].prio
      /\ \A i \in Live : i \in activePaths <=> routes[i].suspendedBy = {}
  BY DEF IInv, TypeOK, ListsMirror, SuspendersOutrank, ActiveAgrees, isActive,
         Route, Priority
<1> HIDE DEF toSuspend, new
<1>4. TypeOK'
  <2>1. /\ pathCounter' \in Ids /\ Live' \subseteq 1 .. (pathCounter' - 1)
        /\ new \in Ids /\ Live \subseteq Ids
    BY <1>1, <1>2 DEF IInv, TypeOK, Ids, new
  <2>2. routes' \in [Live' -> Route]
    <3>1. \A i \in Live : routes[i] \in Route
      BY DEF IInv, TypeOK
    <3>2. toSuspend \subseteq Ids
      BY <1>1, <2>1
    <3>3. \A i \in Live' : routes'[i] \in Route
      BY <1>1, <2>1, <3>1, <3>2 DEF Open, Route, new, toSuspend
    <3>4. routes' = [i \in Live' |-> routes'[i]]
      BY <1>1 DEF Open, Live, new
    <3> QED
      BY <3>3, <3>4
  <2>3. ASSUME NEW i \in Live'
        PROVE  routes'[i].suspendList \cup routes'[i].suspendedBy \subseteq Live'
    <3>1. CASE i = new
      BY <1>1, <3>1
    <3>2. CASE i \in Live
      BY <1>1, <1>3, <3>2
    <3> QED
      BY <1>1, <3>1, <3>2
  <2>4. activePaths' \subseteq Live' /\ connected' \subseteq Pairs
    BY <1>1, <1>2 DEF IInv, TypeOK
  <2> QED
    BY <2>1, <2>2, <2>3, <2>4 DEF TypeOK
<1>5. ActiveAgrees'
  <2> SUFFICES ASSUME NEW i \in Live'
               PROVE  i \in activePaths' <=> routes'[i].suspendedBy = {}
    BY <1>4 DEF ActiveAgrees, isActive, TypeOK
  <2>1. CASE i = new
    BY <1>1, <1>2, <2>1
  <2>2. CASE i \in Live
    BY <1>1, <1>2, <1>3, <2>2
  <2> QED
    BY <1>1, <2>1, <2>2
<1>6. ListsMirror'
  <2> SUFFICES ASSUME NEW i \in Live', NEW j \in Live'
               PROVE  j \in routes'[i].suspendList <=> i \in routes'[j].suspendedBy
    BY DEF ListsMirror
  <2>1. CASE i = new /\ j = new
    BY <1>1, <2>1
  <2>2. CASE i = new /\ j \in Live
    BY <1>1, <1>3, <2>2
  <2>3. CASE i \in Live /\ j = new
    BY <1>1, <1>3, <2>3
  <2>4. CASE i \in Live /\ j \in Live
    BY <1>1, <1>3, <2>4
  <2> QED
    BY <1>1, <2>1, <2>2, <2>3, <2>4
<1>7. SuspendersOutrank'
  <2> SUFFICES ASSUME NEW j \in Live', NEW i \in routes'[j].suspendedBy
               PROVE  routes'[j].prio < routes'[i].prio
    BY DEF SuspendersOutrank
  <2>1. j \in Live
    BY <1>1
  <2>2. CASE i = new
    BY <1>1, <1>2, <1>3, <2>1, <2>2
  <2>3. CASE i \in routes[j].suspendedBy
    BY <1>1, <1>3, <2>1, <2>3
  <2> QED
    BY <1>1, <2>1, <2>2, <2>3
<1>8. NothingLeftConnected'
  <2> SUFFICES ASSUME NEW c \in connected', c # pair
               PROVE  \E i \in activePaths' : routes'[i].pair = c
    BY <1>1, <1>2 DEF NothingLeftConnected
  <2>1. PICK i \in activePaths : routes[i].pair = c
    BY <1>2 DEF IInv, NothingLeftConnected
  <2> QED
    BY <1>1, <1>2, <2>1
<1> QED
  BY <1>4, <1>5, <1>6, <1>7, <1>8 DEF IInv

(* The release of a live path preserves the invariant. *)
LEMMA CloseIInv ==
  ASSUME IInv, NEW id, Close(id)
  PROVE  IInv'
<1> DEFINE above == routes[id].suspendedBy
           below == routes[id].suspendList
<1>1. /\ id \in Live
      /\ Live' = Live \ {id}
      /\ Resumed(id) \subseteq below
      /\ \A i \in Live' :
           /\ routes'[i].pair = routes[i].pair
           /\ routes'[i].prio = routes[i].prio
           /\ \A j : j \in routes'[i].suspendList <=>
                   IF i \in above
                   THEN (j \in routes[i].suspendList /\ j # id) \/ j \in below
                   ELSE j \in routes[i].suspendList
           /\ \A j : j \in routes'[i].suspendedBy <=>
                   IF i \in below
                   THEN (j \in routes[i].suspendedBy /\ j # id) \/ j \in above
                   ELSE j \in routes[i].suspendedBy
  BY CloseRoutes
<1>2. /\ activePaths' = (activePaths \ {id}) \cup Resumed(id)
      /\ connected' =
           (IF above = {} THEN connected \ {routes[id].pair} ELSE connected)
           \cup {routes[i].pair : i \in Resumed(id)}
      /\ pathCounter' = pathCounter
  BY DEF Close, isActive
<1>3. above \subseteq Live /\ below \subseteq Live
  BY <1>1 DEF IInv, TypeOK
<1>4. \A i, j \in Live : j \in routes[i].suspendList <=> i \in routes[j].suspendedBy
  BY DEF IInv, ListsMirror
<1>5. \A j \in Live : \A i \in routes[j].suspendedBy :
        i \in Live /\ routes[j].prio < routes[i].prio /\ i # j
  BY DEF IInv, SuspendersOutrank, TypeOK, Route, Priority
<1>6. id \notin above /\ id \notin below
  BY <1>1, <1>3, <1>4, <1>5
<1> HIDE DEF above, below
<1>7. TypeOK'
  <2>1. routes' \in [Live' -> Route]
    <3>1. /\ \A i \in Live : routes[i] \in Route
          /\ Live \subseteq Ids
      BY DEF IInv, TypeOK, Ids
    <3>2. ASSUME NEW i \in Live' PROVE routes'[i] \in Route
      <4> DEFINE list == IF i \in above THEN (routes[i].suspendList \ {id}) \cup below
                         ELSE routes[i].suspendList
                 by == IF i \in below THEN (routes[i].suspendedBy \ {id}) \cup above
                       ELSE routes[i].suspendedBy
      <4>1. routes[i] \in Route
        BY <1>1, <3>1
      <4>2. routes'[i] = [routes[i] EXCEPT !.suspendList = list, !.suspendedBy = by]
        BY <1>1 DEF Close, ListAfter, ByAfter, above, below
      <4>3. list \in SUBSET Ids /\ by \in SUBSET Ids
        BY <1>3, <3>1, <4>1 DEF Route
      <4> HIDE DEF list, by
      <4> QED
        BY <4>1, <4>2, <4>3 DEF Route
    <3>3. routes' = [i \in Live' |-> routes'[i]]
      BY <1>1 DEF Close, Live
    <3> QED
      BY <3>2, <3>3
  <2>2. ASSUME NEW i \in Live', NEW j \in routes'[i].suspendList \cup routes'[i].suspendedBy
        PROVE  j \in Live'
    <3>1. i \in Live /\ i # id /\ j \in Live
      BY <1>1, <1>3, <2>2 DEF IInv, TypeOK
    <3>2. /\ id \in routes[i].suspendList => i \in above
          /\ id \in routes[i].suspendedBy => i \in below
      BY <1>1, <1>4, <3>1 DEF above, below
    <3> QED
      BY <1>1, <1>6, <2>2, <3>1, <3>2
  <2>3. activePaths' \subseteq Live' /\ connected' \subseteq Pairs
    BY <1>1, <1>2, <1>3, <1>6 DEF IInv, TypeOK, Route
  <2>4. pathCounter' \in Ids /\ Live' \subseteq 1 .. (pathCounter' - 1)
    BY <1>1, <1>2 DEF IInv, TypeOK
  <2> QED
    BY <2>1, <2>2, <2>3, <2>4 DEF TypeOK
<1>8. ActiveAgrees'
  <2> SUFFICES ASSUME NEW i \in Live'
               PROVE  i \in activePaths' <=> routes'[i].suspendedBy = {}
    BY <1>7 DEF ActiveAgrees, isActive, TypeOK
  <2>1. i \in Live /\ (i \in activePaths <=> routes[i].suspendedBy = {})
    BY <1>1 DEF IInv, ActiveAgrees, isActive
  <2>2. CASE i \in below
    BY <1>1, <1>2, <1>4, <2>1, <2>2 DEF Resumed, isActive, above, below
  <2>3. CASE i \notin below
    BY <1>1, <1>2, <2>1, <2>3
  <2> QED
    BY <2>2, <2>3
<1>9. ListsMirror'
  <2> SUFFICES ASSUME NEW i \in Live', NEW j \in Live'
               PROVE  j \in routes'[i].suspendList <=> i \in routes'[j].suspendedBy
    BY DEF ListsMirror
  <2>1. /\ i \in Live /\ j \in Live /\ i # id /\ j # id
        /\ (j \in routes[i].suspendList <=> i \in routes[j].suspendedBy)
    BY <1>1, <1>4
  <2> QED
    BY <1>1, <2>1
<1>10. SuspendersOutrank'
  <2> SUFFICES ASSUME NEW j \in Live', NEW i \in routes'[j].suspendedBy
               PROVE  routes'[j].prio < routes'[i].prio
    BY DEF SuspendersOutrank
  <2>1. j \in Live /\ i \in Live'
    BY <1>1, <1>7 DEF TypeOK
  <2>2. CASE i \in routes[j].suspendedBy
    <3>1. i \in Live /\ routes[j].prio < routes[i].prio
      BY <1>5, <2>1, <2>2
    <3> QED
      BY <1>1, <2>1, <3>1
  <2>3. CASE j \in below /\ i \in above
    <3>1. routes[j].prio < routes[id].prio /\ routes[id].prio < routes[i].prio
      BY <1>1, <1>4, <1>5, <2>1, <2>3 DEF above, below
    <3>2. /\ routes[j].prio \in Int /\ routes[id].prio \in Int
          /\ routes[i].prio \in Int
      BY <1>1, <2>1 DEF IInv, TypeOK, Route, Priority
    <3> QED
      BY <1>1, <2>1, <3>1, <3>2
  <2> QED
    BY <1>1, <2>2, <2>3
<1>11. NothingLeftConnected'
  <2> SUFFICES ASSUME NEW c \in connected'
               PROVE  \E i \in activePaths' : routes'[i].pair = c
    BY DEF NothingLeftConnected
  <2>1. CASE c \in {routes[i].pair : i \in Resumed(id)}
    BY <1>1, <1>2, <1>3, <1>6, <2>1
  <2>2. CASE c \in connected /\ (above = {} => c # routes[id].pair)
    <3>1. PICK i \in activePaths : routes[i].pair = c
      BY <2>2 DEF IInv, NothingLeftConnected
    <3>2. i # id
      BY <1>1, <2>2, <3>1 DEF IInv, ActiveAgrees, isActive, above
    <3> QED
      BY <1>1, <1>2, <3>1, <3>2 DEF IInv, TypeOK
  <2> QED
    BY <1>2, <2>1, <2>2
<1> QED
  BY <1>7, <1>8, <1>9, <1>10, <1>11 DEF IInv

LEMMA NextIInv == IInv /\ [Next]_vars => IInv'
<1> SUFFICES ASSUME IInv, [Next]_vars PROVE IInv'
  OBVIOUS
<1>1. CASE UNCHANGED vars
  BY <1>1 DEF vars, IInv, TypeOK, ActiveAgrees, ListsMirror, SuspendersOutrank,
              NothingLeftConnected, Live
<1>2. ASSUME NEW r \in Requests, Request(r[1], r[2]) PROVE IInv'
  <2>1. r[1] \in Pairs /\ r[2] \in Priority
    BY RequestsAssumption
  <2>2. Open(r[1], r[2]) \/ UNCHANGED vars
    BY <1>2 DEF Request, Deny
  <2> QED
    BY <2>1, <2>2, <1>1, OpenIInv
<1>3. ASSUME NEW id \in -1 .. MaxPathId, Release(id) PROVE IInv'
  BY <1>1, <1>3, CloseIInv DEF Release, CloseUnknown
<1> QED
  BY <1>1, <1>2, <1>3 DEF Next

LEMMA Inductive == Spec => []IInv
  BY InitIInv, NextIInv, PTL DEF Spec

-----------------------------------------------------------------------------
(* Types, and no list ever names a path that is not live: audioPath.cpp's  *)
(* routes.at() never throws.                                               *)
THEOREM TypeCorrect == Spec => []TypeOK
<1>1. IInv => TypeOK
  BY DEF IInv
<1> QED
  BY <1>1, Inductive, PTL

(* The set of active paths, kept apart from the routes, always agrees with *)
(* them.                                                                   *)
THEOREM ActiveAgreesAlways == Spec => []ActiveAgrees
<1>1. IInv => ActiveAgrees
  BY DEF IInv
<1> QED
  BY <1>1, Inductive, PTL

(* Suspend lists and suspended-by lists mirror one another through every   *)
(* order of requests and releases.                                         *)
THEOREM MirrorAlways == Spec => []ListsMirror
<1>1. IInv => ListsMirror
  BY DEF IInv
<1> QED
  BY <1>1, Inductive, PTL

(* Inherited or not, a suspender always outranks what it suspends. *)
THEOREM OutrankAlways == Spec => []SuspendersOutrank
<1>1. IInv => SuspendersOutrank
  BY DEF IInv
<1> QED
  BY <1>1, Inductive, PTL

(* No pair stays connected in the audio driver without an active path.     *)
THEOREM NothingLeftConnectedAlways == Spec => []NothingLeftConnected
<1>1. IInv => NothingLeftConnected
  BY DEF IInv
<1> QED
  BY <1>1, Inductive, PTL

(* Every suspended path sits below an active one of a higher priority: of  *)
(* the live paths above it, one with the greatest priority is suspended by *)
(* nobody, since a suspender would have a greater one.                     *)
THEOREM SuspendedWaitsAlways == Spec => []SuspendedWaitsForActive
<1>1. ASSUME IInv, NEW j \in Live \ activePaths
      PROVE  \E i \in activePaths : routes[j].prio < routes[i].prio
  <2> DEFINE Above == {i \in Live : routes[j].prio < routes[i].prio}
  <2>1. \A i \in Live : /\ routes[i].prio \in Priority
                        /\ routes[i].suspendedBy \subseteq Live
                        /\ i \in activePaths <=> routes[i].suspendedBy = {}
    BY <1>1 DEF IInv, TypeOK, ActiveAgrees, isActive, Route
  <2>2. \A k \in Live : \A i \in routes[k].suspendedBy :
          routes[k].prio < routes[i].prio
    BY <1>1 DEF IInv, SuspendersOutrank
  <2>3. Above # {}
    BY <2>1, <2>2
  <2>4. PICK m \in Above : \A i \in Above : routes[i].prio <= routes[m].prio
    <3>1. \A i \in Above : routes[i].prio \in {1, 2, 3, 4}
      BY <2>1 DEF Priority
    <3>2. CASE \E i \in Above : routes[i].prio = 4
      BY <3>1, <3>2
    <3>3. CASE /\ \A i \in Above : routes[i].prio # 4
               /\ \E i \in Above : routes[i].prio = 3
      BY <3>1, <3>3
    <3>4. CASE /\ \A i \in Above : routes[i].prio # 4 /\ routes[i].prio # 3
               /\ \E i \in Above : routes[i].prio = 2
      BY <3>1, <3>4
    <3>5. CASE \A i \in Above : routes[i].prio = 1
      BY <2>3, <3>5
    <3> QED
      BY <3>1, <3>2, <3>3, <3>4, <3>5
  <2>5. m \in activePaths
    <3> SUFFICES ASSUME m \notin activePaths PROVE FALSE
      OBVIOUS
    <3>1. PICK k \in routes[m].suspendedBy : TRUE
      BY <2>1
    <3>2. k \in Live /\ routes[m].prio < routes[k].prio
      BY <2>1, <2>2
    <3>3. /\ routes[m].prio \in Int /\ routes[k].prio \in Int
          /\ routes[j].prio \in Int
      BY <2>1, <3>2 DEF Priority
    <3> QED
      BY <2>4, <3>2, <3>3
  <2> QED
    BY <2>5
<1>2. IInv => SuspendedWaitsForActive
  BY <1>1 DEF SuspendedWaitsForActive
<1> QED
  BY <1>2, Inductive, PTL

(* What the holder of a path id may rely on: only a request of a higher    *)
(* priority suspends its path, and only a release resumes it.              *)
THEOREM StatusStepsAlways == Spec => StatusSteps
<1>1. ASSUME IInv, Next PROVE StatusStep
  <2> SUFFICES ASSUME NEW id \in Live
               PROVE  /\ getStatus(id) = "OPEN" /\ getStatus(id)' = "SUSPENDED"
                           => \E i \in Live' \ Live : routes[id].prio < routes'[i].prio
                      /\ getStatus(id) = "SUSPENDED" /\ getStatus(id)' = "OPEN"
                           => Live' \subseteq Live /\ Live' # Live
    BY DEF StatusStep
  <2>1. /\ getStatus(id) = "OPEN" <=> routes[id].suspendedBy = {}
        /\ getStatus(id) = "SUSPENDED" <=> routes[id].suspendedBy # {}
        /\ getStatus(id)' = "OPEN"
             <=> id \in Live' /\ routes'[id].suspendedBy = {}
        /\ getStatus(id)' = "SUSPENDED"
             <=> id \in Live' /\ routes'[id].suspendedBy # {}
    BY DEF getStatus, isActive
  <2>2. CASE UNCHANGED vars
    BY <2>1, <2>2 DEF vars
  <2>3. ASSUME NEW pair \in Pairs, NEW prio \in Priority, Open(pair, prio)
        PROVE  /\ getStatus(id) = "OPEN" /\ getStatus(id)' = "SUSPENDED"
                    => \E i \in Live' \ Live : routes[id].prio < routes'[i].prio
               /\ ~(getStatus(id) = "SUSPENDED" /\ getStatus(id)' = "OPEN")
    <3>1. /\ pathCounter \notin Live /\ Live' = Live \cup {pathCounter}
          /\ routes'[pathCounter] = [pair |-> pair, prio |-> prio,
               suspendList |-> Conflicting(pair), suspendedBy |-> {}]
          /\ \A j : j \in routes'[id].suspendedBy <=>
               \/ j \in routes[id].suspendedBy
               \/ id \in Conflicting(pair) /\ j = pathCounter
      BY <1>1, <2>3, OpenRoutes, Zenon
    <3>2. \A i \in Conflicting(pair) : routes[i].prio < prio
      BY <2>3 DEF Open, Granted
    <3> QED
      BY <2>1, <3>1, <3>2
  <2>4. ASSUME NEW r, Close(r)
        PROVE  /\ Live' \subseteq Live /\ Live' # Live
               /\ ~(getStatus(id) = "OPEN" /\ getStatus(id)' = "SUSPENDED")
    <3>1. /\ r \in Live /\ Live' = Live \ {r}
          /\ id \in Live' => \A j : j \in routes'[id].suspendedBy <=>
               IF id \in routes[r].suspendList
               THEN (j \in routes[id].suspendedBy /\ j # r)
                      \/ j \in routes[r].suspendedBy
               ELSE j \in routes[id].suspendedBy
      BY <1>1, <2>4, CloseRoutes
    <3>2. id \in routes[r].suspendList => r \in routes[id].suspendedBy
      BY <1>1, <3>1 DEF IInv, ListsMirror
    <3> QED
      BY <2>1, <3>1, <3>2
  <2>5. CASE \E r \in Requests : Request(r[1], r[2])
    <3>1. PICK r \in Requests : Open(r[1], r[2]) \/ UNCHANGED vars
      BY <2>5 DEF Request, Deny
    <3>2. r[1] \in Pairs /\ r[2] \in Priority
      BY RequestsAssumption
    <3> QED
      BY <2>2, <2>3, <3>1, <3>2
  <2>6. CASE \E r \in -1 .. MaxPathId : Release(r)
    BY <2>2, <2>4, <2>6 DEF Release, CloseUnknown
  <2> QED
    BY <1>1, <2>5, <2>6 DEF Next
<1>2. IInv /\ [Next]_vars => [StatusStep]_vars
  BY <1>1
<1> QED
  BY <1>2, Inductive, PTL DEF Spec, StatusSteps
=============================================================================
