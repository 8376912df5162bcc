------------------------------ MODULE AudioPath ------------------------------
(***************************************************************************)
(* The audio path arbiter (openrtx/src/core/audio_path.cpp).               *)
(*                                                                         *)
(* A path connects an audio source to a sink on behalf of a requester with *)
(* a priority.  Opening a path suspends the active paths of lower priority *)
(* it is not compatible with; releasing it resumes the paths nobody else   *)
(* suspends.  Every call is one step here: the module has no lock of its   *)
(* own, and calls that overlap are left out.                               *)
(***************************************************************************)
EXTENDS Integers, FiniteSets

CONSTANTS
  Sources,     \* enum AudioSource
  Sinks,       \* enum AudioSink
  Requests,    \* the <<source, sink, priority>> calls the program makes
  Compatible,  \* pairs <<new path, active path>> the audio driver accepts
  MaxPathId    \* bound on pathCounter, for model checking

Pairs == Sources \X Sinks
Priority == 1 .. 4    \* PRIO_BEEP, PRIO_RX, PRIO_PROMPT, PRIO_TX

ASSUME RequestsAssumption == Requests \subseteq Pairs \X Priority
ASSUME CompatibleAssumption == Compatible \subseteq Pairs \X Pairs
ASSUME MaxPathIdAssumption == MaxPathId \in Nat

VARIABLES
  routes,       \* live path id -> Route
  activePaths,  \* ids of the active paths
  pathCounter,  \* next path id
  connected     \* pairs the audio driver has connected (audio_connect)

vars == <<routes, activePaths, pathCounter, connected>>

Ids == Nat \ {0}
Live == DOMAIN routes

Route == [pair        : Pairs,
          prio        : Priority,
          suspendList : SUBSET Ids,   \* the paths this one suspended
          suspendedBy : SUBSET Ids]   \* the paths which suspended this one

isActive(route) == route.suspendedBy = {}

(* audioPath_getStatus and the status part of audioPath_getInfo. *)
PathStatus == {"CLOSED", "OPEN", "SUSPENDED"}

getStatus(id) ==
  IF id \notin Live THEN "CLOSED"
  ELSE IF isActive(routes[id]) THEN "OPEN" ELSE "SUSPENDED"

(* The active paths a new path on that pair cannot coexist with; the       *)
(* mutant only looks at the sinks.                                         *)
Conflicting_SameSink(pair) ==
  {i \in activePaths : routes[i].pair[2] = pair[2]}

Conflicting(pair) ==
  {i \in activePaths : <<pair, routes[i].pair>> \notin Compatible}

(* A mutant: an active path of the same priority is no obstacle. *)
Granted_Equal(pair, prio) == \A i \in Conflicting(pair) : routes[i].prio <= prio

Granted(pair, prio) == \A i \in Conflicting(pair) : routes[i].prio < prio

-----------------------------------------------------------------------------
Init ==
  /\ routes = [i \in {} |-> {}]
  /\ activePaths = {}
  /\ pathCounter = 1
  /\ connected = {}

(* The pairs left connected once the suspended paths are closed and the new *)
(* one is opened; the mutant forgets to close.                             *)
ConnectedByOpen_NoClose(pair) == connected \cup {pair}

ConnectedByOpen(pair) ==
  (connected \ {routes[i].pair : i \in Conflicting(pair)}) \cup {pair}

(* audioPath_request, when it opens the path.  The paths to suspend are    *)
(* closed before the new one is opened.                                    *)
Open(pair, prio) ==
  LET toSuspend == Conflicting(pair)
      new == pathCounter
  IN /\ Granted(pair, prio)
     /\ routes' = [i \in Live \cup {new} |->
          IF i = new
          THEN [pair |-> pair, prio |-> prio,
                suspendList |-> toSuspend, suspendedBy |-> {}]
          ELSE IF i \in toSuspend
          THEN [routes[i] EXCEPT !.suspendedBy = @ \cup {new}]
          ELSE routes[i]]
     /\ activePaths' = (activePaths \ toSuspend) \cup {new}
     /\ pathCounter' = new + 1
     /\ connected' = ConnectedByOpen(pair)

(* audioPath_request, when it returns -1. *)
Deny(pair, prio) ==
  /\ ~Granted(pair, prio)
  /\ UNCHANGED vars

Request(pair, prio) ==
  /\ pathCounter <= MaxPathId
  /\ Open(pair, prio) \/ Deny(pair, prio)

(* The lists of path i once path id is released: whoever suspended id       *)
(* inherits the paths id suspended.  Mutants: the id is not erased, and    *)
(* nothing is inherited.                                                   *)
ListAfter_NotErased(i, id) ==
  IF i \in routes[id].suspendedBy
  THEN routes[i].suspendList \cup routes[id].suspendList
  ELSE routes[i].suspendList

ListAfter_NotInherited(i, id) == routes[i].suspendList \ {id}

ListAfter(i, id) ==
  IF i \in routes[id].suspendedBy
  THEN (routes[i].suspendList \ {id}) \cup routes[id].suspendList
  ELSE routes[i].suspendList

ByAfter(i, id) ==
  IF i \in routes[id].suspendList
  THEN (routes[i].suspendedBy \ {id}) \cup routes[id].suspendedBy
  ELSE routes[i].suspendedBy

(* Mutants of the next definition: what the released path suspended starts *)
(* again even if that path was itself suspended, and nothing does.         *)
Resumed_Inherited(id) ==
  {i \in routes[id].suspendList : routes[i].suspendedBy \ {id} = {}}

Resumed_None(id) == {}

(* The paths a release starts again: those which only the released path    *)
(* suspended, when it was not itself suspended.                            *)
Resumed(id) ==
  {i \in routes[id].suspendList :
     isActive(routes[id]) /\ routes[i].suspendedBy \ {id} = {}}

(* audioPath_release of a live path. *)
Close(id) ==
  LET gone == routes[id]
  IN /\ id \in Live
     /\ routes' = [i \in Live \ {id} |->
          [routes[i] EXCEPT !.suspendList = ListAfter(i, id),
                            !.suspendedBy = ByAfter(i, id)]]
     /\ activePaths' = (activePaths \ {id}) \cup Resumed(id)
     /\ connected' =
          (IF isActive(gone) THEN connected \ {gone.pair} ELSE connected)
          \cup {routes[i].pair : i \in Resumed(id)}
     /\ UNCHANGED pathCounter

(* audioPath_release of an id which is not a live path: the callers keep   *)
(* ids of paths they already released, and -1 from a denied request.       *)
CloseUnknown(id) ==
  /\ id \notin Live
  /\ UNCHANGED vars

Release(id) == Close(id) \/ CloseUnknown(id)

Next ==
  \/ \E r \in Requests : Request(r[1], r[2])
  \/ \E id \in -1 .. MaxPathId : Release(id)

Spec == Init /\ [][Next]_vars

-----------------------------------------------------------------------------
(* Types, and the ids in the two lists are ids of live paths: routes.at()  *)
(* in audioPath_request and audioPath_release never throws.                *)
TypeOK ==
  /\ pathCounter \in Ids
  /\ Live \subseteq 1 .. (pathCounter - 1)
  /\ routes \in [Live -> Route]
  /\ \A i \in Live : routes[i].suspendList \cup routes[i].suspendedBy
                       \subseteq Live
  /\ activePaths \subseteq Live
  /\ connected \subseteq Pairs

(* The set of active ids and the suspended-by lists are two records of the *)
(* same fact, written at different places of request and release: a path   *)
(* is in activePaths exactly when nobody suspends it.  A path left out of  *)
(* both would stay silent for ever.                                        *)
ActiveAgrees == activePaths = {i \in Live : isActive(routes[i])}

(* The suspend list of a path mirrors the suspended-by lists of the others *)
(* through every chain of suspensions and releases in any order.           *)
ListsMirror ==
  \A i, j \in Live : j \in routes[i].suspendList <=> i \in routes[j].suspendedBy

(* A path is only suspended by paths of a higher priority, also when it    *)
(* was inherited from a released one; so no cycle of suspensions exists.   *)
SuspendersOutrank ==
  \A j \in Live : \A i \in routes[j].suspendedBy : routes[j].prio < routes[i].prio

(* A suspended path waits for an active one: whichever paths are released  *)
(* in whichever order, a suspended path of the highest priority left is    *)
(* never orphaned.                                                         *)
SuspendedWaitsForActive ==
  \A j \in Live \ activePaths :
     \E i \in activePaths : routes[j].prio < routes[i].prio

(* The driver never keeps a pair connected that no active path uses: the   *)
(* amplifier, the microphone or the RF audio output is not left on.        *)
NothingLeftConnected ==
  connected \subseteq {routes[i].pair : i \in activePaths}

(* A path of a lower or equal priority never takes the audio away from an  *)
(* open path, and only a release gives it back: what a client may assume   *)
(* of the id it holds.                                                     *)
StatusStep ==
  \A id \in Live :
    /\ getStatus(id) = "OPEN" /\ getStatus(id)' = "SUSPENDED"
         => \E i \in Live' \ Live : routes[id].prio < routes'[i].prio
    /\ getStatus(id) = "SUSPENDED" /\ getStatus(id)' = "OPEN"
         => Live' \subseteq Live /\ Live' # Live

StatusSteps == [][StatusStep]_vars
=============================================================================
