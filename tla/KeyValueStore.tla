---------------------------- MODULE KeyValueStore ----------------------------
(***************************************************************************)
(* What the emulated EEPROM promises its callers: one write at a time,     *)
(* which takes effect completely or not at all and, once it was answered   *)
(* with success, is still there after any number of power cuts.            *)
(*                                                                         *)
(* An error may leave the store unreliable until the radio is started      *)
(* again: what it holds is kept, but a new write may be answered with      *)
(* success and have no effect.                                             *)
(***************************************************************************)
CONSTANTS Keys, Values, NoValue

VARIABLES
  store,      \* key -> stored value, or NoValue
  request,    \* the write in progress: {} or {<<key, value>>}
  reply,      \* answer to the last write: "none", "ok" or "error"
  unreliable  \* after some errors, until the next start

vars == <<store, request, reply, unreliable>>

Init ==
  /\ store = [k \in Keys |-> NoValue]
  /\ request = {} /\ reply = "none" /\ unreliable = FALSE

Ask(k, v) ==
  /\ request = {}
  /\ request' = {<<k, v>>}
  /\ reply' = "none"
  /\ UNCHANGED <<store, unreliable>>

Stores(k, v) ==
  /\ request = {<<k, v>>}
  /\ request' = {}
  /\ store' = [store EXCEPT ![k] = v]
  /\ reply' = "ok"
  /\ UNCHANGED unreliable

(* The answer is an error: the write has taken effect or not. *)
Fails(k, v) ==
  /\ request = {<<k, v>>}
  /\ request' = {}
  /\ store' \in {store, [store EXCEPT ![k] = v]}
  /\ reply' = "error"
  /\ unreliable' \in {unreliable, TRUE}

(* The answer is a success and the write is lost. *)
Loses(k, v) ==
  /\ unreliable
  /\ request = {<<k, v>>}
  /\ request' = {}
  /\ reply' = "ok"
  /\ UNCHANGED <<store, unreliable>>

PowerCut ==
  /\ request' = {}
  /\ reply' = "none"
  /\ unreliable' = FALSE
  /\ UNCHANGED store

Next ==
  \/ \E k \in Keys, v \in Values :
       Ask(k, v) \/ Stores(k, v) \/ Fails(k, v) \/ Loses(k, v)
  \/ PowerCut

Spec == Init /\ [][Next]_vars
=============================================================================
