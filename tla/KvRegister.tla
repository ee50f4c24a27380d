----------------------------- MODULE KvRegister -----------------------------
(***************************************************************************)
(* What the key-value area of the registry promises, without its layout: a *)
(* map from keys to values, and the answer to the last request.  A set     *)
(* that is answered with an error, or cut short by the end of the daemon,  *)
(* may have lost the key's value; no request touches another key.          *)
(***************************************************************************)
CONSTANTS
  Keys,         \* the keys of the requests
  Values,       \* the values that are stored
  Absent,       \* what a get answers for a key without value
  Forgettable   \* the keys a set of which is answered but not kept

VARIABLES
  value,    \* the value of each key, or Absent
  asked,    \* the last request
  answer    \* the answer to it

vars == <<value, asked, answer>>

Init == /\ value = [k \in Keys |-> Absent]
        /\ asked = <<>> /\ answer = "none"

Becomes(k, v) == value' = [value EXCEPT ![k] = v]

SetDone(k, v) ==
  /\ asked' = <<"set", k, v>>
  /\ IF k \in Forgettable THEN UNCHANGED value ELSE Becomes(k, v)
  /\ answer' = "done"

SetRefused(k, v) ==
  /\ asked' = <<"set", k, v>>
  /\ UNCHANGED value \/ Becomes(k, Absent) \/ Becomes(k, v)
  /\ answer' = "refused"

Get(k) ==
  /\ asked' = <<"get", k>>
  /\ answer' = value[k]
  /\ UNCHANGED value

DaemonDies(k, v) ==
  /\ asked' = <<"set", k, v>>
  /\ UNCHANGED value \/ Becomes(k, Absent) \/ Becomes(k, v)
  /\ answer' = "none"

Next ==
  \E k \in Keys :
    \/ Get(k)
    \/ \E v \in Values : SetDone(k, v) \/ SetRefused(k, v) \/ DaemonDies(k, v)

Spec == Init /\ [][Next]_vars
=============================================================================
