-------------------------- MODULE ServiceDirectory --------------------------
(***************************************************************************)
(* What the registry of services promises to the watchers of a service,    *)
(* numbered in the order in which they subscribe: a watcher hears of the   *)
(* service exactly once, while it is registered; a service is not          *)
(* unregistered as long as one of its watchers has still to hear of it.    *)
(***************************************************************************)
EXTENDS Naturals, Sequences

CONSTANT Services

VARIABLES
  registered,  \* the services registered
  awaits,      \* awaits[s]: the watchers of s that have not heard of it
  told         \* told[w]: how often watcher w has heard of its service

vars == <<registered, awaits, told>>

Init ==
  /\ registered = {}
  /\ awaits = [s \in Services |-> {}]
  /\ told = <<>>

Register(s) ==
  /\ s \notin registered
  /\ registered' = registered \cup {s}
  /\ UNCHANGED <<awaits, told>>

Unregister(s) ==
  /\ s \in registered
  /\ awaits[s] = {}
  /\ registered' = registered \ {s}
  /\ UNCHANGED <<awaits, told>>

HearAtOnce(s) ==
  /\ s \in registered
  /\ told' = Append(told, 1)
  /\ UNCHANGED <<registered, awaits>>

Subscribe(s) ==
  /\ s \notin registered
  /\ told' = Append(told, 0)
  /\ awaits' = [awaits EXCEPT ![s] = @ \cup {Len(told')}]
  /\ UNCHANGED registered

Hear(s) ==
  /\ s \in registered
  /\ \E w \in awaits[s] :
       /\ told' = [told EXCEPT ![w] = 1]
       /\ awaits' = [awaits EXCEPT ![s] = @ \ {w}]
  /\ UNCHANGED registered

Next ==
  \E s \in Services :
    Register(s) \/ Unregister(s) \/ HearAtOnce(s) \/ Subscribe(s) \/ Hear(s)

Spec == Init /\ [][Next]_vars
=============================================================================
