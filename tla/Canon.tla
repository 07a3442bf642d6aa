------------------------------- MODULE Canon -------------------------------
(* What the text services promise about a sentence: it is written once, as *)
(* a fallback or in its final form, and a fallback is replaced at most     *)
(* once.  Nothing else ever happens to it, whatever stops or restarts.     *)
CONSTANT Key
VARIABLE state      \* state[k] : "none", "fallback" or "final"

Init == state = [k \in Key |-> "none"]

(* A deterministic sentence is stored so that the player need not wait. *)
Provisional(k) == state[k] = "none" /\ state' = [state EXCEPT ![k] = "fallback"]

(* The generated or authored sentence takes its place, for good. *)
Final(k) == state[k] # "final" /\ state' = [state EXCEPT ![k] = "final"]

Next == \E k \in Key : Provisional(k) \/ Final(k)

Spec == Init /\ [][Next]_state
=============================================================================
