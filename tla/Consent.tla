------------------------------ MODULE Consent -------------------------------
(***************************************************************************)
(* What the offer protocol promises to the receiving user: data of an      *)
(* offer is streamed only after that user granted it.                      *)
(***************************************************************************)
CONSTANT Offers
VARIABLE phase

Phases == {"none", "offered", "refused", "granted", "streamed"}

TypeOK == phase \in [Offers -> Phases]

Init == phase = [s \in Offers |-> "none"]

Move(s, from, to) == phase[s] \in from /\ phase' = [phase EXCEPT ![s] = to]

Offer(s)  == Move(s, {"none"}, "offered")
Refuse(s) == Move(s, {"offered"}, "refused")
Grant(s)  == Move(s, {"offered", "refused"}, "granted")
Stream(s) == Move(s, {"granted"}, "streamed")

Next == \E s \in Offers : Offer(s) \/ Refuse(s) \/ Grant(s) \/ Stream(s)

Spec == Init /\ [][Next]_phase
=============================================================================
