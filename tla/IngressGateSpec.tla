-------------------------- MODULE IngressGateSpec --------------------------
(***************************************************************************)
(* One IngressGate on its own, with any number of holders up to and beyond *)
(* its reservation limit.                                                  *)
(***************************************************************************)
EXTENDS IngressGate

CONSTANT Holders           \* who may hold a permit, at most one each

VARIABLE gate

Init == gate = NewGate

Granted(h) == CanReserve(gate) /\ gate' = Reserve(gate, h)
Closed     == gate' = BeginClose(gate)
Sealed     == CanSeal(gate) /\ gate' = Seal(gate)
Settled(h) == gate' = Settle(gate, h)

Next ==
  \/ \E h \in Holders \ gate.permits : Granted(h)
  \/ \E h \in gate.permits : Settled(h)
  \/ Closed
  \/ Sealed

Spec == Init /\ [][Next]_gate
----------------------------------------------------------------------------
(* reserve and settle_reservation (ingress.rs:129, 234) never carry into   *)
(* or borrow from the phase bits, up to the reservation limit and in every *)
(* phase, and a gate that reads Sealed (ingress.rs:194) has no admission   *)
(* granted earlier still in flight.                                        *)
GateIsExact == Exact(gate) /\ gate.permits \subseteq Holders

Rank(g) == IF Phase(g) = "Open" THEN 0 ELSE IF Phase(g) = "Closing" THEN 1 ELSE 2

(* begin_close (ingress.rs:159) is final: the phase only moves forward and *)
(* no reservation is granted once it has begun.                            *)
CloseIsFinal ==
  [][/\ Rank(gate') >= Rank(gate)
     /\ Phase(gate) # "Open" => gate'.permits \subseteq gate.permits]_gate
============================================================================
