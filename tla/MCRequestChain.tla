-------------------------- MODULE MCRequestChain --------------------------
(* The instances of RequestChain TLC checks.                               *)
EXTENDS RequestChain, TLC

CONSTANTS r1, r2

MCOne == {r1}
MCTwo == {r1, r2}

Of(mux, probe, body, does) == [mux |-> mux, probe |-> probe, body |-> body, does |-> does]

(* Every kind of request the chains tell apart, with handlers that do      *)
(* anything; a hidden body that is not read behaves as one that fits.      *)
AllKinds ==
  { Of("app", FALSE, "hidden", Moves), Of("app", FALSE, "declared", Moves),
    Of("app", TRUE, "fits", Moves), Of("admin", FALSE, "hidden", Moves) }

(* Requests meet in the slots alone: beside a request of any kind, another *)
(* one takes a slot or is shed, and its handler ends in any way.           *)
Holder == Of("app", FALSE, "fits", {})

MCKinds == r1 :> AllKinds @@ r2 :> {Holder}

MCWriter == r1 :> {Of("app", FALSE, "fits", {"header"})}
=============================================================================
