------------------------------ MODULE MCClients ------------------------------
(* Small instances of an emitter and a bridge in one program. *)
EXTENDS Clients
CONSTANTS l1, l2, e1, e2, k1, k2, c1, c2, u1, b1, b2

AllScopes == Calls \cup {EmitterScope, CarrierScope, SubmitScope}
AllWork == Calls \cup Submits \cup (Emits \X (1..2))

\* The emitter by itself, the bridge by itself, and a listener that calls
\* through the bridge while both are shut down.
Programs ==
    {{l1, l2, e1, k1, k2}, {l1, e1, e2, k1},
     {c1, b1, b2}, {c2, b1, b2}, {c1, c2, b1}, {c1, u1, b1}, {u1, b1, b2},
     {l1, e1, k1, c1, b1}}
EmitterOnly == {{l1, e1, k1, k2}}
=============================================================================
