------------------------------ MODULE MCRoutes ------------------------------
(***************************************************************************)
(* Instances of Routes for TLC.                                            *)
(***************************************************************************)
EXTENDS Routes

CONSTANTS x, y, a1, a2

On(h, a, g) == [host |-> h, backend |-> a, gate |-> g]

\* Two apps can compete for x, move to y, ask for the portal's host (which
\* Install lets through) or carry a backend that HandlerFor refuses.
MCInputs == {On(x, a1, TRUE), On(x, BadAddr, FALSE), On(y, a2, FALSE),
             On(PortalHost, a1, FALSE)}
=============================================================================
