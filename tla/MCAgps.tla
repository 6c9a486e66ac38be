------------------------------- MODULE MCAgps -------------------------------
(* Two handles: both are opened on the framework's interface, where they     *)
(* share a connection, and one on the native interface as well.              *)
EXTENDS Agps
CONSTANTS h1, h2
MCHandles == {h1, h2}
MCRoutes  == {<<h1, "agnss">>, <<h2, "agnss">>, <<h1, "internet">>}
=============================================================================
