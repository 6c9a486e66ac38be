---------------------------- MODULE MCOsObserver ----------------------------
(* The clients and items of the source: XtraSystemStatusObserver and         *)
(* NativeAgpsHandler both subscribe for the network, the first one for       *)
(* MCC/MNC as well, and it alone asks for the TAC.                           *)
EXTENDS OsObserver
MCClients  == {"xtra", "agps"}
MCSubItems == {"networkinfo", "mccmnc"}
MCReqItems == {"tac"}
=============================================================================
