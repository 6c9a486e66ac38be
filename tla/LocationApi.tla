----------------------------- MODULE LocationApi -----------------------------
(***************************************************************************)
(* LocationAPI (gps/location/LocationAPI.cpp): how a client is made known  *)
(* to the adapters and how its LocationAPI object is destroyed.            *)
(*                                                                         *)
(* The GNSS, batching and geofence libraries are loaded when the first     *)
(* client with their callbacks comes.  All adapters share one thread; the  *)
(* commands to them are messages in msgs.  An object is deleted when every *)
(* adapter it was removed from has said so.  Everything here is done under *)
(* gDataMutex.  The client's completion callback is left out, as the code  *)
(* never calls it: it asks for the callback to be empty first (lines 216   *)
(* and 355).                                                               *)
(***************************************************************************)
EXTENDS Integers, Sequences, FiniteSets, Functions

CONSTANTS Clients,    \* LocationAPI objects
          Callbacks,  \* the sets of interfaces that clients may have callbacks for
          Installed   \* the libraries that can be loaded

Interfaces == {"gnss", "batching", "geofence"}

ASSUME LocationApiAssumption ==
  /\ Callbacks \subseteq SUBSET Interfaces
  /\ Installed \subseteq Interfaces

VARIABLES
  clientData,         \* gData.clientData: the interfaces each client has callbacks for
  destroyClientData,  \* gData.destroyClientData: the adapters each client waits for
  loaded,             \* the interfaces of gData that are not NULL
  deleted,            \* objects that have been deleted
  mClientData,        \* the clients each adapter knows
  msgs                \* the messages of the adapters' thread

gData == <<clientData, destroyClientData, loaded, deleted>>

\* Entries of the maps.
With(f, c, v) == [x \in DOMAIN f \cup {c} |-> IF x = c THEN v ELSE f[x]]
Without(f, c) == [x \in DOMAIN f \ {c} |-> f[x]]

ClientMsg(kind, i, c, cb) == [kind |-> kind, interface |-> i, client |-> c, cb |-> cb]
ClientMsgs == [kind : {"addClient", "removeClient"}, interface : Interfaces, client : Clients,
               cb : BOOLEAN]

LocationApiTypeOK ==
  /\ DOMAIN clientData \subseteq Clients
  /\ \A c \in DOMAIN clientData : clientData[c] \in SUBSET Interfaces
  /\ DOMAIN destroyClientData \subseteq Clients
  /\ \A c \in DOMAIN destroyClientData : destroyClientData[c] \in (SUBSET Interfaces) \ {{}}
  /\ loaded \in SUBSET Installed
  /\ deleted \in SUBSET Clients
  /\ mClientData \in [Interfaces -> SUBSET Clients]

LocationApiInit ==
  /\ clientData = <<>> /\ destroyClientData = <<>>
  /\ loaded = {} /\ deleted = {}
  /\ mClientData = [i \in Interfaces |-> {}]
  /\ msgs = <<>>

\* The messages m of some interfaces, in the order of the code.
InOrder(m) ==
  LET of(i) == IF i \in DOMAIN m THEN <<m[i]>> ELSE <<>>
  IN  of("gnss") \o of("batching") \o of("geofence")

\* A client that no interface serves is a client of GNSS, for the capabilities.
createInstance(c, kinds) ==
  LET served == IF kinds \cap Installed # {} THEN kinds \cap Installed
                ELSE {"gnss"} \cap Installed
  IN  /\ loaded' = loaded \cup served
      /\ msgs' = msgs \o InOrder([i \in served |-> ClientMsg("addClient", i, c, FALSE)])
      /\ clientData' = With(clientData, c, kinds)
      /\ UNCHANGED <<destroyClientData, deleted>>

\* The client is removed from the interfaces it has no callbacks for any more.
updateCallbacks(c, kinds) ==
  LET dropped == (loaded \cap clientData[c]) \ kinds
  IN  /\ loaded' = loaded \cup (kinds \cap Installed)
      /\ msgs' = msgs \o InOrder([i \in dropped \cup (kinds \cap Installed) |->
                           IF i \in dropped THEN ClientMsg("removeClient", i, c, FALSE)
                           ELSE ClientMsg("addClient", i, c, FALSE)])
      /\ clientData' = [clientData EXCEPT ![c] = kinds]
      /\ UNCHANGED <<destroyClientData, deleted>>

\* The client is removed from every interface, also where it has never been.
destroy(c) ==
  /\ destroyClientData' = IF loaded = {} THEN destroyClientData
                          ELSE With(destroyClientData, c, loaded)
  /\ deleted' = IF loaded = {} THEN deleted \cup {c} ELSE deleted
  /\ msgs' = msgs \o InOrder([i \in loaded |-> ClientMsg("removeClient", i, c, TRUE)])
  /\ clientData' = Without(clientData, c)
  /\ UNCHANGED loaded

\* Mutant: a client that waits for no adapter any more is kept.
KeepMask(c, i) ==
  /\ destroyClientData' = IF c \notin DOMAIN destroyClientData THEN destroyClientData
                          ELSE [destroyClientData EXCEPT ![c] = @ \ {i}]
  /\ UNCHANGED deleted

\* Mutant: the first adapter that is done is taken for the last.
DeleteAtFirst(c, i) ==
  /\ destroyClientData' = Without(destroyClientData, c)
  /\ deleted' = deleted \cup (DOMAIN destroyClientData \cap {c})

onRemoveClientCompleteCb(c, i) ==
  IF c \notin DOMAIN destroyClientData THEN UNCHANGED <<destroyClientData, deleted>>
  ELSE LET waitAdapterMask == destroyClientData[c] \ {i}
       IN  /\ destroyClientData' = IF waitAdapterMask = {} THEN Without(destroyClientData, c)
                                   ELSE [destroyClientData EXCEPT ![c] = waitAdapterMask]
           /\ deleted' = IF waitAdapterMask = {} THEN deleted \cup {c} ELSE deleted

\* MsgAddClient and MsgRemoveClient of the adapter of interface i.
saveClient(c, i)  == mClientData' = [mClientData EXCEPT ![i] = @ \cup {c}]
eraseClient(c, i) == mClientData' = [mClientData EXCEPT ![i] = @ \ {c}]
=============================================================================
