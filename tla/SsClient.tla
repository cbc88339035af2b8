------------------------------ MODULE SsClient ------------------------------
(***************************************************************************)
(* The shadowsocks client: the connection pool together with the current   *)
(* server configuration, the count of connect errors (ssclient/src/lib.rs) *)
(* and the switch to another server that RuledClient::handle_tcp           *)
(* (seeker/src/client/ruled_client.rs) makes when errors pile up.          *)
(*                                                                         *)
(* A getter of the pool is a request handled by RuledClient::handle_tcp in *)
(* its Proxy branch.  The check and the switch are not protected by any    *)
(* lock: the counter is loaded, the name read under a read lock, the       *)
(* configuration replaced under a write lock and the counter reset, with   *)
(* other requests free to run in between.                                  *)
(***************************************************************************)
EXTENDS ConnectionPool

CONSTANTS
  NumServers,        \* conf.server_configs.len()
  NameOf,            \* the name of each server configuration
  Refusing,          \* servers that refuse every connection
  MaxConnectErrors,  \* conf.max_connect_errors
  ErrorCap,          \* bound: the counter saturates here in the model
  MaxSwitches,       \* bound: writes of srv_cfg told apart
  Filler             \* identity of the filler's own connector call

Server == 0 .. NumServers - 1

ASSUME ClientAssumption ==
  /\ NumServers \in Nat \ {0}
  /\ DOMAIN NameOf = Server
  /\ Refusing \subseteq Server
  /\ MaxConnectErrors \in Nat
  /\ ErrorCap \in Nat /\ ErrorCap > MaxConnectErrors
  /\ MaxSwitches \in Nat
  /\ Filler \notin Getter

VARIABLES
  cfg,       \* index of the ServerConfig in srv_cfg
  errors,    \* connect_errors
  phase,     \* where each request is in RuledClient::handle_tcp
  seen,      \* its local connect_errors
  old,       \* its local old_conf_index
  target,    \* what each connector call in progress read from srv_cfg
  peer,      \* what the server of each connection was when it was made
  switches   \* history: number of times srv_cfg was written

clientVars == <<cfg, errors, phase, seen, old, target, peer, switches>>
allVars == <<vars, clientVars>>

Connector == Getter \cup {Filler}

ClientInit ==
  /\ Init
  /\ cfg = 0
  /\ errors = 0
  /\ phase = [g \in Getter |-> "new"]
  /\ seen = [g \in Getter |-> 0]
  /\ old = [g \in Getter |-> 0]
  /\ target = [t \in Connector |-> None]
  /\ peer = [c \in Conn |-> None]
  /\ switches = 0

(* Both counters saturate at their bound in the model. *)
CountSwitch == switches' = IF switches < MaxSwitches THEN switches + 1 ELSE switches

CountError == errors' = IF errors < ErrorCap THEN errors + 1 ELSE errors

-----------------------------------------------------------------------------
(* RuledClient::handle_tcp, Proxy branch, up to the call of SSClient *)

LoadErrors(g) ==
  /\ phase[g] = "new"
  /\ seen' = [seen EXCEPT ![g] = errors]
  /\ phase' = [phase EXCEPT ![g] = "loaded"]
  /\ UNCHANGED <<vars, cfg, errors, old, target, peer, switches>>

(* iter().position(): the first configuration with that name. *)
IndexOfName(name) ==
  CHOOSE i \in Server : /\ NameOf[i] = name
                        /\ \A j \in Server : NameOf[j] = name => i <= j

(* name().await, then the comparison on the value loaded before.  Locals   *)
(* are cleared after their last use.                                       *)
ReadName(g) ==
  /\ phase[g] = "loaded"
  /\ IF seen[g] > MaxConnectErrors
       THEN /\ phase' = [phase EXCEPT ![g] = "switch"]
            /\ old' = [old EXCEPT ![g] = IndexOfName(NameOf[cfg])]
       ELSE /\ phase' = [phase EXCEPT ![g] = "get"]
            /\ old' = old
  /\ seen' = [seen EXCEPT ![g] = 0]
  /\ UNCHANGED <<vars, cfg, errors, target, peer, switches>>

(* Fault: the pool is emptied together with the configuration. *)
WriteConfFlushing(g) ==
  /\ phase[g] = "switch"
  /\ cfg' = (old[g] + 1) % NumServers
  /\ CountSwitch
  /\ conns' = <<>>
  /\ old' = [old EXCEPT ![g] = 0]
  /\ phase' = [phase EXCEPT ![g] = "reset"]
  /\ UNCHANGED <<chan, filler, len, made, getter, held,
                 errors, seen, target, peer>>

(* Fault: the last server is never left. *)
WriteConfClamped(g) ==
  /\ phase[g] = "switch"
  /\ cfg' = IF old[g] + 1 = NumServers THEN old[g] ELSE old[g] + 1
  /\ CountSwitch
  /\ old' = [old EXCEPT ![g] = 0]
  /\ phase' = [phase EXCEPT ![g] = "reset"]
  /\ UNCHANGED <<vars, errors, seen, target, peer>>

(* change_conf, first half: the write lock. *)
WriteConf(g) ==
  /\ phase[g] = "switch"
  /\ cfg' = (old[g] + 1) % NumServers
  /\ CountSwitch
  /\ old' = [old EXCEPT ![g] = 0]
  /\ phase' = [phase EXCEPT ![g] = "reset"]
  /\ UNCHANGED <<vars, errors, seen, target, peer>>

(* change_conf, second half: the counter, after the lock is released. *)
ResetErrors(g) ==
  /\ phase[g] = "reset"
  /\ errors' = 0
  /\ phase' = [phase EXCEPT ![g] = "get"]
  /\ UNCHANGED <<vars, cfg, seen, old, target, peer, switches>>

-----------------------------------------------------------------------------
(* The connector closure, called by the filler and by getters that found   *)
(* the pool empty: it captures the configuration, releases the lock, and   *)
(* only then resolves and connects.  What it captured is kept with the     *)
(* number of writes that preceded it.                                      *)

Connecting(t) == IF t = Filler THEN filler = "connect" ELSE getter[t] = "direct"

ReadConf(t) ==
  /\ Connecting(t)
  /\ target[t] = None
  /\ target' = [target EXCEPT ![t] = [server |-> cfg, after |-> switches]]
  /\ UNCHANGED <<vars, cfg, errors, phase, seen, old, peer, switches>>

Refused(t) == target[t] # None /\ target[t].server \in Refusing

(* Success: the server that was captured is the peer of the connection c. *)
Connected(t, c) ==
  /\ target[t] # None
  /\ ~Refused(t)
  /\ peer' = [peer EXCEPT ![c] = target[t]]
  /\ errors' = errors

(* An error is counted by the closure; when Pool::new_connection's timeout *)
(* elapses first, the closure is dropped and nothing is counted.           *)
NotConnected(t) ==
  /\ peer' = peer
  /\ \/ target[t] # None /\ CountError
     \/ ~Refused(t) /\ errors' = errors

ConnectorDone(t) ==
  /\ target' = [target EXCEPT ![t] = None]
  /\ UNCHANGED <<cfg, seen, old, switches>>

FillerConnected ==
  /\ FillConnected
  /\ Connected(Filler, made')
  /\ ConnectorDone(Filler)
  /\ UNCHANGED phase

FillerNotConnected ==
  /\ FillFailed
  /\ NotConnected(Filler)
  /\ ConnectorDone(Filler)
  /\ UNCHANGED phase

DirectDone(g) ==
  /\ ConnectDirectly(g)
  /\ IF held'[g] = None THEN NotConnected(g) ELSE Connected(g, held'[g])
  /\ ConnectorDone(g)
  /\ UNCHANGED phase

-----------------------------------------------------------------------------
(* SSClient::handle_tcp_connection *)

GetConnection(g) ==
  /\ phase[g] = "get"
  /\ Take(g) \/ FindEmpty(g)
  /\ UNCHANGED clientVars

(* get_connection returns; an error ends the request. *)
GetReturns(g) ==
  /\ Notify(g) \/ NotifyTimeout(g)
  /\ phase' = [phase EXCEPT ![g] = IF held[g] = None THEN "new" ELSE "get"]
  /\ UNCHANGED <<cfg, errors, seen, old, target, peer, switches>>

(* The relay ends: well, by a timeout, or by an error that is counted      *)
(* whichever side of the relay it came from.                               *)
RelayEnds(g) ==
  /\ Close(g)
  /\ errors' = errors \/ CountError
  /\ peer' = [peer EXCEPT ![held[g]] = None]
  /\ phase' = [phase EXCEPT ![g] = "new"]
  /\ UNCHANGED <<cfg, seen, old, target, switches>>

FillerRuns == (Measure \/ Push \/ Receive) /\ UNCHANGED clientVars

(* A request between its arrival and its relay. *)
UnderWay(g) ==
  \/ ReadName(g) \/ WriteConf(g) \/ ResetErrors(g)
  \/ GetConnection(g) \/ ReadConf(g) \/ DirectDone(g) \/ GetReturns(g)

Request(g) == LoadErrors(g) \/ UnderWay(g) \/ RelayEnds(g)

ClientNext ==
  \/ FillerRuns \/ ReadConf(Filler) \/ FillerConnected \/ FillerNotConnected
  \/ \E g \in Getter : Request(g)

ClientSpec == ClientInit /\ [][ClientNext]_allVars

(* The executor polls every task that can run: a request that has begun    *)
(* goes on, and each connection attempt ends because it has a timeout.     *)
ClientFairness ==
  /\ \A g \in Getter : WF_allVars(UnderWay(g))
  /\ WF_allVars(FillerRuns)
  /\ WF_allVars(ReadConf(Filler))
  /\ WF_allVars(FillerConnected \/ FillerNotConnected)

(* Requests keep arriving, and their relays end. *)
RequestsArrive == \A g \in Getter : WF_allVars(LoadErrors(g)) /\ WF_allVars(RelayEnds(g))

ClientFairSpec == ClientSpec /\ ClientFairness

-----------------------------------------------------------------------------
(* Connections made for a configuration leave the pool in the order the    *)
(* configurations were written: after a switch, what is left of the old    *)
(* server is handed out before anything of the new one, never in between.  *)
OldServerDrainsFirst ==
  \A i, j \in 1 .. Len(conns) :
    i < j => peer[conns[i]].after <= peer[conns[j]].after

(* The client is a user of the pool and nothing more: every step is a step *)
(* of the pool or leaves the pool alone.                                   *)
UsesPool == Spec

(* A server that refuses connections is left, as long as requests arrive.  *)
RefusingServerLeft == RequestsArrive => (cfg \in Refusing ~> cfg \notin Refusing)
=============================================================================
