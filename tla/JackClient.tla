------------------------------ MODULE JackClient ------------------------------
(***************************************************************************)
(* apf::JackClient and the ports of apf::jack_policy: what a client does   *)
(* with its ports and their connections.  The state is a record:           *)
(*   ports        the ports it has registered                              *)
(*   connections  what is connected at the JACK server                     *)
(*   pending      _pending_connections: their order makes no difference    *)
(*   active       after jack_activate()                                    *)
(*   others       the ports of other clients                               *)
(* External: jack_connect() needs both ports and an active client, and     *)
(* says so if they are connected already; a port that goes takes its       *)
(* connections with it.                                                    *)
(***************************************************************************)
EXTENDS Integers, Sequences

\* The name of a port is a prefix and a number.
NoPort == <<"", 0>>

NewClient(others) ==
  [ports |-> {}, connections |-> {}, pending |-> {}, active |-> FALSE, others |-> others]

CanConnect(client, connection) ==
  client.active /\ {connection[1], connection[2]} \subseteq client.ports \cup client.others

\* _connect_ports_helper() for each connection: what cannot be connected is pending.
connect_ports(client, connections) ==
  LET possible == {c \in connections : CanConnect(client, c)}
  IN  [client EXCEPT !.connections = @ \cup possible,
                     !.pending = @ \cup (connections \ possible)]

\* Mutant: only one of the pending connections is made.
Mutant_connect_pending_connections(client) ==
  LET c == CHOOSE c \in client.pending : TRUE
  IN  IF client.pending = {} THEN client
      ELSE connect_ports([client EXCEPT !.pending = @ \ {c}], {c})

\* All pending connections; some stay pending.
connect_pending_connections(client) ==
  connect_ports([client EXCEPT !.pending = {}], client.pending)

activate(client) == connect_pending_connections([client EXCEPT !.active = TRUE])

\* External: the server drops the connections of a client that is not active.
deactivate(client) == [client EXCEPT !.active = FALSE, !.connections = {}]

\* The constructors of Xputs, which register their ports and connect them.
NewPorts(client, names, connections) ==
  connect_ports([client EXCEPT !.ports = @ \cup names], connections)

\* unregister_port() for each of them, called by ~Xput(): pending connections stay.
unregister_ports(client, gone) ==
  [client EXCEPT !.ports = @ \ gone,
                 !.connections = {c \in @ : {c[1], c[2]} \cap gone = {}}]

\* Ports of other clients come and go.
Appear(client, port) == [client EXCEPT !.others = @ \cup {port}]
Vanish(client, port) ==
  [client EXCEPT !.others = @ \ {port},
                 !.connections = {c \in @ : port \notin {c[1], c[2]}}]
==============================================================================
