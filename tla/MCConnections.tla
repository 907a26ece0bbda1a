---------------------------- MODULE MCConnections ----------------------------
(* Instances of Connections for TLC. *)
EXTENDS Connections

CONSTANTS proxy, alice

(* A client that connects directly, the same client behind the proxy with  *)
(* an entry in front of its own, and a proxy whose last entry is malformed. *)
MCOrigins ==
    { [peer |-> alice, chain |-> <<proxy>>],
      [peer |-> proxy, chain |-> <<NoAddr, alice, proxy>>],
      [peer |-> proxy, chain |-> <<alice, NoAddr>>] }

=============================================================================
