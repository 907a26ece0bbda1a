-------------------------- MODULE ConnectionsProofs --------------------------
(***************************************************************************)
(* Proofs about Connections, for any number of clients, addresses and      *)
(* proxies and for every limit.                                            *)
(***************************************************************************)
EXTENDS Connections, FiniteSetTheorems, TLAPS

(* What the counters rest on: the accept thread holds a connection that no *)
(* thread runs for yet, the rejection worker holds connections without a   *)
(* lease, and Transport::drop has stored the flag before it goes on.       *)
ThreadsInv ==
    /\ accepting.pc # "idle" =>
         accepting.conn \in Conn /\ cpc[accepting.conn] = "accepted"
    /\ \A i \in 1..Len(rejects) : cpc[rejects[i]] \in {"rejected", "closed"}
    /\ drop # "no" => stop

ConnectionsInv == TypeOK /\ ThreadsInv /\ LeasesCounted /\ NoReaderMissed

-----------------------------------------------------------------------------
(* Leases *)

\* request_client_identity always names an address: the peer's, or a well
\* formed one of its chain.
LEMMA IdentityIsAddress ==
  ASSUME TypeOK, NEW c \in Conn
  PROVE  Identity(c) \in Addr
<1> DEFINE chain == origin[c].chain
           named == {i \in 1..Len(chain) : /\ ~(chain[i] \in Trusted)
                                           /\ \A j \in (i + 1)..Len(chain) : chain[j] \in Trusted}
<1>1. origin[c].peer \in Addr /\ chain \in Seq(Addr \cup {NoAddr})
  BY AddressAssumption DEF TypeOK
<1>2. CASE origin[c].peer \notin Trusted \/ named = {}
  BY <1>1, <1>2 DEF Identity
<1>3. CASE named # {}
  <2>1. (CHOOSE i \in named : TRUE) \in named
    BY <1>3
  <2>2. \A i \in named : chain[i] \in Addr \cup {NoAddr}
    BY <1>1
  <2> QED
    BY <2>1, <2>2, <1>1 DEF Identity
<1> QED
  BY <1>2, <1>3

\* A sequence with an element appended holds what it held, and that element.
LEMMA AppendedElements ==
  ASSUME NEW S, NEW s \in Seq(S), NEW e \in S
  PROVE  \A i \in 1..Len(Append(s, e)) :
           \/ Append(s, e)[i] = e
           \/ i \in 1..Len(s) /\ Append(s, e)[i] = s[i]
OBVIOUS

\* The connections that hold a lease, in all or under one client, are
\* finitely many.
LEMMA LeasesFinite ==
  /\ IsFiniteSet(Live) /\ Cardinality(Live) \in Nat
  /\ \A a \in Addr : /\ IsFiniteSet({c \in Conn : lease[c] = a})
                     /\ Cardinality({c \in Conn : lease[c] = a}) \in Nat
<1>1. IsFiniteSet(Live)
  BY AddressAssumption, FS_Subset DEF Live
<1>2. \A a \in Addr : IsFiniteSet({c \in Conn : lease[c] = a})
  BY AddressAssumption, FS_Subset
<1> QED
  BY <1>1, <1>2, FS_CardinalityType

\* ConnectionLease::drop takes one lease out of the counters it was counted
\* in, and neither goes below zero.
LEMMA ReleaseCounts ==
  ASSUME TypeOK, LeaseCounts, NEW c \in Conn, lease[c] # "free", ReleaseLease(c)
  PROVE  /\ LeaseCounts'
         /\ active' \in Nat /\ by_client' \in [Addr -> Nat]
         /\ sockets' = sockets \ {c} /\ sockets' \subseteq Conn
         /\ lease' = [lease EXCEPT ![c] = "free"]
         /\ lease' \in [Conn -> Addr \cup {"free", Unassigned}]
         /\ Live' = Live \ {c}
<1>1. /\ lease' = [lease EXCEPT ![c] = "free"]
      /\ lease' \in [Conn -> Addr \cup {"free", Unassigned}]
      /\ sockets' = sockets \ {c} /\ sockets' \subseteq Conn
  BY DEF ReleaseLease, TypeOK
<1>2. Live' = Live \ {c} /\ c \in Live
  BY <1>1 DEF Live, TypeOK
<1>3. Cardinality(Live') = Cardinality(Live) - 1
  BY <1>2, LeasesFinite, FS_RemoveElement
<1>4. active' = Cardinality(Live') /\ active' \in Nat /\ active' <= MaxConnections
  <2>1. active' = active - 1
    BY DEF ReleaseLease
  <2>2. IsFiniteSet(Live')
    BY <1>2, LeasesFinite, FS_RemoveElement
  <2>3. Cardinality(Live') \in Nat
    BY <2>2, FS_CardinalityType
  <2> QED
    BY <1>3, <2>1, <2>3, LimitsAssumption DEF LeaseCounts, TypeOK
<1>5. ASSUME NEW a \in Addr
      PROVE  /\ by_client'[a] = Cardinality({d \in Conn : lease'[d] = a})
             /\ by_client'[a] \in Nat /\ by_client'[a] <= MaxPerClient
  <2> DEFINE S == {d \in Conn : lease[d] = a}
             T == {d \in Conn : lease'[d] = a}
  <2>1. IsFiniteSet(S) /\ by_client[a] = Cardinality(S) /\ by_client[a] <= MaxPerClient
    BY LeasesFinite DEF LeaseCounts
  <2>2. T = S \ {c}
    BY <1>1, AddressAssumption DEF TypeOK
  <2>3. IsFiniteSet(T) /\ Cardinality(T) \in Nat
        /\ Cardinality(T) = IF c \in S THEN Cardinality(S) - 1 ELSE Cardinality(S)
    BY <2>1, <2>2, FS_RemoveElement, FS_CardinalityType
  <2>4. by_client'[a] = IF c \in S THEN by_client[a] - 1 ELSE by_client[a]
    BY DEF ReleaseLease, TypeOK
  <2> QED
    BY <2>1, <2>3, <2>4, LimitsAssumption DEF TypeOK
<1>6. by_client' \in [Addr -> Nat]
  <2>1. by_client' = [a \in Addr |-> by_client'[a]]
    BY DEF ReleaseLease, TypeOK
  <2> QED
    BY <2>1, <1>5
<1> QED
  BY <1>1, <1>2, <1>4, <1>5, <1>6 DEF LeaseCounts

\* A step that gives a connection without a lease one, counted under its
\* client if it has one, keeps the counters right when it checks the limits.
LEMMA AcquireCounts ==
  ASSUME TypeOK, LeaseCounts, NEW c \in Conn, lease[c] = "free",
         NEW p \in Addr, ~Refused(p),
         active' = active + 1,
         by_client' = IF p \in Trusted THEN by_client
                      ELSE [by_client EXCEPT ![p] = @ + 1],
         lease' = [lease EXCEPT ![c] = IF p \in Trusted THEN Unassigned ELSE p]
  PROVE  /\ LeaseCounts'
         /\ active' \in Nat /\ by_client' \in [Addr -> Nat]
         /\ lease' \in [Conn -> Addr \cup {"free", Unassigned}]
         /\ Live' = Live \cup {c}
<1>1. lease' \in [Conn -> Addr \cup {"free", Unassigned}]
  BY DEF TypeOK
<1>2. Live' = Live \cup {c} /\ c \notin Live
  <2>1. lease'[c] # "free"
    BY AddressAssumption DEF TypeOK, Unassigned
  <2> QED
    BY <2>1 DEF Live, TypeOK
<1>3. Cardinality(Live') = Cardinality(Live) + 1
  BY <1>2, LeasesFinite, FS_AddElement
<1>4. active' = Cardinality(Live') /\ active' \in Nat /\ active' <= MaxConnections
  BY <1>3, LimitsAssumption, LeasesFinite DEF LeaseCounts, TypeOK, Refused
<1>5. ASSUME NEW a \in Addr
      PROVE  /\ by_client'[a] = Cardinality({d \in Conn : lease'[d] = a})
             /\ by_client'[a] \in Nat /\ by_client'[a] <= MaxPerClient
  <2> DEFINE S == {d \in Conn : lease[d] = a}
             T == {d \in Conn : lease'[d] = a}
  <2>1. IsFiniteSet(S) /\ by_client[a] = Cardinality(S) /\ by_client[a] <= MaxPerClient
        /\ by_client[a] \in Nat
    BY LeasesFinite DEF LeaseCounts, TypeOK
  <2>2. CASE a = p /\ p \notin Trusted
    <3>1. T = S \cup {c} /\ c \notin S
      BY <2>2, AddressAssumption DEF TypeOK
    <3>2. Cardinality(T) = Cardinality(S) + 1
      BY <3>1, <2>1, FS_AddElement
    <3> QED
      BY <2>1, <2>2, <3>2, LimitsAssumption DEF TypeOK, Refused
  <2>3. CASE ~(a = p /\ p \notin Trusted)
    <3>1. T = S
      BY <2>3, AddressAssumption DEF TypeOK, Unassigned
    <3>2. by_client'[a] = by_client[a]
      BY <2>3 DEF TypeOK
    <3> QED
      BY <2>1, <3>1, <3>2
  <2> QED
    BY <2>2, <2>3
<1>6. by_client' \in [Addr -> Nat]
  BY DEF TypeOK
<1> QED
  BY <1>1, <1>2, <1>4, <1>5, <1>6 DEF LeaseCounts

\* ConnectionLease::assign_client counts a lease under its client, once.
LEMMA AssignCounts ==
  ASSUME TypeOK, LeaseCounts, NEW c \in Conn, lease[c] = Unassigned,
         NEW id \in Addr, by_client[id] < MaxPerClient,
         active' = active,
         by_client' = [by_client EXCEPT ![id] = @ + 1],
         lease' = [lease EXCEPT ![c] = id]
  PROVE  /\ LeaseCounts'
         /\ by_client' \in [Addr -> Nat]
         /\ lease' \in [Conn -> Addr \cup {"free", Unassigned}]
         /\ Live' = Live
<1>1. lease' \in [Conn -> Addr \cup {"free", Unassigned}]
  BY DEF TypeOK
<1>2. Live' = Live
  <2>1. lease[c] # "free" /\ id # "free"
    BY AddressAssumption DEF Unassigned
  <2> QED
    BY <2>1 DEF Live, TypeOK
<1>3. ASSUME NEW a \in Addr
      PROVE  /\ by_client'[a] = Cardinality({d \in Conn : lease'[d] = a})
             /\ by_client'[a] <= MaxPerClient
  <2> DEFINE S == {d \in Conn : lease[d] = a}
             T == {d \in Conn : lease'[d] = a}
  <2>1. IsFiniteSet(S) /\ by_client[a] = Cardinality(S) /\ by_client[a] <= MaxPerClient
        /\ by_client[a] \in Nat
    BY LeasesFinite DEF LeaseCounts, TypeOK
  <2>2. CASE a = id
    <3>1. T = S \cup {c} /\ c \notin S
      BY <2>2, AddressAssumption DEF TypeOK, Unassigned
    <3>2. Cardinality(T) = Cardinality(S) + 1
      BY <3>1, <2>1, FS_AddElement
    <3> QED
      BY <2>1, <2>2, <3>2, LimitsAssumption DEF TypeOK
  <2>3. CASE a # id
    <3>1. T = S
      BY <2>3, AddressAssumption DEF TypeOK, Unassigned
    <3>2. by_client'[a] = by_client[a]
      BY <2>3 DEF TypeOK
    <3> QED
      BY <2>1, <3>1, <3>2
  <2> QED
    BY <2>2, <2>3
<1>4. by_client' \in [Addr -> Nat]
  BY DEF TypeOK
<1> QED
  BY <1>1, <1>2, <1>3, <1>4 DEF LeaseCounts

\* A step that leaves the leases alone leaves their counts alone.
LEMMA CountsUntouched ==
  ASSUME LeaseCounts, UNCHANGED <<active, by_client, lease>>
  PROVE  LeaseCounts' /\ Live' = Live
BY DEF LeaseCounts, Live

-----------------------------------------------------------------------------
(* The accept thread *)

\* accept_next takes a connection, or closes it at once after a stop.
LEMMA AcceptStep ==
  ASSUME ConnectionsInv, NEW c \in Conn, Accept(c)
  PROVE  ConnectionsInv'
<1> USE DEF ConnectionsInv, LeasesCounted, Accept, ThreadGoes, Idle, limits
<1>1. TypeOK'
  BY DEF TypeOK
<1>2. ThreadsInv'
  BY DEF TypeOK, ThreadsInv
<1>3. LeaseCounts' /\ LeasesOwned'
  BY CountsUntouched DEF LeasesOwned, TypeOK
<1>4. NoReaderMissed'
  BY DEF NoReaderMissed, TypeOK
<1> QED
  BY <1>1, <1>2, <1>3, <1>4

\* ConnectionLimits::acquire counts the lease it grants; a connection that it
\* refuses goes to the rejection worker or is closed, without one.
LEMMA AcquireStep ==
  ASSUME ConnectionsInv, AcquireLease
  PROVE  ConnectionsInv'
<1> USE DEF ConnectionsInv, LeasesCounted
<1> DEFINE c == accepting.conn
           p == origin[c].peer
<1>1. c \in Conn /\ cpc[c] = "accepted" /\ p \in Addr /\ lease[c] = "free"
  <2>1. c \in Conn /\ cpc[c] = "accepted" /\ lease[c] = "free"
    BY DEF AcquireLease, ThreadsInv, LeasesOwned
  <2> QED
    BY <2>1, AddressAssumption DEF TypeOK
<1>2. CASE Refused(p)
  <2>0. \/ rejects' = Append(rejects, c) /\ cpc' = [cpc EXCEPT ![c] = "rejected"]
        \/ rejects' = rejects /\ cpc' = [cpc EXCEPT ![c] = "closed"]
    BY <1>2 DEF AcquireLease, ThreadGoes
  <2>a. /\ accepting' = Idle
        /\ UNCHANGED <<limits, origin, rejecter, shut, incoming, stop, drop>>
    BY <1>2 DEF AcquireLease
  <2>1. TypeOK'
    <3>0. rejects \in Seq(Conn) /\ Append(rejects, c) \in Seq(Conn)
      BY <1>1 DEF TypeOK
    <3>1. rejects' \in Seq(Conn)
      BY <2>0, <3>0, Zenon
    <3> QED
      BY <1>1, <2>0, <2>a, <3>1 DEF TypeOK, Idle, limits
  <2>2. ThreadsInv'
    <3>1. \A i \in 1..Len(rejects') : cpc'[rejects'[i]] \in {"rejected", "closed"}
      <4>1. CASE rejects' = Append(rejects, c) /\ cpc' = [cpc EXCEPT ![c] = "rejected"]
        <5>1. /\ rejects \in Seq(Conn)
              /\ \A i \in 1..Len(rejects') :
                   \/ rejects'[i] = c
                   \/ i \in 1..Len(rejects) /\ rejects'[i] = rejects[i]
          BY <1>1, <4>1, AppendedElements DEF TypeOK
        <5> QED
          BY <1>1, <4>1, <5>1 DEF TypeOK, ThreadsInv
      <4>2. CASE rejects' = rejects /\ cpc' = [cpc EXCEPT ![c] = "closed"]
        BY <1>1, <4>2 DEF TypeOK, ThreadsInv
      <4> QED
        BY <2>0, <4>1, <4>2
    <3> QED
      BY <2>a, <3>1 DEF ThreadsInv, Idle
  <2>3. LeaseCounts' /\ LeasesOwned'
    BY <1>1, <1>2, CountsUntouched
    DEF AcquireLease, ThreadGoes, TypeOK, LeasesOwned, Idle, limits
  <2>4. NoReaderMissed'
    BY <1>1, <1>2 DEF AcquireLease, ThreadGoes, NoReaderMissed, TypeOK, limits
  <2> QED
    BY <2>1, <2>2, <2>3, <2>4
<1>3. CASE ~Refused(p)
  <2>1. /\ LeaseCounts'
        /\ active' \in Nat /\ by_client' \in [Addr -> Nat]
        /\ lease' \in [Conn -> Addr \cup {"free", Unassigned}]
        /\ Live' = Live \cup {c}
    BY <1>1, <1>3, AcquireCounts DEF AcquireLease
  <2>2. accepting' = [accepting EXCEPT !.pc = "register"]
        /\ UNCHANGED <<origin, sockets, rejects, cpc, rejecter, shut, incoming, stop, drop>>
    BY <1>3 DEF AcquireLease
  <2>3. TypeOK'
    BY <2>1, <2>2 DEF TypeOK
  <2>4. ThreadsInv'
    BY <1>1, <2>2 DEF ThreadsInv, TypeOK
  <2>5. LeasesOwned'
    <3>1. sockets' \subseteq Live'
      BY <2>1, <2>2 DEF LeasesOwned
    <3>2. \A d \in Conn : lease'[d] # "free" <=> d \in Live'
      BY DEF Live
    <3>3. \A d \in Conn : lease[d] # "free" <=> d \in Live
      BY DEF Live
    <3> QED
      BY <1>1, <2>1, <2>2, <3>1, <3>2, <3>3 DEF LeasesOwned, TypeOK, AcquireLease
  <2>6. NoReaderMissed'
    BY <2>2 DEF NoReaderMissed
  <2> QED
    BY <2>1, <2>3, <2>4, <2>5, <2>6
<1> QED
  BY <1>2, <1>3

\* ConnectionLease::register keeps the socket of a connection with a lease.
LEMMA RegisterStep ==
  ASSUME ConnectionsInv, RegisterSocket
  PROVE  ConnectionsInv'
<1> USE DEF ConnectionsInv, LeasesCounted, RegisterSocket
<1>1. accepting.conn \in Conn /\ cpc[accepting.conn] = "accepted"
  BY DEF ThreadsInv
<1>2. TypeOK'
  BY <1>1 DEF TypeOK
<1>3. ThreadsInv'
  BY <1>1 DEF TypeOK, ThreadsInv
<1>4. LeaseCounts' /\ Live' = Live
  BY CountsUntouched
<1>5. LeasesOwned'
  <2>1. accepting.conn \in Live
    BY <1>1 DEF LeasesOwned, Live
  <2> QED
    BY <1>4, <2>1 DEF LeasesOwned, TypeOK
<1>6. NoReaderMissed'
  BY <1>1 DEF NoReaderMissed, TypeOK
<1> QED
  BY <1>2, <1>3, <1>4, <1>5, <1>6

\* Whoever holds a lease and ends with it, the accept thread or the thread of
\* the connection, leaves the rest as it was: what follows for the invariant.
LEMMA EndStep ==
  ASSUME ConnectionsInv, NEW c \in Conn, lease[c] # "free", ReleaseLease(c),
         ThreadGoes(c, "closed"),
         \/ accepting.pc = "idle" /\ accepting' = accepting
         \/ accepting.conn # c /\ accepting' = accepting
         \/ accepting.conn = c /\ accepting' = Idle,
         UNCHANGED <<origin, rejecter, shut, incoming, rejects, stop, drop>>
  PROVE  ConnectionsInv'
<1> USE DEF ConnectionsInv, LeasesCounted, ThreadGoes, Idle
<1>1. /\ LeaseCounts'
      /\ active' \in Nat /\ by_client' \in [Addr -> Nat]
      /\ sockets' = sockets \ {c} /\ sockets' \subseteq Conn
      /\ lease' = [lease EXCEPT ![c] = "free"]
      /\ lease' \in [Conn -> Addr \cup {"free", Unassigned}]
      /\ Live' = Live \ {c}
  BY ReleaseCounts
<1>2. TypeOK'
  BY <1>1 DEF TypeOK
<1>3. ThreadsInv'
  BY DEF TypeOK, ThreadsInv
<1>4. LeasesOwned'
  BY <1>1 DEF LeasesOwned, TypeOK
<1>5. NoReaderMissed'
  BY <1>1 DEF NoReaderMissed, TypeOK
<1> QED
  BY <1>1, <1>2, <1>3, <1>4, <1>5

\* The accept thread hands the lease to a thread or drops it.
LEMMA SpawnStep ==
  ASSUME ConnectionsInv, SpawnThread
  PROVE  ConnectionsInv'
<1> USE DEF ConnectionsInv, LeasesCounted
<1> DEFINE c == accepting.conn
<1>1. c \in Conn /\ cpc[c] = "accepted" /\ lease[c] # "free"
  BY DEF SpawnThread, ThreadsInv, LeasesOwned
<1>2. CASE ReleaseLease(c) /\ ThreadGoes(c, "closed")
  BY <1>1, <1>2, EndStep DEF SpawnThread
<1>3. CASE ~stop /\ ThreadGoes(c, "start") /\ UNCHANGED limits
  <2> USE DEF SpawnThread, ThreadGoes, Idle, limits
  <2>1. TypeOK'
    BY <1>3 DEF TypeOK
  <2>2. ThreadsInv'
    BY <1>1, <1>3 DEF TypeOK, ThreadsInv
  <2>3. LeaseCounts' /\ Live' = Live
    BY <1>3, CountsUntouched
  <2>4. LeasesOwned'
    BY <1>1, <1>3, <2>3 DEF LeasesOwned, TypeOK
  <2>5. NoReaderMissed'
    BY <1>1, <1>3 DEF NoReaderMissed, TypeOK
  <2> QED
    BY <2>1, <2>2, <2>3, <2>4, <2>5
<1> QED
  BY <1>2, <1>3 DEF SpawnThread

-----------------------------------------------------------------------------
(* The thread of a connection *)

Running == {"start", "reading", "identify", "enqueue", "responding", "rejecting"}

\* A thread that runs holds the lease of its connection, which the accept
\* thread and the rejection worker have let go of.
LEMMA RunningHolds ==
  ASSUME ConnectionsInv, NEW c \in Conn, cpc[c] \in Running
  PROVE  /\ lease[c] # "free"
         /\ accepting.pc # "idle" => accepting.conn # c
         /\ \A i \in 1..Len(rejects) : rejects[i] # c
BY DEF ConnectionsInv, LeasesCounted, LeasesOwned, ThreadsInv, Running

\* A thread goes on to another stage without touching a lease; it starts to
\* read only before a stop.
LEMMA ThreadGoesOn ==
  ASSUME ConnectionsInv, NEW c \in Conn, cpc[c] \in Running,
         NEW pc \in Running, ThreadGoes(c, pc), pc = "reading" => ~stop,
         UNCHANGED <<origin, limits, accepting, shut, rejects, rejecter, stop, drop>>,
         incoming' \in Seq(Conn)
  PROVE  ConnectionsInv'
<1> USE DEF ConnectionsInv, LeasesCounted, ThreadGoes, limits
<1>1. TypeOK'
  BY DEF TypeOK, Running
<1>2. ThreadsInv'
  BY RunningHolds DEF TypeOK, ThreadsInv
<1>3. LeaseCounts' /\ Live' = Live
  BY CountsUntouched
<1>4. LeasesOwned'
  BY <1>3 DEF LeasesOwned, TypeOK, Running
<1>5. NoReaderMissed'
  BY DEF NoReaderMissed, TypeOK, ThreadsInv
<1> QED
  BY <1>1, <1>2, <1>3, <1>4, <1>5

\* connection_loop ends: the lease and the socket go with it.
LEMMA ThreadEndsStep ==
  ASSUME ConnectionsInv, NEW c \in Conn, cpc[c] \in Running, ThreadEnds(c),
         UNCHANGED <<origin, rejecter, accepting, shut, incoming, rejects, stop, drop>>
  PROVE  ConnectionsInv'
BY RunningHolds, EndStep DEF ThreadEnds

\* ConnectionLease::assign_client finds the lease counted under the client,
\* counts it, or refuses the request.
LEMMA AssignStep ==
  ASSUME ConnectionsInv, NEW c \in Conn, AssignClient(c)
  PROVE  ConnectionsInv'
<1> DEFINE id == Identity(c)
<1>1. id \in Addr
  BY IdentityIsAddress DEF ConnectionsInv
<1>2. cpc[c] \in Running /\ incoming \in Seq(Conn)
  BY DEF AssignClient, Running, ConnectionsInv, TypeOK
<1>3. CASE UNCHANGED limits /\ \E pc \in {"enqueue", "rejecting"} : ThreadGoes(c, pc)
  <2>1. PICK pc \in {"enqueue", "rejecting"} : ThreadGoes(c, pc)
    BY <1>3
  <2>2. pc \in Running /\ pc # "reading"
    BY DEF Running
  <2> QED
    BY <1>2, <1>3, <2>1, <2>2, ThreadGoesOn DEF AssignClient
<1>4. CASE /\ lease[c] = Unassigned /\ by_client[id] < MaxPerClient
           /\ by_client' = [by_client EXCEPT ![id] = @ + 1]
           /\ lease' = [lease EXCEPT ![c] = id]
           /\ ThreadGoes(c, "enqueue")
           /\ UNCHANGED <<active, sockets>>
  <2> USE DEF ConnectionsInv, LeasesCounted, ThreadGoes
  <2>1. /\ LeaseCounts'
        /\ by_client' \in [Addr -> Nat]
        /\ lease' \in [Conn -> Addr \cup {"free", Unassigned}]
        /\ Live' = Live
    BY <1>1, <1>4, AssignCounts
  <2>2. UNCHANGED <<origin, rejecter, accepting, shut, incoming, rejects, stop, drop>>
    BY DEF AssignClient
  <2>3. TypeOK'
    BY <1>4, <2>1, <2>2 DEF TypeOK
  <2>4. ThreadsInv'
    BY <1>2, <1>4, <2>2, RunningHolds DEF TypeOK, ThreadsInv
  <2>5. LeasesOwned'
    <3>1. lease[c] # "free" /\ lease'[c] # "free"
      BY <1>1, <1>4, AddressAssumption DEF TypeOK, Unassigned
    <3> QED
      BY <1>2, <1>4, <2>1, <2>2, <3>1 DEF LeasesOwned, TypeOK
  <2>6. NoReaderMissed'
    BY <1>4, <2>2 DEF NoReaderMissed, TypeOK
  <2> QED
    BY <2>1, <2>3, <2>4, <2>5, <2>6
<1> QED
  BY <1>3, <1>4 DEF AssignClient

\* Every step of connection_loop.
LEMMA ConnectionThreadStep ==
  ASSUME ConnectionsInv, NEW c \in Conn, ConnectionThread(c)
  PROVE  ConnectionsInv'
<1>0. incoming \in Seq(Conn)
  BY DEF ConnectionsInv, TypeOK
<1>1. CASE StartReading(c)
  <2>1. cpc[c] \in Running /\ "reading" \in Running
    BY <1>1 DEF StartReading, Running
  <2> QED
    BY <1>0, <1>1, <2>1, ThreadEndsStep, ThreadGoesOn DEF StartReading
<1>2. CASE RequestRead(c)
  <2>1. cpc[c] \in Running /\ "identify" \in Running
    BY <1>2 DEF RequestRead, Running
  <2> QED
    BY <1>0, <1>2, <2>1, ThreadGoesOn DEF RequestRead
<1>3. CASE RequestUnread(c)
  <2>1. cpc[c] \in Running /\ "rejecting" \in Running
    BY <1>3 DEF RequestUnread, Running
  <2> QED
    BY <1>0, <1>3, <2>1, ThreadEndsStep, ThreadGoesOn DEF RequestUnread
<1>4. CASE AssignClient(c)
  BY <1>4, AssignStep
<1>5. CASE Enqueue(c)
  <2>1. cpc[c] \in Running /\ "rejecting" \in Running /\ "responding" \in Running
    BY <1>5 DEF Enqueue, Running
  <2>2. Append(incoming, c) \in Seq(Conn)
    BY <1>0
  <2> QED
    BY <1>0, <1>5, <2>1, <2>2, ThreadEndsStep, ThreadGoesOn DEF Enqueue
<1>6. CASE ThreadReturns(c)
  <2>1. cpc[c] \in Running
    BY <1>6 DEF ThreadReturns, Running
  <2> QED
    BY <1>6, <2>1, ThreadEndsStep DEF ThreadReturns
<1> QED
  BY <1>1, <1>2, <1>3, <1>4, <1>5, <1>6 DEF ConnectionThread

-----------------------------------------------------------------------------
(* The engine, the rejection worker and the shutdown *)

\* The rejection worker closes connections that hold no lease.
LEMMA RejecterStep ==
  ASSUME ConnectionsInv, WriteRejection \/ RejecterEnds
  PROVE  ConnectionsInv'
<1> USE DEF ConnectionsInv, LeasesCounted, limits, ThreadGoes
<1>1. CASE WriteRejection
  <2> USE <1>1 DEF WriteRejection
  <2> DEFINE c == Head(rejects)
  <2>1. c \in Conn /\ cpc[c] \in {"rejected", "closed"}
    BY DEF TypeOK, ThreadsInv
  <2>2. TypeOK'
    BY DEF TypeOK
  <2>3. ThreadsInv'
    <3>1. \A i \in 1..Len(rejects') : rejects'[i] = rejects[i + 1] /\ i + 1 \in 1..Len(rejects)
      BY DEF TypeOK
    <3> QED
      BY <2>1, <3>1 DEF TypeOK, ThreadsInv
  <2>4. LeaseCounts' /\ Live' = Live
    BY CountsUntouched
  <2>5. LeasesOwned'
    BY <2>1, <2>4 DEF LeasesOwned, TypeOK
  <2>6. NoReaderMissed'
    BY DEF NoReaderMissed, TypeOK
  <2> QED
    BY <2>2, <2>3, <2>4, <2>5, <2>6
<1>2. CASE RejecterEnds
  <2> USE <1>2 DEF RejecterEnds
  <2>1. TypeOK'
    <3>0. <<>> \in Seq(Conn)
      OBVIOUS
    <3>1. rejects' \in Seq(Conn) /\ rejecter' \in BOOLEAN
      BY <3>0, Zenon
    <3>2. cpc' \in [Conn -> {"new", "accepted", "rejected", "start", "reading",
                            "identify", "enqueue", "responding", "rejecting",
                            "closed"}]
      BY DEF TypeOK
    <3> QED
      BY <3>1, <3>2 DEF TypeOK
  <2>2. ThreadsInv'
    BY DEF TypeOK, ThreadsInv
  <2>3. LeaseCounts' /\ Live' = Live
    BY CountsUntouched
  <2>4. LeasesOwned'
    BY <2>3 DEF LeasesOwned, TypeOK
  <2>5. NoReaderMissed'
    BY DEF NoReaderMissed, TypeOK
  <2> QED
    BY <2>1, <2>2, <2>3, <2>4, <2>5
<1> QED
  BY <1>1, <1>2

\* What the engine, the interrupt handler and Transport::drop do leaves the
\* leases alone; the flag is stored before the sockets are shut down.
LEMMA ShutdownStep ==
  ASSUME ConnectionsInv, EngineReceives \/ Interrupt \/ DropStops \/ Drop
  PROVE  ConnectionsInv'
<1> USE DEF ConnectionsInv, LeasesCounted, limits, EngineReceives, Interrupt,
            DropStops, Drop, DropShutsSockets, DropJoinsAccept, DropJoinsRejects
<1>1. UNCHANGED <<origin, active, by_client, sockets, lease, accepting, cpc, rejects>>
  OBVIOUS
<1>2. TypeOK'
  <2>0. /\ <<>> \in Seq(Conn)
        /\ \A s \in Seq(Conn) : s # <<>> => Tail(s) \in Seq(Conn)
    OBVIOUS
  <2>a. \/ incoming' = incoming
        \/ incoming' = <<>>
        \/ incoming # <<>> /\ incoming' = Tail(incoming)
    BY Zenon
  <2>1. incoming' \in Seq(Conn)
    <3>1. incoming \in Seq(Conn)
      BY DEF TypeOK
    <3> QED
      BY ONLY <2>0, <2>a, <3>1, Zenon
  <2>b. shut' \subseteq Conn
    BY DEF TypeOK
  <2>2. stop' \in BOOLEAN /\ rejecter' \in BOOLEAN
    BY Zenon DEF TypeOK
  <2> QED
    BY <1>1, <2>1, <2>2, <2>b DEF TypeOK
<1>3. ThreadsInv'
  BY DEF TypeOK, ThreadsInv
<1>4. LeaseCounts' /\ Live' = Live
  BY <1>1, CountsUntouched
<1>5. LeasesOwned'
  BY <1>1, <1>4 DEF LeasesOwned
<1>6. NoReaderMissed'
  BY DEF NoReaderMissed, TypeOK
<1> QED
  BY <1>2, <1>3, <1>4, <1>5, <1>6

-----------------------------------------------------------------------------
\* The invariant holds initially and every step preserves it.
LEMMA ConnectionsInvariant == Spec => []ConnectionsInv
<1>1. Init => ConnectionsInv
  <2> SUFFICES ASSUME Init PROVE ConnectionsInv
    OBVIOUS
  <2> USE DEF Init
  <2>1. TypeOK
    <3>1. incoming \in Seq(Conn) /\ rejects \in Seq(Conn)
      OBVIOUS
    <3>2. stop \in BOOLEAN /\ rejecter \in BOOLEAN
      OBVIOUS
    <3> QED
      BY <3>1, <3>2 DEF TypeOK
  <2>2. Live = {} /\ \A a \in Addr : {c \in Conn : lease[c] = a} = {}
    BY AddressAssumption DEF Live
  <2>3. LeaseCounts
    <3>1. active = Cardinality(Live) /\ active <= MaxConnections
      BY <2>2, FS_EmptySet, LimitsAssumption
    <3>2. ASSUME NEW a \in Addr
          PROVE  /\ by_client[a] = Cardinality({c \in Conn : lease[c] = a})
                 /\ by_client[a] <= MaxPerClient
      <4>1. Cardinality({c \in Conn : lease[c] = a}) = 0
        BY <2>2, FS_EmptySet
      <4>2. by_client[a] = 0
        OBVIOUS
      <4> QED
        BY <4>1, <4>2, LimitsAssumption
    <3> QED
      BY <3>1, <3>2 DEF LeaseCounts
  <2>4. ThreadsInv /\ LeasesOwned /\ NoReaderMissed
    BY DEF ThreadsInv, LeasesOwned, NoReaderMissed
  <2> QED
    BY <2>1, <2>3, <2>4 DEF ConnectionsInv, LeasesCounted
<1>2. ConnectionsInv /\ [Next]_vars => ConnectionsInv'
  <2>1. ASSUME ConnectionsInv, Next PROVE ConnectionsInv'
    BY <2>1, AcceptStep, AcquireStep, RegisterStep, SpawnStep,
       ConnectionThreadStep, RejecterStep, ShutdownStep
    DEF Next, AcceptThread
  <2>2. ASSUME ConnectionsInv, UNCHANGED vars PROVE ConnectionsInv'
    BY <2>2, CountsUntouched
    DEF ConnectionsInv, LeasesCounted, TypeOK, ThreadsInv, LeasesOwned,
        NoReaderMissed, vars, limits
  <2> QED
    BY <2>1, <2>2
<1> QED
  BY <1>1, <1>2, PTL DEF Spec

(* Type correctness of the transport, however many connections arrive.     *)
THEOREM ConnectionTypes == Spec => []TypeOK
BY ConnectionsInvariant, PTL DEF ConnectionsInv

(* For any number of connections, clients and trusted proxies: active and  *)
(* by_client are exactly the live leases, they never exceed the limits of  *)
(* the configuration, and a lease is given back on every way out.          *)
THEOREM LeasesAreCounted == Spec => []LeasesCounted
BY ConnectionsInvariant, PTL DEF ConnectionsInv

(* Whatever the accept thread and the connection threads are doing when    *)
(* ConnectionLimits::shutdown runs, no registered connection is left in a  *)
(* read that nothing will interrupt.                                       *)
THEOREM NoReaderIsMissed == Spec => []NoReaderMissed
BY ConnectionsInvariant, PTL DEF ConnectionsInv

=============================================================================
