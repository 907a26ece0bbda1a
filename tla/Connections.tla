----------------------------- MODULE Connections -----------------------------
(***************************************************************************)
(* The other half of the transport: the accept thread, the limits on       *)
(* connections, one thread per connection from its first byte to the end   *)
(* of its response, the worker that writes rejections, and the shutdown.   *)
(* What a thread does between the engine's channel and the closed socket   *)
(* is ResponsePath; here it is one step that ends.                         *)
(***************************************************************************)
EXTENDS Integers, Sequences, FiniteSets

CONSTANTS
    Conn,           \* connections that clients open
    Addr,           \* addresses
    Trusted,        \* trusted_proxy_ips
    NoAddr,         \* no address: a malformed forwarded entry
    Origins,        \* a peer address and its x-forwarded-for chain
    MaxConnections, MaxPerClient, MaxPending

ASSUME AddressAssumption ==
    /\ Trusted \subseteq Addr
    /\ {NoAddr, "free", "unassigned"} \cap Addr = {}
    /\ Origins \subseteq [peer : Addr, chain : Seq(Addr \cup {NoAddr})]
    /\ IsFiniteSet(Conn)

(* Config::validate. *)
ASSUME LimitsAssumption ==
    /\ MaxConnections \in Nat \ {0}
    /\ MaxPerClient \in Nat \ {0}
    /\ MaxPending \in Nat \ {0}

VARIABLES
    origin,     \* where each connection comes from, oldest hop first
    (* ConnectionLimits::state *)
    active, by_client, sockets,
    lease,      \* the client a live ConnectionLease is counted under
    (* threads *)
    accepting,  \* what accept_next holds: a connection, and how far it is
    cpc,        \* the thread of each connection
    shut,       \* sockets that were shut down for both directions
    incoming,   \* the channel to the engine
    rejects,    \* the channel to the rejection worker
    rejecter,   \* the worker holds the receiving end
    stop,
    drop        \* how far Transport::drop is

limits == <<active, by_client, sockets, lease>>
vars == <<origin, limits, accepting, cpc, shut, incoming, rejects, rejecter,
          stop, drop>>

-------------------------------------------------------------------------------
(* request_client_identity: a trusted peer speaks for the last address of  *)
(* the chain that is not trusted itself; a malformed entry ends the search. *)
Identity(c) ==
    LET chain == origin[c].chain
        peer == origin[c].peer
        Skipped(i) == chain[i] \in Trusted
        named == {i \in 1..Len(chain) :
                    ~Skipped(i) /\ \A j \in (i + 1)..Len(chain) : Skipped(j)}
    IN IF peer \notin Trusted \/ named = {} THEN peer
       ELSE LET i == CHOOSE i \in named : TRUE
            IN IF chain[i] = NoAddr THEN peer ELSE chain[i]

(* A live lease; a trusted peer's has no client until it is assigned one.  *)
Live == {c \in Conn : lease[c] # "free"}
Unassigned == "unassigned"

Init ==
    /\ origin \in [Conn -> Origins]
    /\ active = 0
    /\ by_client = [a \in Addr |-> 0]
    /\ sockets = {}
    /\ lease = [c \in Conn |-> "free"]
    /\ accepting = [conn |-> NoAddr, pc |-> "idle"]
    /\ cpc = [c \in Conn |-> "new"]
    /\ shut = {}
    /\ incoming = <<>> /\ rejects = <<>>
    /\ rejecter = TRUE
    /\ stop = FALSE
    /\ drop = "no"

-------------------------------------------------------------------------------
(* ConnectionLease::drop, with the socket the thread drops beside it. *)
ReleaseLease(c) ==
    /\ active' = active - 1
    /\ by_client' = IF lease[c] \in Addr
                    THEN [by_client EXCEPT ![lease[c]] = @ - 1] ELSE by_client
    /\ sockets' = sockets \ {c}
    /\ lease' = [lease EXCEPT ![c] = "free"]

Idle == [conn |-> NoAddr, pc |-> "idle"]

ThreadGoes(c, pc) == cpc' = [cpc EXCEPT ![c] = pc]

(* A client connects and accept_next takes it from the backlog; after a    *)
(* stop it is closed at once.                                              *)
Accept(c) ==
    /\ accepting = Idle
    /\ drop \notin {"joined", "done"}
    /\ cpc[c] = "new"
    /\ IF stop
       THEN ThreadGoes(c, "closed") /\ UNCHANGED accepting
       ELSE /\ accepting' = [conn |-> c, pc |-> "acquire"]
            /\ ThreadGoes(c, "accepted")
    /\ UNCHANGED <<origin, rejecter, limits, shut, incoming, rejects, stop, drop>>

(* ConnectionLimits::acquire, or submit_rejection: to the worker, or       *)
(* written without blocking when its channel is full or closed.            *)
Refused(p) ==
    \/ active >= MaxConnections
    \/ p \notin Trusted /\ by_client[p] >= MaxPerClient

AcquireLease ==
    /\ accepting.pc = "acquire"
    /\ LET c == accepting.conn
           p == origin[c].peer
       IN IF Refused(p)
          THEN /\ IF rejecter /\ Len(rejects) < MaxPending
                  THEN rejects' = Append(rejects, c) /\ ThreadGoes(c, "rejected")
                  ELSE ThreadGoes(c, "closed") /\ UNCHANGED rejects
               /\ accepting' = Idle
               /\ UNCHANGED limits
          ELSE /\ active' = active + 1
               /\ by_client' = IF p \in Trusted THEN by_client
                               ELSE [by_client EXCEPT ![p] = @ + 1]
               /\ lease' = [lease EXCEPT ![c] =
                              IF p \in Trusted THEN Unassigned ELSE p]
               /\ accepting' = [accepting EXCEPT !.pc = "register"]
               /\ UNCHANGED <<sockets, rejects, cpc>>
    /\ UNCHANGED <<origin, rejecter, shut, incoming, stop, drop>>

(* ConnectionLease::register keeps a clone of the socket for the shutdown, *)
(* if it can be cloned.                                                    *)
RegisterSocket ==
    /\ accepting.pc = "register"
    /\ sockets' \in {sockets, sockets \cup {accepting.conn}}
    /\ accepting' = [accepting EXCEPT !.pc = "spawn"]
    /\ UNCHANGED <<origin, rejecter, active, by_client, lease, cpc, shut,
                   incoming, rejects, stop, drop>>

\* Mutant: a stop seen at the last moment forgets the lease.
SpawnThreadKeepsLease ==
    /\ accepting.pc = "spawn"
    /\ LET c == accepting.conn
       IN /\ ThreadGoes(c, IF stop THEN "closed" ELSE "start")
          /\ UNCHANGED limits
    /\ accepting' = Idle
    /\ UNCHANGED <<origin, rejecter, shut, incoming, rejects, stop, drop>>

(* The stop flag is read again after the registration; a thread that       *)
(* cannot be spawned drops the lease too.                                  *)
SpawnThread ==
    /\ accepting.pc = "spawn"
    /\ LET c == accepting.conn
       IN \/ ReleaseLease(c) /\ ThreadGoes(c, "closed")
          \/ ~stop /\ ThreadGoes(c, "start") /\ UNCHANGED limits
    /\ accepting' = Idle
    /\ UNCHANGED <<origin, rejecter, shut, incoming, rejects, stop, drop>>

-------------------------------------------------------------------------------
(* connection_loop. *)

ThreadEnds(c) == ReleaseLease(c) /\ ThreadGoes(c, "closed")

StartReading(c) ==
    /\ cpc[c] = "start"
    /\ \/ stop /\ ThreadEnds(c)
       \/ ~stop /\ ThreadGoes(c, "reading") /\ UNCHANGED limits
    /\ UNCHANGED <<origin, rejecter, accepting, shut, incoming, rejects, stop, drop>>

(* The request arrives before the deadline. What was received before the   *)
(* socket was shut down can still be read and parsed.                      *)
RequestRead(c) ==
    /\ cpc[c] = "reading"
    /\ ThreadGoes(c, "identify")
    /\ UNCHANGED <<origin, rejecter, limits, accepting, shut, incoming, rejects,
                   stop, drop>>

\* Mutant: the lease is given up before the rejection is written.
RequestUnreadReleases(c) ==
    /\ cpc[c] = "reading"
    /\ ReleaseLease(c)
    /\ \E pc \in {"closed", "rejecting"} : ThreadGoes(c, pc)
    /\ UNCHANGED <<origin, rejecter, accepting, shut, incoming, rejects, stop, drop>>

(* It does not: end of file closes the connection, a timeout, a body that  *)
(* is too large and any other error are answered first.                    *)
RequestUnread(c) ==
    /\ cpc[c] = "reading"
    /\ \/ ThreadEnds(c)
       \/ ThreadGoes(c, "rejecting") /\ UNCHANGED limits
    /\ UNCHANGED <<origin, rejecter, accepting, shut, incoming, rejects, stop, drop>>

(* ConnectionLease::assign_client. *)
AssignClient(c) ==
    /\ cpc[c] = "identify"
    /\ LET id == Identity(c)
       IN \/ lease[c] = id /\ ThreadGoes(c, "enqueue") /\ UNCHANGED limits
          \/ /\ lease[c] # id
             /\ lease[c] # Unassigned \/ by_client[id] >= MaxPerClient
             /\ ThreadGoes(c, "rejecting")
             /\ UNCHANGED limits
          \/ /\ lease[c] = Unassigned /\ by_client[id] < MaxPerClient
             /\ by_client' = [by_client EXCEPT ![id] = @ + 1]
             /\ lease' = [lease EXCEPT ![c] = id]
             /\ ThreadGoes(c, "enqueue")
             /\ UNCHANGED <<active, sockets>>
    /\ UNCHANGED <<origin, rejecter, accepting, shut, incoming, rejects, stop, drop>>

(* enqueue_connection: to the engine, or 429, or nothing once the engine   *)
(* has dropped the channel.                                                *)
Enqueue(c) ==
    /\ cpc[c] = "enqueue"
    /\ \/ /\ drop # "done" /\ Len(incoming) < MaxPending
          /\ incoming' = Append(incoming, c)
          /\ ThreadGoes(c, "responding")
          /\ UNCHANGED limits
       \/ /\ drop # "done" /\ Len(incoming) >= MaxPending
          /\ ThreadGoes(c, "rejecting")
          /\ UNCHANGED <<limits, incoming>>
       \/ drop = "done" /\ ThreadEnds(c) /\ UNCHANGED incoming
    /\ UNCHANGED <<origin, rejecter, accepting, shut, rejects, stop, drop>>

(* write_loop or reject_stream_reliably returns; both are bounded in time. *)
ThreadReturns(c) ==
    /\ cpc[c] \in {"responding", "rejecting"}
    /\ ThreadEnds(c)
    /\ UNCHANGED <<origin, rejecter, accepting, shut, incoming, rejects, stop, drop>>

(* Transport::try_recv in the serve loop. *)
EngineReceives ==
    /\ drop = "no" /\ incoming # <<>>
    /\ incoming' = Tail(incoming)
    /\ UNCHANGED <<origin, rejecter, limits, accepting, cpc, shut, rejects, stop,
                   drop>>

(* rejection_loop writes one job: the flag was read before the wait. *)
WriteRejection ==
    /\ rejecter /\ rejects # <<>>
    /\ rejects' = Tail(rejects)
    /\ ThreadGoes(Head(rejects), "closed")
    /\ UNCHANGED <<origin, rejecter, limits, accepting, shut, incoming, stop, drop>>

\* Mutant: the jobs of a stopped worker are leaked.
RejecterLeaksJobs ==
    /\ rejecter /\ stop
    /\ rejecter' = FALSE
    /\ UNCHANGED <<origin, limits, accepting, cpc, shut, incoming, rejects, stop,
                   drop>>

\* Mutant: the worker blocks in recv and sees the flag only after a job.
RejecterWaitsForJob ==
    /\ rejecter /\ stop /\ rejects # <<>>
    /\ rejecter' = FALSE
    /\ rejects' = <<>>
    /\ cpc' = [c \in Conn |-> IF cpc[c] = "rejected" THEN "closed" ELSE cpc[c]]
    /\ UNCHANGED <<origin, limits, accepting, shut, incoming, stop, drop>>

(* It sees the flag and drops its end of the channel, jobs and all. *)
RejecterEnds ==
    /\ rejecter /\ stop
    /\ rejecter' = FALSE
    /\ rejects' = <<>>
    /\ cpc' = [c \in Conn |-> IF cpc[c] = "rejected" THEN "closed" ELSE cpc[c]]
    /\ UNCHANGED <<origin, limits, accepting, shut, incoming, stop, drop>>

-------------------------------------------------------------------------------
(* The end: the interrupt handler's flag, then Transport::drop.            *)

Interrupt ==
    /\ ~stop
    /\ stop' = TRUE
    /\ UNCHANGED <<origin, rejecter, limits, accepting, cpc, shut, incoming,
                   rejects, drop>>

\* Mutant: drop shuts the sockets down without having stopped the threads.
DropDoesNotStop ==
    /\ drop = "no"
    /\ drop' = "stopped"
    /\ UNCHANGED <<origin, rejecter, limits, accepting, cpc, shut, incoming,
                   rejects, stop>>

(* The serve loop returns; drop stores the flag, if a fatal error and not  *)
(* the handler ended the loop.                                             *)
DropStops ==
    /\ drop = "no"
    /\ stop' = TRUE
    /\ drop' = "stopped"
    /\ UNCHANGED <<origin, rejecter, limits, accepting, cpc, shut, incoming,
                   rejects>>

(* ConnectionLimits::shutdown. *)
DropShutsSockets ==
    /\ drop = "stopped"
    /\ shut' = shut \cup sockets
    /\ drop' = "shut"
    /\ UNCHANGED <<origin, rejecter, limits, accepting, cpc, incoming, rejects,
                   stop>>

(* The accept thread is joined: it ends at an empty backlog. *)
DropJoinsAccept ==
    /\ drop = "shut"
    /\ accepting = Idle
    /\ drop' = "joined"
    /\ UNCHANGED <<origin, rejecter, limits, accepting, cpc, shut, incoming,
                   rejects, stop>>

(* The rejection worker is joined, then the engine's channel is dropped. *)
DropJoinsRejects ==
    /\ drop = "joined"
    /\ ~rejecter
    /\ incoming' = <<>>
    /\ drop' = "done"
    /\ UNCHANGED <<origin, limits, accepting, cpc, shut, rejects, rejecter, stop>>

-------------------------------------------------------------------------------
AcceptThread == AcquireLease \/ RegisterSocket \/ SpawnThread

ConnectionThread(c) ==
    \/ StartReading(c) \/ RequestRead(c) \/ RequestUnread(c)
    \/ AssignClient(c) \/ Enqueue(c) \/ ThreadReturns(c)

Drop == DropShutsSockets \/ DropJoinsAccept \/ DropJoinsRejects

Next ==
    \/ \E c \in Conn : Accept(c)
    \/ AcceptThread
    \/ \E c \in Conn : ConnectionThread(c)
    \/ EngineReceives \/ WriteRejection \/ RejecterEnds
    \/ Interrupt \/ DropStops \/ Drop

Spec == Init /\ [][Next]_vars

(* Threads run; reads are bounded by the request deadline, writes by their *)
(* timeouts. Nothing is assumed of the engine or of a stop.                *)
Fairness ==
    /\ WF_vars(AcceptThread)
    /\ \A c \in Conn : WF_vars(ConnectionThread(c))
    /\ WF_vars(WriteRejection \/ RejecterEnds)
    /\ WF_vars(Drop)

FairSpec == Spec /\ Fairness

-------------------------------------------------------------------------------
(* Every variable keeps its type. *)
TypeOK ==
    /\ origin \in [Conn -> Origins]
    /\ active \in Nat
    /\ by_client \in [Addr -> Nat]
    /\ sockets \subseteq Conn
    /\ lease \in [Conn -> Addr \cup {"free", Unassigned}]
    /\ accepting \in [conn : Conn \cup {NoAddr},
                      pc : {"idle", "acquire", "register", "spawn"}]
    /\ cpc \in [Conn -> {"new", "accepted", "rejected", "start", "reading",
                         "identify", "enqueue", "responding", "rejecting",
                         "closed"}]
    /\ shut \subseteq Conn
    /\ incoming \in Seq(Conn) /\ rejects \in Seq(Conn)
    /\ rejecter \in BOOLEAN /\ stop \in BOOLEAN
    /\ drop \in {"no", "stopped", "shut", "joined", "done"}

(* One lease for each connection in active and, once it has a client, one  *)
(* in by_client; neither limit is exceeded.                                *)
LeaseCounts ==
    /\ active = Cardinality(Live)
    /\ \A a \in Addr : by_client[a] = Cardinality({c \in Conn : lease[c] = a})
    /\ active <= MaxConnections
    /\ \A a \in Addr : by_client[a] <= MaxPerClient

(* A lease, and the socket registered with it, belongs to the accept       *)
(* thread or to a thread that runs.                                        *)
LeasesOwned ==
    /\ sockets \subseteq Live
    /\ \A c \in Conn :
         lease[c] # "free" <=>
            \/ cpc[c] \in {"start", "reading", "identify", "enqueue",
                           "responding", "rejecting"}
            \/ accepting.conn = c /\ accepting.pc \in {"register", "spawn"}

(* The counters are the leases and stay within the limits, and no lease    *)
(* outlives its connection, on any way out.                                *)
LeasesCounted == LeaseCounts /\ LeasesOwned

(* Once the sockets are shut down no thread starts to read one that was    *)
(* missed: a connection accepted during the shutdown sees the flag.        *)
NoReaderMissed ==
    drop \in {"shut", "joined", "done"} =>
        \A c \in sockets : cpc[c] = "reading" => c \in shut

(* Every connection that is accepted is closed again, and its lease with   *)
(* it, whatever the engine does with its request and whenever the stop     *)
(* comes: with finitely many clients, all are closed in the end.           *)
EveryConnectionEnds == <>[](\A c \in Conn : cpc[c] \in {"new", "closed"})

(* Dropping the transport ends: both of its threads can be joined.         *)
DropEnds == (drop = "stopped") ~> (drop = "done")

=============================================================================
