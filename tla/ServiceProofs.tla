---------------------------- MODULE ServiceProofs ----------------------------
(***************************************************************************)
(* Proofs about Scheduler, for every policy, every set of request shapes   *)
(* and every bound, and about ScheduledService: that the service drives    *)
(* the scheduler as its specification allows, and that scheduler, executor *)
(* and retained outputs agree however a call fails half way.               *)
(***************************************************************************)
EXTENDS ScheduledService, FiniteSetTheorems, WellFoundedInduction, TLAPS

-----------------------------------------------------------------------------
(* Facts about sums of reservations *)

\* What membership in a union of per-request byte sets means.
LEMMA UnitsMembership ==
  ASSUME NEW f, NEW S, NEW u
  PROVE  u \in ReservedUnits(f, S) <=>
           \E id \in S : u \in {id} \X (1..f[id].reserved_kv_bytes)
BY DEF ReservedUnits

\* 1..n has n elements.
LEMMA IntervalSize ==
  ASSUME NEW n \in Nat
  PROVE  IsFiniteSet(1..n) /\ Cardinality(1..n) = n
<1>1. 1 \in Int /\ n \in Int
  OBVIOUS
<1>2. IsFiniteSet(1..n) /\ Cardinality(1..n) = IF 1 > n THEN 0 ELSE n - 1 + 1
  BY <1>1, FS_Interval, Zenon
<1> QED
  BY <1>2

\* One request holds as many bytes as its record says, and they are finitely many.
LEMMA UnitsOfOne ==
  ASSUME NEW f, NEW id, f[id].reserved_kv_bytes \in Nat
  PROVE  /\ IsFiniteSet(ReservedUnits(f, {id}))
         /\ ReservedSum(f, {id}) = f[id].reserved_kv_bytes
<1> DEFINE n == f[id].reserved_kv_bytes
<1>1. ReservedUnits(f, {id}) = {id} \X (1..n)
  BY UnitsMembership
<1>2. IsFiniteSet({id}) /\ Cardinality({id}) = 1
  BY FS_Singleton
<1>3. n \in Nat /\ IsFiniteSet(1..n) /\ Cardinality(1..n) = n
  BY IntervalSize
<1>4. IsFiniteSet({id} \X (1..n)) /\ Cardinality({id} \X (1..n)) = 1 * n
  <2> HIDE DEF n
  <2>1. /\ IsFiniteSet({id} \X (1..n))
        /\ Cardinality({id} \X (1..n)) = Cardinality({id}) * Cardinality(1..n)
    BY <1>2, <1>3, FS_Product
  <2> QED
    BY <2>1, <1>2, <1>3
<1>5. 1 * n = n
  BY <1>3
<1> QED
  BY <1>1, <1>4, <1>5 DEF ReservedSum

\* Finitely many requests hold finitely many bytes.
LEMMA UnitsFinite ==
  ASSUME NEW f, NEW S, IsFiniteSet(S), \A id \in S : f[id].reserved_kv_bytes \in Nat
  PROVE  IsFiniteSet(ReservedUnits(f, S)) /\ ReservedSum(f, S) \in Nat
<1> DEFINE T == {{id} \X (1..f[id].reserved_kv_bytes) : id \in S}
<1>1. IsFiniteSet(T)
  <2> DEFINE g == [id \in S |-> {id} \X (1..f[id].reserved_kv_bytes)]
  <2>1. g \in Surjection(S, T)
    BY DEF Surjection
  <2> QED
    BY <2>1, FS_Surjection
<1>2. ASSUME NEW t \in T PROVE IsFiniteSet(t)
  <2>1. PICK id \in S : t = {id} \X (1..f[id].reserved_kv_bytes)
    OBVIOUS
  <2>2. IsFiniteSet({id}) /\ IsFiniteSet(1..f[id].reserved_kv_bytes)
    BY FS_Singleton, IntervalSize
  <2> QED
    BY <2>1, <2>2, FS_Product
<1>3. IsFiniteSet(UNION T)
  BY <1>1, <1>2, FS_UNION
<1> QED
  BY <1>3, FS_CardinalityType DEF ReservedUnits, ReservedSum

\* Disjoint sets of requests hold disjoint bytes, so sums add up.
LEMMA SumSplits ==
  ASSUME NEW f, NEW S, NEW T, IsFiniteSet(S), IsFiniteSet(T), S \cap T = {},
         \A id \in S \cup T : f[id].reserved_kv_bytes \in Nat
  PROVE  ReservedSum(f, S \cup T) = ReservedSum(f, S) + ReservedSum(f, T)
<1>1. ReservedUnits(f, S \cup T) = ReservedUnits(f, S) \cup ReservedUnits(f, T)
  BY UnitsMembership
<1>2. ReservedUnits(f, S) \cap ReservedUnits(f, T) = {}
  <2> SUFFICES ASSUME NEW u, u \in ReservedUnits(f, S), u \in ReservedUnits(f, T)
               PROVE  FALSE
    OBVIOUS
  <2>1. PICK i \in S : u \in {i} \X (1..f[i].reserved_kv_bytes)
    BY UnitsMembership
  <2>2. PICK j \in T : u \in {j} \X (1..f[j].reserved_kv_bytes)
    BY UnitsMembership
  <2>3. u[1] = i /\ u[1] = j
    BY <2>1, <2>2
  <2> QED
    BY <2>3
<1>3. IsFiniteSet(ReservedUnits(f, S)) /\ IsFiniteSet(ReservedUnits(f, T))
  BY UnitsFinite
<1>4. Cardinality(ReservedUnits(f, S) \cup ReservedUnits(f, T)) =
        Cardinality(ReservedUnits(f, S)) + Cardinality(ReservedUnits(f, T)) - Cardinality({})
  BY <1>2, <1>3, FS_Union
<1>5. Cardinality(ReservedUnits(f, S)) \in Nat /\ Cardinality(ReservedUnits(f, T)) \in Nat
  BY <1>3, FS_CardinalityType
<1>6. Cardinality({}) = 0
  BY FS_EmptySet
<1>7. ReservedSum(f, S \cup T) = Cardinality(ReservedUnits(f, S) \cup ReservedUnits(f, T))
  BY <1>1, Zenon DEF ReservedSum
<1> QED
  BY <1>4, <1>5, <1>6, <1>7 DEF ReservedSum

\* A sum only depends on the records it ranges over.
LEMMA SumCongruence ==
  ASSUME NEW f, NEW g, NEW S,
         \A id \in S : f[id].reserved_kv_bytes = g[id].reserved_kv_bytes
  PROVE  ReservedSum(f, S) = ReservedSum(g, S)
<1>1. ReservedUnits(f, S) = ReservedUnits(g, S)
  BY UnitsMembership
<1> QED
  BY <1>1 DEF ReservedSum

\* Records that hold nothing sum to nothing.
LEMMA SumZero ==
  ASSUME NEW f, NEW S, \A id \in S : f[id].reserved_kv_bytes = 0
  PROVE  ReservedSum(f, S) = 0
<1>1. ReservedUnits(f, S) = {}
  BY UnitsMembership
<1> QED
  BY <1>1, FS_EmptySet DEF ReservedSum

\* Zeroing the records in S takes exactly their bytes off the total, and the
\* total was large enough: the unchecked subtraction cannot wrap.
LEMMA SumRelease ==
  ASSUME NEW f, NEW g, NEW D, IsFiniteSet(D), NEW S \in SUBSET D,
         \A id \in D : f[id].reserved_kv_bytes \in Nat,
         \A id \in D \ S : g[id].reserved_kv_bytes = f[id].reserved_kv_bytes,
         \A id \in S : g[id].reserved_kv_bytes = 0
  PROVE  /\ ReservedSum(g, D) = ReservedSum(f, D) - ReservedSum(f, S)
         /\ ReservedSum(g, D) \in Nat
         /\ ReservedSum(f, S) \in Nat
<1>1. IsFiniteSet(S) /\ IsFiniteSet(D \ S)
  BY FS_Subset
<1>2. (D \ S) \cup S = D /\ (D \ S) \cap S = {}
  OBVIOUS
<1>3. ReservedSum(f, D) = ReservedSum(f, D \ S) + ReservedSum(f, S)
  BY <1>1, <1>2, SumSplits
<1>4. \A id \in D : g[id].reserved_kv_bytes \in Nat
  OBVIOUS
<1>5. ReservedSum(g, D) = ReservedSum(g, D \ S) + ReservedSum(g, S)
  BY <1>1, <1>2, <1>4, SumSplits
<1>6. ReservedSum(g, S) = 0 /\ ReservedSum(g, D \ S) = ReservedSum(f, D \ S)
  BY SumZero, SumCongruence
<1>7. ReservedSum(f, S) \in Nat /\ ReservedSum(f, D \ S) \in Nat
  BY <1>1, UnitsFinite
<1> QED
  BY <1>3, <1>5, <1>6, <1>7

\* A new record adds exactly what it holds.
LEMMA SumInsert ==
  ASSUME NEW f, NEW g, NEW D, IsFiniteSet(D), NEW x, x \notin D,
         \A id \in D : f[id].reserved_kv_bytes \in Nat,
         \A id \in D : g[id].reserved_kv_bytes = f[id].reserved_kv_bytes,
         g[x].reserved_kv_bytes \in Nat
  PROVE  ReservedSum(g, D \cup {x}) = ReservedSum(f, D) + g[x].reserved_kv_bytes
<1>1. IsFiniteSet({x}) /\ D \cap {x} = {}
  BY FS_Singleton
<1>2. \A id \in D \cup {x} : g[id].reserved_kv_bytes \in Nat
  OBVIOUS
<1>3. ReservedSum(g, D \cup {x}) = ReservedSum(g, D) + ReservedSum(g, {x})
  BY <1>1, <1>2, SumSplits
<1>4. ReservedSum(g, D) = ReservedSum(f, D)
  BY SumCongruence
<1>5. ReservedSum(g, {x}) = g[x].reserved_kv_bytes
  BY UnitsOfOne
<1> QED
  BY <1>3, <1>4, <1>5

-----------------------------------------------------------------------------
(* The inductive invariant *)

\* A record that was not rejected has a shape that admission accepts: the prefix
\* fits the prompt, at least one token is wanted, and the priority divides.
AdmittedShapes ==
  \A id \in DOMAIN requests :
    requests[id].status # "Rejected" =>
      /\ requests[id].spec.prefix_reused_tokens <= requests[id].spec.prompt_tokens
      /\ requests[id].spec.max_output_tokens > 0
      /\ requests[id].spec.priority > 0

\* TypeOK without the two totals whose type depends on the accounting.
RecordTypes ==
  /\ DOMAIN requests \subseteq RequestId
  /\ requests \in [DOMAIN requests -> RequestState]
  /\ DOMAIN running \subseteq RequestId
  /\ running \in [DOMAIN running -> Dispatch]
  /\ expired \subseteq RequestId
  /\ next_sequence \in 0..MaxAdmissions
  /\ now_ns \in 0..MaxTime

\* Everything about single records and the dispatches in flight.
RecordInv ==
  /\ RecordTypes
  /\ AdmittedShapes
  /\ RunningCoherent
  /\ TokensConserved
  /\ CancellationHonoured

\* The spec of a record is one of the submitted shapes, so its fields are numbers.
LEMMA SpecFields ==
  ASSUME NEW spec \in RequestSpec
  PROVE  /\ spec.arrival_ns \in Nat /\ spec.prompt_tokens \in Nat
         /\ spec.prefix_reused_tokens \in Nat /\ spec.max_output_tokens \in Nat
         /\ spec.priority \in Nat /\ spec.deadline_ns \in Nat \cup {NoDeadline}
BY SpecAssumption

\* Quotients of natural numbers are natural numbers.
LEMMA DivNat ==
  ASSUME NEW a \in Nat, NEW b \in Nat \ {0}
  PROVE  a \div b \in Nat
OBVIOUS

\* A reservation is a number of bytes whenever the prefix fits the prompt.
LEMMA ReservationNat ==
  ASSUME NEW spec \in RequestSpec, spec.prefix_reused_tokens <= spec.prompt_tokens
  PROVE  ReservationBytes(spec) \in Nat
<1> DEFINE tokens == (spec.prompt_tokens - spec.prefix_reused_tokens) + spec.max_output_tokens
           pages  == (tokens + (KvPageTokens - 1)) \div KvPageTokens
<1>1. KvPageTokens \in Nat \ {0} /\ KvBytesPerToken \in Nat
  BY PolicyAssumption
<1>2. tokens + (KvPageTokens - 1) \in Nat
  BY <1>1, SpecFields
<1>3. pages \in Nat
  BY <1>1, <1>2, DivNat
<1> HIDE DEF pages
<1>4. pages * KvPageTokens \in Nat
  BY <1>1, <1>3
<1>5. pages * KvPageTokens * KvBytesPerToken \in Nat
  BY <1>1, <1>4
<1> QED
  BY <1>5 DEF ReservationBytes, pages

\* The lowest virtual runtime among live requests exists and is a number.
LEMMA BaseRuntimeNat ==
  ASSUME RecordTypes
  PROVE  BaseRuntime \in Nat
<1>1. CASE Live = {}
  BY <1>1 DEF BaseRuntime
<1>2. CASE Live # {}
  <2> DEFINE R == {requests[id].virtual_runtime : id \in Live}
  <2>1. R \subseteq Nat /\ R # {}
    BY <1>2 DEF RecordTypes, RequestState, Live, WithStatus
  <2> DEFINE Less == {p \in Nat \X Nat : p[1] < p[2]}
  <2>5. IsWellFoundedOn(Less, Nat)
    BY NatLessThanWellFounded DEF OpToRel
  <2>6. \E v \in R : \A w \in R : ~(<<w, v>> \in Less)
    <3> HIDE DEF R, Less
    <3> QED
      BY <2>1, <2>5, WFMin
  <2>2. PICK v \in R : \A w \in R : ~(<<w, v>> \in Less)
    BY <2>6
  <2>3. \A w \in R : v <= w
    <3> SUFFICES ASSUME NEW w \in R, ~(v <= w) PROVE FALSE
      OBVIOUS
    <3>1. v \in Nat /\ w \in Nat
      BY <2>1
    <3>2. <<w, v>> \in Less
      BY <3>1
    <3> QED
      BY <2>2, <3>2
  <2>4. (CHOOSE x \in R : \A w \in R : x <= w) \in R
    BY <2>3
  <2> QED
    BY <1>2, <2>1, <2>4 DEF BaseRuntime
<1> QED
  BY <1>1, <1>2

-----------------------------------------------------------------------------
(* RecordInv is preserved, action by action *)

\* What the checks of basic_admission_rejection leave of an accepted shape.
LEMMA AcceptedShape ==
  ASSUME NEW spec \in RequestSpec, AdmissionRejection(spec) = "None"
  PROVE  /\ spec.prefix_reused_tokens <= spec.prompt_tokens
         /\ spec.max_output_tokens > 0
         /\ spec.priority > 0
<1>1. BasicAdmissionRejection(spec) = "None"
  BY DEF AdmissionRejection
<1> QED
  BY <1>1, SpecFields DEF BasicAdmissionRejection

\* insert_request builds a well-formed record.
LEMMA NewRequestType ==
  ASSUME RecordTypes, NEW spec \in RequestSpec, NEW rejected \in BOOLEAN,
         ~rejected => AdmissionRejection(spec) = "None"
  PROVE  NewRequest(spec, rejected) \in RequestState
<1>1. ~rejected => ReservationBytes(spec) \in Nat
  BY AcceptedShape, ReservationNat
<1>2. ~rejected => spec.prompt_tokens - spec.prefix_reused_tokens \in Nat
  BY AcceptedShape, SpecFields
<1>3. PrefixCredit(spec) \in Nat
  <2>1. MaxOf(spec.priority, 1) \in Nat \ {0}
    BY SpecFields DEF MaxOf
  <2>2. MinOf(spec.prefix_reused_tokens, MaxPrefixCreditTokens) * 1024 \in Nat
    BY SpecFields, PolicyAssumption DEF MinOf
  <2> QED
    BY <2>1, <2>2, DivNat DEF PrefixCredit
<1>4. SaturatingSub(BaseRuntime, PrefixCredit(spec)) \in Nat
  BY <1>3, BaseRuntimeNat DEF SaturatingSub
<1>5. next_sequence \in Nat
  BY BoundAssumption DEF RecordTypes
<1> QED
  BY <1>1, <1>2, <1>4, <1>5, SpecFields
  DEF NewRequest, RequestState, RequestStatus, TerminalStatus

LEMMA RecordAdmit ==
  ASSUME RecordInv, NEW id \in RequestId, NEW spec \in RequestSpec, Admit(id, spec)
  PROVE  RecordInv'
<1> DEFINE rejected == AdmissionRejection(spec) # "None"
           new      == NewRequest(spec, rejected)
<1>1. /\ id \notin DOMAIN requests
      /\ requests' = Insert(requests, id, new)
      /\ next_sequence < MaxAdmissions /\ next_sequence' = next_sequence + 1
      /\ UNCHANGED <<running, expired, now_ns>>
  BY DEF Admit
<1>2. new \in RequestState
  BY NewRequestType DEF RecordInv
<1>3. ~rejected => /\ spec.prefix_reused_tokens <= spec.prompt_tokens
                   /\ spec.max_output_tokens > 0 /\ spec.priority > 0
  BY AcceptedShape
<1>4. /\ new.spec = spec /\ new.emitted_tokens = 0 /\ ~new.cancellation_requested
      /\ new.remaining_tokens = spec.max_output_tokens
      /\ new.status = IF rejected THEN "Rejected" ELSE "Queued"
      /\ ~rejected => new.remaining_prefill_tokens =
                        spec.prompt_tokens - spec.prefix_reused_tokens
  BY DEF NewRequest
<1> HIDE DEF rejected, new
<1>5. /\ DOMAIN requests' = DOMAIN requests \cup {id}
      /\ requests'[id] = new
      /\ \A x \in DOMAIN requests : requests'[x] = requests[x]
      /\ requests' = [x \in DOMAIN requests' |-> requests'[x]]
  BY <1>1 DEF Insert
<1>6. RecordTypes'
  <2>1. requests' \in [DOMAIN requests' -> RequestState]
    BY <1>2, <1>5 DEF RecordInv, RecordTypes
  <2>2. DOMAIN requests' \subseteq RequestId
    BY <1>5 DEF RecordInv, RecordTypes
  <2>3. next_sequence' \in 0..MaxAdmissions
    BY <1>1, BoundAssumption DEF RecordInv, RecordTypes
  <2> QED
    BY <1>1, <2>1, <2>2, <2>3 DEF RecordInv, RecordTypes
<1>7. AdmittedShapes'
  BY <1>3, <1>4, <1>5 DEF RecordInv, AdmittedShapes
<1>8. RunningCoherent'
  <2>1. WithStatus(requests, {"Running"})' = WithStatus(requests, {"Running"})
    BY <1>4, <1>5 DEF WithStatus
  <2>2. \A x \in DOMAIN running : x \in DOMAIN requests
    BY DEF RecordInv, RunningCoherent, WithStatus
  <2> QED
    BY <1>1, <1>5, <2>1, <2>2 DEF RecordInv, RunningCoherent, DispatchOf
<1>9. TokensConserved'
  <2> SUFFICES ASSUME NEW x \in DOMAIN requests'
               PROVE  LET r == requests'[x]
                      IN  /\ r.emitted_tokens + r.remaining_tokens = r.spec.max_output_tokens
                          /\ r.status # "Rejected" =>
                               r.remaining_prefill_tokens <=
                                 r.spec.prompt_tokens - r.spec.prefix_reused_tokens
                          /\ r.emitted_tokens > 0 \/ r.status = "Finished" =>
                               r.remaining_prefill_tokens = 0
                          /\ x \in Live' => r.remaining_tokens > 0
    BY DEF TokensConserved
  <2>1. CASE x = id
    BY <1>3, <1>4, <1>5, <2>1, SpecFields DEF Live, WithStatus, RequestStatus, TerminalStatus
  <2>2. CASE x # id
    <3>1. x \in DOMAIN requests /\ requests'[x] = requests[x]
      BY <1>5, <2>2
    <3>2. x \in Live' => x \in Live
      BY <3>1 DEF Live, WithStatus
    <3> QED
      BY <3>1, <3>2 DEF RecordInv, TokensConserved
  <2> QED
    BY <2>1, <2>2
<1>10. CancellationHonoured'
  BY <1>4, <1>5 DEF RecordInv, CancellationHonoured
<1> QED
  BY <1>6, <1>7, <1>8, <1>9, <1>10 DEF RecordInv

\* What AdmittedShapes, TokensConserved and CancellationHonoured ask of one record.
GoodRecord(r) ==
  /\ r.status # "Rejected" =>
       /\ r.spec.prefix_reused_tokens <= r.spec.prompt_tokens
       /\ r.spec.max_output_tokens > 0
       /\ r.spec.priority > 0
       /\ r.remaining_prefill_tokens <= r.spec.prompt_tokens - r.spec.prefix_reused_tokens
  /\ r.emitted_tokens + r.remaining_tokens = r.spec.max_output_tokens
  /\ r.emitted_tokens > 0 \/ r.status = "Finished" => r.remaining_prefill_tokens = 0
  /\ r.status \in {"Queued", "Running"} => r.remaining_tokens > 0
  /\ r.cancellation_requested => r.status \in {"Running", "Cancelled"}

\* Ending a request changes its status and its reservation, nothing else.
LEMMA ReleasedRecord ==
  ASSUME NEW r \in RequestState, NEW status \in TerminalStatus
  PROVE  LET e == Released(r, status)
         IN  /\ e \in RequestState /\ e.status = status /\ e.reserved_kv_bytes = 0
             /\ e.spec = r.spec /\ e.remaining_prefill_tokens = r.remaining_prefill_tokens
             /\ e.remaining_tokens = r.remaining_tokens /\ e.emitted_tokens = r.emitted_tokens
             /\ e.cancellation_requested = r.cancellation_requested
BY DEF Released, RequestState, RequestStatus

\* The three invariants are GoodRecord of every record.
LEMMA GoodRecords ==
  (AdmittedShapes /\ TokensConserved /\ CancellationHonoured) <=>
    \A id \in DOMAIN requests : GoodRecord(requests[id])
<1>1. \A id \in DOMAIN requests : id \in Live <=> requests[id].status \in {"Queued", "Running"}
  BY DEF Live, WithStatus, RequestStatus, TerminalStatus
<1> QED
  BY <1>1 DEF AdmittedShapes, TokensConserved, CancellationHonoured, GoodRecord

LEMMA GoodRecordsPrime ==
  (AdmittedShapes' /\ TokensConserved' /\ CancellationHonoured') <=>
    \A id \in DOMAIN requests' : GoodRecord(requests'[id])
<1>1. \A id \in DOMAIN requests' : id \in Live' <=> requests'[id].status \in {"Queued", "Running"}
  BY DEF Live, WithStatus, RequestStatus, TerminalStatus
<1> QED
  BY <1>1 DEF AdmittedShapes, TokensConserved, CancellationHonoured, GoodRecord

\* A step that rewrites one record and takes its dispatch out of flight, leaving
\* a good record that is not Running, preserves RecordInv.
LEMMA RecordEndsDispatch ==
  ASSUME RecordInv, NEW id \in DOMAIN running, NEW r \in RequestState,
         requests' = [requests EXCEPT ![id] = r], running' = Remove(running, id),
         UNCHANGED <<expired, next_sequence, now_ns>>,
         GoodRecord(r), r.status # "Running"
  PROVE  RecordInv'
<1>1. id \in DOMAIN requests
  BY DEF RecordInv, RunningCoherent, WithStatus
<1>2. /\ DOMAIN requests' = DOMAIN requests
      /\ requests'[id] = r
      /\ \A x \in DOMAIN requests \ {id} : requests'[x] = requests[x]
      /\ requests' \in [DOMAIN requests' -> RequestState]
  BY <1>1 DEF RecordInv, RecordTypes
<1>3. /\ DOMAIN running' = DOMAIN running \ {id}
      /\ \A x \in DOMAIN running \ {id} : running'[x] = running[x]
      /\ running' \in [DOMAIN running' -> Dispatch]
  BY DEF Remove, RecordInv, RecordTypes
<1>4. RecordTypes'
  BY <1>2, <1>3 DEF RecordInv, RecordTypes
<1>5. AdmittedShapes' /\ TokensConserved' /\ CancellationHonoured'
  BY <1>2, GoodRecords, GoodRecordsPrime DEF RecordInv
<1>6. RunningCoherent'
  <2>1. WithStatus(requests, {"Running"})' = WithStatus(requests, {"Running"}) \ {id}
    BY <1>1, <1>2 DEF WithStatus
  <2>2. \A x \in DOMAIN running \ {id} : x \in DOMAIN requests \ {id}
    BY DEF RecordInv, RunningCoherent, WithStatus
  <2>3. \A x \in DOMAIN running' :
          running'[x] = DispatchOf(requests'[x]) /\ running'[x].token_budget > 0
    BY <1>2, <1>3, <2>2 DEF RecordInv, RunningCoherent
  <2> QED
    BY <1>3, <2>1, <2>3 DEF RecordInv, RunningCoherent
<1> QED
  BY <1>4, <1>5, <1>6 DEF RecordInv

\* A step that rewrites one record without touching what is in flight preserves
\* RecordInv if the record is good, and is Running with the same work left
\* exactly if it was.
LEMMA RecordKeepsDispatch ==
  ASSUME RecordInv, NEW id \in DOMAIN requests, NEW r \in RequestState,
         requests' = [requests EXCEPT ![id] = r],
         UNCHANGED <<running, expired, next_sequence, now_ns>>,
         GoodRecord(r),
         r.status = "Running" <=> requests[id].status = "Running",
         r.status = "Running" => DispatchOf(r) = DispatchOf(requests[id])
  PROVE  RecordInv'
<1>2. /\ DOMAIN requests' = DOMAIN requests
      /\ requests'[id] = r
      /\ \A x \in DOMAIN requests \ {id} : requests'[x] = requests[x]
      /\ requests' \in [DOMAIN requests' -> RequestState]
  BY DEF RecordInv, RecordTypes
<1>4. RecordTypes'
  BY <1>2 DEF RecordInv, RecordTypes
<1>5. AdmittedShapes' /\ TokensConserved' /\ CancellationHonoured'
  BY <1>2, GoodRecords, GoodRecordsPrime DEF RecordInv
<1>6. RunningCoherent'
  <2>1. WithStatus(requests, {"Running"})' = WithStatus(requests, {"Running"})
    BY <1>2 DEF WithStatus
  <2>2. \A x \in DOMAIN running : x \in DOMAIN requests /\ requests[x].status = "Running"
    BY DEF RecordInv, RunningCoherent, WithStatus
  <2>3. \A x \in DOMAIN running : DispatchOf(requests'[x]) = DispatchOf(requests[x])
    BY <1>2, <2>2
  <2> QED
    BY <2>1, <2>3 DEF RecordInv, RunningCoherent
<1> QED
  BY <1>4, <1>5, <1>6 DEF RecordInv

LEMMA RecordCancelQueued ==
  ASSUME RecordInv, NEW id \in DOMAIN requests, CancelQueued(id)
  PROVE  RecordInv'
<1> DEFINE r == Released(requests[id], "Cancelled")
<1>1. requests[id] \in RequestState /\ GoodRecord(requests[id]) /\ requests[id].status = "Queued"
  BY GoodRecords DEF RecordInv, RecordTypes, CancelQueued, Queued, WithStatus
<1>2. r \in RequestState /\ GoodRecord(r) /\ r.status = "Cancelled"
  BY <1>1 DEF Released, RequestState, RequestStatus, TerminalStatus, GoodRecord
<1>3. requests' = [requests EXCEPT ![id] = r]
  BY DEF CancelQueued
<1> HIDE DEF r
<1> QED
  BY <1>1, <1>2, <1>3, RecordKeepsDispatch DEF CancelQueued

LEMMA RecordCancelRunning ==
  ASSUME RecordInv, NEW id \in DOMAIN requests, CancelRunning(id)
  PROVE  RecordInv'
<1> DEFINE r == [requests[id] EXCEPT !.cancellation_requested = TRUE]
<1>1. requests[id] \in RequestState /\ GoodRecord(requests[id]) /\ requests[id].status = "Running"
  BY GoodRecords DEF RecordInv, RecordTypes, CancelRunning, WithStatus
<1>2. r \in RequestState /\ GoodRecord(r) /\ r.status = "Running"
  BY <1>1 DEF RequestState, GoodRecord
<1>3. DispatchOf(r) = DispatchOf(requests[id])
  BY <1>1 DEF DispatchOf, RequestState
<1>4. requests' = [requests EXCEPT ![id] = r]
  BY DEF CancelRunning
<1> HIDE DEF r
<1> QED
  BY <1>1, <1>2, <1>3, <1>4, RecordKeepsDispatch DEF CancelRunning

LEMMA RecordAbort ==
  ASSUME RecordInv, NEW id \in DOMAIN running, AbortQuantum(id)
  PROVE  RecordInv'
<1> DEFINE r == [Released(requests[id], "Cancelled") EXCEPT !.cancellation_requested = FALSE]
<1>1. requests[id] \in RequestState /\ GoodRecord(requests[id]) /\ requests[id].status = "Running"
  BY GoodRecords DEF RecordInv, RecordTypes, RunningCoherent, WithStatus
<1>2. r \in RequestState /\ GoodRecord(r) /\ r.status = "Cancelled"
  BY <1>1 DEF Released, RequestState, RequestStatus, TerminalStatus, GoodRecord
<1>3. requests' = [requests EXCEPT ![id] = r]
  BY DEF AbortQuantum
<1> HIDE DEF r
<1> QED
  BY <1>2, <1>3, RecordEndsDispatch DEF AbortQuantum

\* The record that a valid completion leaves behind, before its status is set.
LEMMA ProgressedRecord ==
  ASSUME RecordInv, NEW id \in DOMAIN running, NEW emitted \in Nat, NEW progress \in Nat,
         NEW ready \in BOOLEAN, ValidCompletion(running[id], emitted, progress)
  PROVE  LET old == requests[id]
             r   == ApplyProgress(old, running[id], emitted, progress, ready)
         IN  /\ r \in RequestState
             /\ r.spec = old.spec
             /\ r.cancellation_requested = old.cancellation_requested
             /\ r.reserved_kv_bytes = old.reserved_kv_bytes
             /\ r.emitted_tokens + r.remaining_tokens = old.spec.max_output_tokens
             /\ r.remaining_prefill_tokens <= old.remaining_prefill_tokens
             /\ r.emitted_tokens > 0 => r.remaining_prefill_tokens = 0
             /\ running[id].kind = "Prefill" => r.remaining_tokens = old.remaining_tokens
<1> DEFINE old == requests[id]
           d   == running[id]
           vrt == old.virtual_runtime + CeilDiv(progress * 1024, old.spec.priority)
           r   == ApplyProgress(old, d, emitted, progress, ready)
<1>1. /\ old \in RequestState /\ GoodRecord(old) /\ old.status = "Running"
      /\ d = DispatchOf(old) /\ d \in Dispatch
  BY GoodRecords DEF RecordInv, RecordTypes, RunningCoherent, WithStatus
<1>2. /\ old.spec \in RequestSpec /\ old.spec.priority \in Nat \ {0}
      /\ old.virtual_runtime \in Nat /\ old.remaining_tokens \in Nat
      /\ old.emitted_tokens \in Nat /\ old.remaining_prefill_tokens \in Nat
  BY <1>1, SpecFields DEF RequestState, GoodRecord
<1>3. CeilDiv(progress * 1024, old.spec.priority) \in Nat
  <2>1. progress * 1024 + old.spec.priority - 1 \in Nat
    BY <1>2
  <2> QED
    BY <1>2, <2>1, DivNat DEF CeilDiv
<1>4. vrt \in Nat
  BY <1>2, <1>3
<1>5. /\ d.kind = "Prefill" => progress <= old.remaining_prefill_tokens
      /\ d.kind = "Decode" => emitted <= old.remaining_tokens /\ old.remaining_prefill_tokens = 0
      /\ d.kind \in {"Prefill", "Decode"}
      /\ d.kind = "Prefill" => old.remaining_prefill_tokens > 0
  BY <1>1, <1>2, PolicyAssumption DEF DispatchOf, ValidCompletion, MinOf, Dispatch
<1> HIDE DEF vrt
<1> DEFINE q == [old EXCEPT !.virtual_runtime = vrt]
<1>8. /\ q \in RequestState /\ q.spec = old.spec
      /\ q.cancellation_requested = old.cancellation_requested
      /\ q.reserved_kv_bytes = old.reserved_kv_bytes
      /\ q.emitted_tokens = old.emitted_tokens /\ q.remaining_tokens = old.remaining_tokens
      /\ q.remaining_prefill_tokens = old.remaining_prefill_tokens
  BY <1>1, <1>4 DEF RequestState
<1>6. CASE d.kind = "Prefill"
  <2> DEFINE left == IF ready THEN 0 ELSE old.remaining_prefill_tokens - progress
  <2>1. r = [q EXCEPT !.remaining_prefill_tokens = left]
    BY <1>6, <1>8 DEF ApplyProgress, vrt
  <2>2. left \in Nat /\ left <= old.remaining_prefill_tokens
    BY <1>2, <1>5, <1>6
  <2> HIDE DEF r, q, left, d
  <2>3. r \in RequestState
    BY <1>8, <2>1, <2>2 DEF RequestState
  <2> QED
    BY <1>1, <1>2, <1>5, <1>6, <1>8, <2>1, <2>2, <2>3 DEF RequestState, GoodRecord, r, d
<1>7. CASE d.kind = "Decode"
  <2> DEFINE left == old.remaining_tokens - emitted
             done == old.emitted_tokens + emitted
  <2>1. r = [q EXCEPT !.remaining_tokens = left, !.emitted_tokens = done]
    BY <1>7, <1>8 DEF ApplyProgress, vrt
  <2>2. left \in Nat /\ done \in Nat /\ done + left = old.emitted_tokens + old.remaining_tokens
    BY <1>2, <1>5, <1>7
  <2> HIDE DEF r, q, left, done, d
  <2>3. r \in RequestState
    BY <1>8, <2>1, <2>2 DEF RequestState
  <2> QED
    BY <1>1, <1>2, <1>5, <1>7, <1>8, <2>1, <2>2, <2>3 DEF RequestState, GoodRecord, r, d
<1> QED
  BY <1>5, <1>6, <1>7

LEMMA RecordComplete ==
  ASSUME RecordInv, NEW id \in DOMAIN running, NEW emitted \in Nat, NEW progress \in Nat,
         NEW ready \in BOOLEAN, NEW eos \in BOOLEAN,
         CompleteQuantum(id, emitted, progress, ready, eos)
  PROVE  RecordInv'
<1> DEFINE old    == requests[id]
           r      == ApplyProgress(old, running[id], emitted, progress, ready)
           status == QuantumStatus(r, running[id], eos)
           new    == IF status \in TerminalStatus THEN Released(r, status)
                     ELSE [r EXCEPT !.status = status]
<1>1. ValidCompletion(running[id], emitted, progress)
  BY DEF CompleteQuantum
<1>2. /\ old \in RequestState /\ GoodRecord(old) /\ old.status = "Running"
      /\ running[id].kind \in {"Prefill", "Decode"}
  BY GoodRecords DEF RecordInv, RecordTypes, RunningCoherent, WithStatus, Dispatch
<1>3. requests' = [requests EXCEPT ![id] = new] /\ running' = Remove(running, id)
  BY DEF CompleteQuantum
<1>4. /\ r \in RequestState /\ r.spec = old.spec
      /\ r.emitted_tokens + r.remaining_tokens = old.spec.max_output_tokens
      /\ r.cancellation_requested = old.cancellation_requested
      /\ r.remaining_prefill_tokens <= old.remaining_prefill_tokens
      /\ r.emitted_tokens > 0 => r.remaining_prefill_tokens = 0
      /\ running[id].kind = "Prefill" => r.remaining_tokens = old.remaining_tokens
  BY <1>1, ProgressedRecord
<1> HIDE DEF r
<1>5. /\ status \in {"Queued", "Finished", "Cancelled"}
      /\ r.cancellation_requested => status = "Cancelled"
      /\ status = "Queued" => running[id].kind = "Prefill" \/ r.remaining_tokens # 0
      /\ status = "Finished" => running[id].kind = "Decode"
  BY <1>2 DEF QuantumStatus
<1> HIDE DEF status
<1>6. /\ new \in RequestState /\ new.status = status /\ new.spec = r.spec
      /\ new.remaining_tokens = r.remaining_tokens /\ new.emitted_tokens = r.emitted_tokens
      /\ new.remaining_prefill_tokens = r.remaining_prefill_tokens
      /\ new.cancellation_requested = r.cancellation_requested
  BY <1>4, <1>5 DEF Released, RequestState, RequestStatus, TerminalStatus
<1> HIDE DEF new
<1>7. GoodRecord(new)
  <2>1. /\ old.spec \in RequestSpec /\ old.remaining_prefill_tokens \in Nat
        /\ old.remaining_tokens \in Nat /\ r.remaining_tokens \in Nat
        /\ r.remaining_prefill_tokens \in Nat
    BY <1>2, <1>4 DEF RequestState
  <2>2. running[id] = DispatchOf(old)
    BY DEF RecordInv, RunningCoherent, CompleteQuantum
  <2>3. running[id].kind = "Decode" => old.remaining_prefill_tokens = 0
    BY <2>1, <2>2 DEF DispatchOf
  <2>4. status = "Finished" => r.remaining_prefill_tokens = 0
    BY <1>4, <1>5, <2>1, <2>3
  <2> QED
    BY <1>2, <1>4, <1>5, <1>6, <2>1, <2>4, SpecFields DEF GoodRecord
<1> QED
  BY <1>3, <1>5, <1>6, <1>7, RecordEndsDispatch DEF CompleteQuantum

LEMMA RecordDispatch ==
  ASSUME RecordInv, NEW limit \in Nat, DispatchBatch(limit)
  PROVE  RecordInv'
<1> DEFINE late     == ExpiredNow
           selected == SelectBatchIds(Queued \ late, MinOf(limit, MaxBatchRequests))
<1>1. /\ late \subseteq Queued /\ selected \subseteq Queued \ late
      /\ Queued \subseteq DOMAIN requests
      /\ \A id \in Queued : requests[id].status = "Queued"
  BY DEF ExpiredNow, SelectBatchIds, Queued, WithStatus
<1>2. /\ DOMAIN running = {}
      /\ requests' = [id \in DOMAIN requests |->
                        IF id \in late THEN Released(requests[id], "DeadlineExpired")
                        ELSE IF id \in selected THEN [requests[id] EXCEPT !.status = "Running"]
                        ELSE requests[id]]
      /\ running' = [id \in selected |-> DispatchOf(requests[id])]
      /\ expired' = expired \cup late
      /\ UNCHANGED <<next_sequence, now_ns>>
  BY DEF DispatchBatch
<1> HIDE DEF late, selected
<1>3. \A id \in DOMAIN requests : requests[id] \in RequestState /\ GoodRecord(requests[id])
  BY GoodRecords DEF RecordInv, RecordTypes
<1>4. \A id \in DOMAIN requests :
        requests'[id] \in RequestState /\ GoodRecord(requests'[id])
  <2> SUFFICES ASSUME NEW id \in DOMAIN requests
               PROVE  requests'[id] \in RequestState /\ GoodRecord(requests'[id])
    OBVIOUS
  <2>1. requests[id] \in RequestState /\ GoodRecord(requests[id])
    BY <1>3
  <2>2. CASE id \in late
    <3>1. requests'[id] = Released(requests[id], "DeadlineExpired") /\ requests[id].status = "Queued"
      BY <1>1, <1>2, <2>2
    <3>2. "DeadlineExpired" \in TerminalStatus
      BY DEF TerminalStatus
    <3> QED
      BY <2>1, <3>1, <3>2, ReleasedRecord DEF GoodRecord
  <2>3. CASE id \in selected
    <3>1. requests'[id] = [requests[id] EXCEPT !.status = "Running"] /\ requests[id].status = "Queued"
      BY <1>1, <1>2, <2>3
    <3> QED
      BY <2>1, <3>1 DEF RequestState, RequestStatus, TerminalStatus, GoodRecord
  <2>4. CASE id \notin late /\ id \notin selected
    BY <1>2, <2>1, <2>4
  <2> QED
    BY <2>2, <2>3, <2>4
<1>5. DOMAIN requests' = DOMAIN requests /\ requests' \in [DOMAIN requests' -> RequestState]
  BY <1>2, <1>4
<1>6. \A id \in selected : /\ DispatchOf(requests[id]) \in Dispatch
                           /\ DispatchOf(requests[id]).token_budget > 0
                           /\ DispatchOf(requests'[id]) = DispatchOf(requests[id])
                           /\ requests'[id].status = "Running"
  <2> SUFFICES ASSUME NEW id \in selected
               PROVE  /\ DispatchOf(requests[id]) \in Dispatch
                      /\ DispatchOf(requests[id]).token_budget > 0
                      /\ DispatchOf(requests'[id]) = DispatchOf(requests[id])
                      /\ requests'[id].status = "Running"
    OBVIOUS
  <2>1. /\ id \in DOMAIN requests /\ id \notin late /\ requests[id].status = "Queued"
        /\ requests[id] \in RequestState /\ GoodRecord(requests[id])
    BY <1>1, <1>3
  <2>2. requests'[id] = [requests[id] EXCEPT !.status = "Running"]
    BY <1>2, <2>1
  <2>3. /\ requests[id].remaining_tokens \in Nat \ {0}
        /\ requests[id].remaining_prefill_tokens \in Nat
    BY <2>1 DEF RequestState, GoodRecord
  <2>4. /\ requests'[id].remaining_tokens = requests[id].remaining_tokens
        /\ requests'[id].remaining_prefill_tokens = requests[id].remaining_prefill_tokens
        /\ requests'[id].status = "Running"
    BY <2>1, <2>2 DEF RequestState
  <2> QED
    BY <2>3, <2>4, PolicyAssumption DEF DispatchOf, Dispatch, MinOf
<1>7. RecordTypes'
  <2>1. DOMAIN running' \subseteq RequestId /\ running' \in [DOMAIN running' -> Dispatch]
    BY <1>1, <1>2, <1>6 DEF RecordInv, RecordTypes
  <2>2. expired' \subseteq RequestId
    BY <1>1, <1>2 DEF RecordInv, RecordTypes
  <2> QED
    BY <1>2, <1>5, <2>1, <2>2 DEF RecordInv, RecordTypes
<1>8. AdmittedShapes' /\ TokensConserved' /\ CancellationHonoured'
  BY <1>4, <1>5, GoodRecordsPrime
<1>9. RunningCoherent'
  <2>1. WithStatus(requests, {"Running"}) = {}
    BY <1>2 DEF RecordInv, RunningCoherent
  <2>2. \A id \in DOMAIN requests \ selected : requests'[id].status # "Running"
    <3> SUFFICES ASSUME NEW id \in DOMAIN requests \ selected
                 PROVE  requests'[id].status # "Running"
      OBVIOUS
    <3>1. requests[id].status # "Running"
      BY <2>1 DEF WithStatus
    <3>2. CASE id \in late
      BY <1>2, <1>3, <3>2 DEF Released, RequestState
    <3>3. CASE id \notin late
      BY <1>2, <3>1, <3>3
    <3> QED
      BY <3>2, <3>3
  <2>3. WithStatus(requests, {"Running"})' = selected
    BY <1>1, <1>5, <1>6, <2>2 DEF WithStatus
  <2>4. DOMAIN running' = selected
    BY <1>2
  <2> QED
    BY <1>2, <1>6, <2>3, <2>4 DEF RunningCoherent
<1> QED
  BY <1>7, <1>8, <1>9 DEF RecordInv

LEMMA RecordPrune ==
  ASSUME RecordInv, PruneTerminal
  PROVE  RecordInv'
<1>1. /\ DOMAIN requests' = Live /\ Live \subseteq DOMAIN requests
      /\ \A id \in Live : requests'[id] = requests[id]
      /\ requests' = [id \in Live |-> requests[id]]
  BY DEF PruneTerminal, Live, WithStatus
<1>2. RecordTypes'
  BY <1>1 DEF RecordInv, RecordTypes, PruneTerminal
<1>3. AdmittedShapes' /\ TokensConserved' /\ CancellationHonoured'
  BY <1>1, GoodRecords, GoodRecordsPrime DEF RecordInv
<1>4. RunningCoherent'
  <2>1. WithStatus(requests, {"Running"})' = WithStatus(requests, {"Running"})
    BY <1>1 DEF WithStatus, Live, RequestStatus, TerminalStatus
  <2>2. \A id \in DOMAIN running : id \in Live
    BY DEF RecordInv, RunningCoherent, WithStatus, Live, RequestStatus, TerminalStatus
  <2> QED
    BY <1>1, <2>1, <2>2 DEF RecordInv, RunningCoherent, PruneTerminal
<1> QED
  BY <1>2, <1>3, <1>4 DEF RecordInv

\* RecordInv is inductive.
LEMMA RecordStep ==
  ASSUME RecordInv, [Next]_vars
  PROVE  RecordInv'
<1>1. ASSUME NEW id \in RequestId, NEW spec \in RequestSpec, Admit(id, spec)
      PROVE  RecordInv'
  BY <1>1, RecordAdmit
<1>2. ASSUME NEW limit \in 1..MaxBatchRequests, DispatchBatch(limit)
      PROVE  RecordInv'
  <2>1. limit \in Nat
    BY PolicyAssumption
  <2> QED
    BY <1>2, <2>1, RecordDispatch
<1>3. ASSUME NEW id \in DOMAIN running, NEW emitted \in TokenCount, NEW progress \in TokenCount,
             NEW ready \in BOOLEAN, NEW eos \in BOOLEAN,
             CompleteQuantum(id, emitted, progress, ready, eos)
      PROVE  RecordInv'
  <2>1. emitted \in Nat /\ progress \in Nat
    BY PolicyAssumption DEF TokenCount, MaxOf
  <2> QED
    BY <1>3, <2>1, RecordComplete
<1>4. ASSUME NEW id \in DOMAIN running, AbortQuantum(id)
      PROVE  RecordInv'
  BY <1>4, RecordAbort
<1>5. ASSUME NEW id \in DOMAIN requests, CancelQueued(id)
      PROVE  RecordInv'
  BY <1>5, RecordCancelQueued
<1>6. ASSUME NEW id \in DOMAIN requests, CancelRunning(id)
      PROVE  RecordInv'
  BY <1>6, RecordCancelRunning
<1>7. CASE TakeExpiredDeadlines
  BY <1>7 DEF TakeExpiredDeadlines, RecordInv, RecordTypes, AdmittedShapes, RunningCoherent,
              TokensConserved, CancellationHonoured, Live, WithStatus
<1>8. CASE PruneTerminal
  BY <1>8, RecordPrune
<1>9. CASE AdvanceClock
  BY <1>9, BoundAssumption
  DEF AdvanceClock, RecordInv, RecordTypes, AdmittedShapes, RunningCoherent,
      TokensConserved, CancellationHonoured, Live, WithStatus
<1>10. CASE UNCHANGED vars
  BY <1>10 DEF vars, RecordInv, RecordTypes, AdmittedShapes, RunningCoherent,
               TokensConserved, CancellationHonoured, Live, WithStatus
<1> QED
  BY <1>1, <1>2, <1>3, <1>4, <1>5, <1>6, <1>7, <1>8, <1>9, <1>10 DEF Next

LEMMA RecordInit == Init => RecordInv
<1> SUFFICES ASSUME Init PROVE RecordInv
  OBVIOUS
<1>1. DOMAIN requests = {} /\ DOMAIN running = {} /\ expired = {} /\ next_sequence = 0 /\ now_ns = 0
  BY DEF Init
<1>2. requests \in [DOMAIN requests -> RequestState] /\ running \in [DOMAIN running -> Dispatch]
  BY DEF Init
<1> QED
  BY <1>1, <1>2, BoundAssumption DEF RecordInv, RecordTypes, AdmittedShapes, RunningCoherent,
     TokensConserved, CancellationHonoured, WithStatus

\* RecordInv holds.  Its parts need each other: RunningCoherent keeps what is
\* emitted within what remains, and TokensConserved keeps every new dispatch's
\* budget above zero.
LEMMA RecordInvariant == Spec => []RecordInv
<1>1. RecordInv /\ [Next]_vars => RecordInv'
  BY RecordStep
<1> QED
  BY <1>1, RecordInit, PTL DEF Spec

\* The dispatches in flight are exactly the Running records, and each is the one
\* that start_batch would make of the record now: no completion, abort, cancel or
\* prune leaves a dispatch without its record or a record without its dispatch.
THEOREM DispatchesCoherent == Spec => []RunningCoherent
<1> QED
  BY RecordInvariant, PTL DEF RecordInv

\* Emitted and remaining tokens add up to what was asked for, no request emits
\* or finishes before its prompt is evaluated, and none is live with its
\* allowance spent, through every completion, cancel and requeue.
THEOREM RecordsCorrect == Spec => []TokensConserved
<1> QED
  BY RecordInvariant, PTL DEF RecordInv

\* A request that was marked by cancel while it ran is running or Cancelled:
\* apply_quantum_status neither requeues it nor reports it Finished.
THEOREM CancellationsHonoured == Spec => []CancellationHonoured
<1> QED
  BY RecordInvariant, PTL DEF RecordInv

-----------------------------------------------------------------------------
(* The totals *)

\* Totals and statistics agree with the records.
TotalsInv ==
  /\ reserved_kv_bytes \in Nat
  /\ stats \in Stats
  /\ KvAccounting
  /\ KvWithinBudget
  /\ OutcomesBalance
  /\ Cardinality(Live) <= MaxActiveRequests
  /\ OvershootBounded

\* The finite sets that the totals count.
LEMMA FiniteRecords ==
  ASSUME RecordTypes
  PROVE  /\ IsFiniteSet(DOMAIN requests) /\ IsFiniteSet(Live) /\ Cardinality(Live) \in Nat
         /\ Live \subseteq DOMAIN requests
         /\ \A id \in DOMAIN requests : requests[id].reserved_kv_bytes \in Nat
<1>1. IsFiniteSet(DOMAIN requests)
  BY IdAssumption, FS_Subset DEF RecordTypes
<1>2. Live \subseteq DOMAIN requests
  BY DEF Live, WithStatus
<1>3. IsFiniteSet(Live) /\ Cardinality(Live) \in Nat
  BY <1>1, <1>2, FS_Subset, FS_CardinalityType
<1> QED
  BY <1>1, <1>2, <1>3 DEF RecordTypes, RequestState

\* When the live requests in S end, giving back what they hold, and nothing
\* else changes status or reservation, the accounting still balances.
LEMMA RequestsEnd ==
  ASSUME RecordTypes, TotalsInv, NEW S \in SUBSET Live,
         DOMAIN requests' = DOMAIN requests,
         \A id \in DOMAIN requests : requests'[id].spec = requests[id].spec,
         \A id \in DOMAIN requests \ S :
           /\ requests'[id].reserved_kv_bytes = requests[id].reserved_kv_bytes
           /\ id \in Live' <=> id \in Live,
         \A id \in S : requests'[id].reserved_kv_bytes = 0 /\ id \notin Live',
         reserved_kv_bytes' = reserved_kv_bytes - ReservedSum(requests, S)
  PROVE  /\ KvAccounting'
         /\ reserved_kv_bytes' \in Nat /\ reserved_kv_bytes' <= reserved_kv_bytes
         /\ Live' = Live \ S
         /\ Cardinality(S) \in Nat /\ Cardinality(Live') \in Nat
         /\ Cardinality(Live') = Cardinality(Live) - Cardinality(S)
<1>1. /\ IsFiniteSet(DOMAIN requests) /\ IsFiniteSet(Live) /\ Live \subseteq DOMAIN requests
      /\ \A id \in DOMAIN requests : requests[id].reserved_kv_bytes \in Nat
  BY FiniteRecords
<1>2. /\ ReservedSum(requests', DOMAIN requests) =
           ReservedSum(requests, DOMAIN requests) - ReservedSum(requests, S)
      /\ ReservedSum(requests', DOMAIN requests) \in Nat
      /\ ReservedSum(requests, S) \in Nat
  BY <1>1, SumRelease
<1>3. reserved_kv_bytes = ReservedSum(requests, DOMAIN requests) /\ reserved_kv_bytes \in Nat
  BY DEF TotalsInv, KvAccounting
<1>4. /\ reserved_kv_bytes' = ReservedSum(requests', DOMAIN requests')
      /\ reserved_kv_bytes' \in Nat /\ reserved_kv_bytes' <= reserved_kv_bytes
  BY <1>2, <1>3
<1>5. Live' \subseteq DOMAIN requests'
  BY DEF Live, WithStatus
<1>6. Live' = Live \ S
  BY <1>1, <1>5
<1>7. \A id \in DOMAIN requests' :
        requests'[id].reserved_kv_bytes =
          IF id \in Live' THEN ReservationBytes(requests'[id].spec) ELSE 0
  BY <1>6 DEF TotalsInv, KvAccounting
<1>8. KvAccounting'
  BY <1>4, <1>7 DEF KvAccounting, ReservationBytes
<1>9. IsFiniteSet(S) /\ Cardinality(S) \in Nat /\ Live \cap S = S
  BY <1>1, FS_Subset, FS_CardinalityType
<1>10. Cardinality(Live \ S) = Cardinality(Live) - Cardinality(S)
  BY <1>1, <1>9, FS_Difference
<1>11. Cardinality(Live \ S) \in Nat
  BY <1>1, FS_Difference, FS_CardinalityType
<1> QED
  BY <1>4, <1>6, <1>8, <1>9, <1>10, <1>11

\* The fields of the statistics are numbers.
LEMMA StatsFields ==
  ASSUME TotalsInv
  PROVE  /\ stats.admitted_requests \in Nat /\ stats.rejected_requests \in Nat
         /\ stats.completed_requests \in Nat /\ stats.cancelled_requests \in Nat
         /\ stats.expired_requests \in Nat /\ stats.max_reserved_kv_bytes \in Nat
         /\ stats.max_cancellation_overshoot_tokens \in Nat
BY DEF TotalsInv, Stats

LEMMA TotalsAdmit ==
  ASSUME RecordInv, RecordInv', TotalsInv, NEW id \in RequestId, NEW spec \in RequestSpec,
         Admit(id, spec)
  PROVE  TotalsInv'
<1> DEFINE rejected == AdmissionRejection(spec) # "None"
           new      == NewRequest(spec, rejected)
           bytes    == ReservationBytes(spec)
<1>1. /\ id \notin DOMAIN requests
      /\ requests' = Insert(requests, id, new)
      /\ next_sequence' = next_sequence + 1
      /\ reserved_kv_bytes' = IF rejected THEN reserved_kv_bytes ELSE reserved_kv_bytes + bytes
      /\ stats' = IF rejected
                  THEN [stats EXCEPT !.rejected_requests = @ + 1]
                  ELSE [stats EXCEPT !.admitted_requests = @ + 1,
                                     !.max_reserved_kv_bytes = MaxOf(@, reserved_kv_bytes + bytes)]
  BY DEF Admit
<1>2. ~rejected => /\ bytes \in Nat
                   /\ reserved_kv_bytes + bytes <= MaxReservedKvBytes
                   /\ Cardinality(Live) < MaxActiveRequests
  <2> SUFFICES ASSUME ~rejected
               PROVE  /\ bytes \in Nat
                      /\ reserved_kv_bytes + bytes <= MaxReservedKvBytes
                      /\ Cardinality(Live) < MaxActiveRequests
    OBVIOUS
  <2>1. bytes \in Nat
    BY AcceptedShape, ReservationNat
  <2>2. ~(Cardinality(Live) >= MaxActiveRequests) /\ ~(reserved_kv_bytes + bytes > MaxReservedKvBytes)
    BY DEF AdmissionRejection
  <2>3. Cardinality(Live) \in Nat
    BY FiniteRecords DEF RecordInv
  <2> QED
    BY <2>1, <2>2, <2>3, PolicyAssumption DEF TotalsInv
<1>3. /\ new.spec = spec
      /\ new.status = IF rejected THEN "Rejected" ELSE "Queued"
      /\ new.reserved_kv_bytes = IF rejected THEN 0 ELSE bytes
  BY DEF NewRequest
<1> HIDE DEF rejected, new, bytes
<1>4. /\ DOMAIN requests' = DOMAIN requests \cup {id}
      /\ requests'[id] = new
      /\ \A x \in DOMAIN requests : requests'[x] = requests[x]
  BY <1>1 DEF Insert
<1>5. /\ IsFiniteSet(DOMAIN requests) /\ IsFiniteSet(Live) /\ Cardinality(Live) \in Nat
      /\ Live \subseteq DOMAIN requests
      /\ \A x \in DOMAIN requests : requests[x].reserved_kv_bytes \in Nat
  BY FiniteRecords DEF RecordInv
<1>6. /\ reserved_kv_bytes \in Nat /\ stats \in Stats /\ next_sequence \in Nat
      /\ reserved_kv_bytes = ReservedSum(requests, DOMAIN requests)
  BY BoundAssumption DEF TotalsInv, KvAccounting, RecordInv, RecordTypes
<1>7. Live' = IF rejected THEN Live ELSE Live \cup {id}
  BY <1>1, <1>3, <1>4 DEF Live, WithStatus, RequestStatus, TerminalStatus
<1>8. Cardinality(Live') = IF rejected THEN Cardinality(Live) ELSE Cardinality(Live) + 1
  <2>1. id \notin Live
    BY <1>1, <1>5
  <2>2. Cardinality(Live \cup {id}) = Cardinality(Live) + 1
    BY <1>5, <2>1, FS_AddElement
  <2> QED
    BY <1>7, <2>2
<1>9. ReservedSum(requests', DOMAIN requests') =
        ReservedSum(requests, DOMAIN requests) + new.reserved_kv_bytes
  <2>1. requests'[id].reserved_kv_bytes \in Nat
    BY <1>2, <1>3, <1>4
  <2>2. ReservedSum(requests', DOMAIN requests \cup {id}) =
          ReservedSum(requests, DOMAIN requests) + requests'[id].reserved_kv_bytes
    BY <1>1, <1>4, <1>5, <2>1, SumInsert
  <2> QED
    BY <1>4, <2>2
<1>10. KvAccounting'
  <2>1. reserved_kv_bytes' = ReservedSum(requests', DOMAIN requests')
    BY <1>1, <1>2, <1>3, <1>6, <1>9
  <2>2. ASSUME NEW x \in DOMAIN requests'
        PROVE  requests'[x].reserved_kv_bytes =
                 IF x \in Live' THEN ReservationBytes(requests'[x].spec) ELSE 0
    <3>1. CASE x = id
      BY <1>1, <1>3, <1>4, <1>5, <1>7, <3>1 DEF bytes
    <3>2. CASE x # id
      BY <1>4, <1>7, <3>2 DEF TotalsInv, KvAccounting
    <3> QED
      BY <3>1, <3>2
  <2> QED
    BY <2>1, <2>2 DEF KvAccounting, ReservationBytes
<1>11. reserved_kv_bytes' \in Nat
  BY <1>1, <1>2, <1>6
<1>12. CASE rejected
  <2>1. stats' = [stats EXCEPT !.rejected_requests = @ + 1] /\ reserved_kv_bytes' = reserved_kv_bytes
    BY <1>1, <1>12
  <2>2. stats' \in Stats
    BY <1>6, <2>1 DEF Stats
  <2>3. KvWithinBudget' /\ OvershootBounded'
    BY <1>6, <2>1 DEF TotalsInv, KvWithinBudget, OvershootBounded, Stats
  <2>4. OutcomesBalance'
    <3>1. Cardinality(Live)' = Cardinality(Live)
      BY <1>8, <1>12
    <3>2. /\ stats'.admitted_requests = stats.admitted_requests
          /\ stats'.rejected_requests = stats.rejected_requests + 1
          /\ stats'.completed_requests = stats.completed_requests
          /\ stats'.cancelled_requests = stats.cancelled_requests
          /\ stats'.expired_requests = stats.expired_requests
      BY <1>6, <2>1 DEF Stats
    <3> QED
      BY <1>1, <1>5, <1>6, <3>1, <3>2, StatsFields DEF TotalsInv, OutcomesBalance
  <2>5. (Cardinality(Live) <= MaxActiveRequests)'
    BY <1>8, <1>12 DEF TotalsInv
  <2> QED
    BY <1>10, <1>11, <2>2, <2>3, <2>4, <2>5 DEF TotalsInv
<1>13. CASE ~rejected
  <2> DEFINE total == reserved_kv_bytes + bytes
             high  == MaxOf(stats.max_reserved_kv_bytes, total)
             count == stats.admitted_requests + 1
  <2>1. /\ stats' = [stats EXCEPT !.admitted_requests = count, !.max_reserved_kv_bytes = high]
        /\ reserved_kv_bytes' = total /\ total \in Nat /\ total <= MaxReservedKvBytes
    BY <1>1, <1>2, <1>6, <1>13
  <2>2. count \in Nat /\ count = stats.admitted_requests + 1
    BY StatsFields
  <2> HIDE DEF total, count
  <2>7. high \in Nat /\ total <= high /\ high <= MaxReservedKvBytes
    BY <2>1, StatsFields, PolicyAssumption DEF MaxOf, TotalsInv, KvWithinBudget
  <2> HIDE DEF high
  <2>3. /\ stats' \in Stats
        /\ stats'.max_reserved_kv_bytes = high
        /\ stats'.max_cancellation_overshoot_tokens = stats.max_cancellation_overshoot_tokens
        /\ stats'.admitted_requests = stats.admitted_requests + 1
        /\ stats'.rejected_requests = stats.rejected_requests
        /\ stats'.completed_requests = stats.completed_requests
        /\ stats'.cancelled_requests = stats.cancelled_requests
        /\ stats'.expired_requests = stats.expired_requests
    BY <1>6, <2>1, <2>2, <2>7 DEF Stats
  <2>4. KvWithinBudget' /\ OvershootBounded'
    BY <2>1, <2>7, <2>3 DEF TotalsInv, KvWithinBudget, OvershootBounded
  <2>5. OutcomesBalance'
    <3>1. Cardinality(Live)' = Cardinality(Live) + 1
      BY <1>8, <1>13
    <3> QED
      BY <1>1, <1>5, <1>6, <2>3, <3>1, StatsFields DEF TotalsInv, OutcomesBalance
  <2>6. (Cardinality(Live) <= MaxActiveRequests)'
    BY <1>2, <1>5, <1>8, <1>13, PolicyAssumption
  <2> QED
    BY <1>10, <1>11, <2>3, <2>4, <2>5, <2>6 DEF TotalsInv
<1> QED
  BY <1>12, <1>13

\* The totals after a step in which live requests end and each is counted once.
LEMMA TotalsAfterEnd ==
  ASSUME RecordTypes, TotalsInv, NEW ended \in Nat,
         KvAccounting', reserved_kv_bytes' \in Nat, reserved_kv_bytes' <= reserved_kv_bytes,
         Cardinality(Live') \in Nat, Cardinality(Live') = Cardinality(Live) - ended,
         stats' \in Stats,
         stats'.admitted_requests = stats.admitted_requests,
         stats'.rejected_requests = stats.rejected_requests,
         stats'.max_reserved_kv_bytes = stats.max_reserved_kv_bytes,
         stats'.completed_requests + stats'.cancelled_requests + stats'.expired_requests =
           stats.completed_requests + stats.cancelled_requests + stats.expired_requests + ended,
         stats'.max_cancellation_overshoot_tokens <= ServiceQuantumTokens,
         next_sequence' = next_sequence
  PROVE  TotalsInv'
<1>1. Cardinality(Live) \in Nat
  BY FiniteRecords
<1>2. KvWithinBudget'
  BY StatsFields, PolicyAssumption DEF TotalsInv, KvWithinBudget
<1>3. OutcomesBalance'
  <2>1. /\ stats.admitted_requests = stats.completed_requests + stats.cancelled_requests
                                      + stats.expired_requests + Cardinality(Live)
        /\ next_sequence = stats.admitted_requests + stats.rejected_requests
    BY DEF TotalsInv, OutcomesBalance
  <2>2. /\ stats'.completed_requests \in Nat /\ stats'.cancelled_requests \in Nat
        /\ stats'.expired_requests \in Nat
    BY DEF Stats
  <2>3. stats'.admitted_requests = stats'.completed_requests + stats'.cancelled_requests
                                    + stats'.expired_requests + Cardinality(Live')
    BY <1>1, <2>1, <2>2, StatsFields
  <2> QED
    BY <2>1, <2>3 DEF OutcomesBalance
<1>4. (Cardinality(Live) <= MaxActiveRequests)'
  BY <1>1, PolicyAssumption DEF TotalsInv
<1> QED
  BY <1>2, <1>3, <1>4 DEF TotalsInv, OvershootBounded

\* Both live statuses, spelled out.
LEMMA LiveStatus ==
  \A id : id \in Live <=> id \in DOMAIN requests /\ requests[id].status \in {"Queued", "Running"}
BY DEF Live, WithStatus, RequestStatus, TerminalStatus

LEMMA LiveStatusPrime ==
  \A id : id \in Live' <=> id \in DOMAIN requests' /\ requests'[id].status \in {"Queued", "Running"}
BY DEF Live, WithStatus, RequestStatus, TerminalStatus

LEMMA TotalsDispatch ==
  ASSUME RecordInv, TotalsInv, NEW limit \in Nat, DispatchBatch(limit)
  PROVE  TotalsInv'
<1> DEFINE late     == ExpiredNow
           selected == SelectBatchIds(Queued \ late, MinOf(limit, MaxBatchRequests))
<1>1. /\ late \subseteq Queued /\ selected \subseteq Queued \ late
      /\ Queued \subseteq DOMAIN requests
      /\ \A id \in Queued : requests[id].status = "Queued"
  BY DEF ExpiredNow, SelectBatchIds, Queued, WithStatus
<1>2. /\ requests' = [id \in DOMAIN requests |->
                        IF id \in late THEN Released(requests[id], "DeadlineExpired")
                        ELSE IF id \in selected THEN [requests[id] EXCEPT !.status = "Running"]
                        ELSE requests[id]]
      /\ reserved_kv_bytes' = reserved_kv_bytes - ReservedSum(requests, late)
      /\ stats' = [stats EXCEPT !.expired_requests = @ + Cardinality(late)]
      /\ next_sequence' = next_sequence
  BY DEF DispatchBatch
<1> HIDE DEF late, selected
<1>3. \A id \in DOMAIN requests : requests[id] \in RequestState
  BY DEF RecordInv, RecordTypes
<1>4. late \subseteq Live
  BY <1>1, LiveStatus
<1>5. \A id \in late : /\ requests'[id].status = "DeadlineExpired"
                       /\ requests'[id].reserved_kv_bytes = 0
                       /\ requests'[id].spec = requests[id].spec
  BY <1>1, <1>2, <1>3 DEF Released, RequestState
<1>6. \A id \in selected : /\ requests'[id].status = "Running" /\ requests[id].status = "Queued"
                           /\ requests'[id].reserved_kv_bytes = requests[id].reserved_kv_bytes
                           /\ requests'[id].spec = requests[id].spec
  BY <1>1, <1>2, <1>3 DEF RequestState
<1>7. \A id \in DOMAIN requests \ (late \cup selected) : requests'[id] = requests[id]
  BY <1>2
<1>8. DOMAIN requests' = DOMAIN requests
  BY <1>2
<1>9. /\ \A id \in DOMAIN requests : requests'[id].spec = requests[id].spec
      /\ \A id \in DOMAIN requests \ late :
           /\ requests'[id].reserved_kv_bytes = requests[id].reserved_kv_bytes
           /\ id \in Live' <=> id \in Live
      /\ \A id \in late : requests'[id].reserved_kv_bytes = 0 /\ id \notin Live'
  BY <1>5, <1>6, <1>7, <1>8, LiveStatus, LiveStatusPrime
<1>10. /\ KvAccounting'
       /\ reserved_kv_bytes' \in Nat /\ reserved_kv_bytes' <= reserved_kv_bytes
       /\ Cardinality(late) \in Nat /\ Cardinality(Live') \in Nat
       /\ Cardinality(Live') = Cardinality(Live) - Cardinality(late)
  BY <1>2, <1>4, <1>8, <1>9, RequestsEnd DEF RecordInv
<1> DEFINE count == stats.expired_requests + Cardinality(late)
<1>11. count \in Nat /\ stats' = [stats EXCEPT !.expired_requests = count] /\ stats \in Stats
  BY <1>2, <1>10, StatsFields DEF TotalsInv
<1>12. stats.max_cancellation_overshoot_tokens <= ServiceQuantumTokens
  BY DEF TotalsInv, OvershootBounded
<1>13. /\ stats' \in Stats
       /\ stats'.admitted_requests = stats.admitted_requests
       /\ stats'.rejected_requests = stats.rejected_requests
       /\ stats'.completed_requests = stats.completed_requests
       /\ stats'.cancelled_requests = stats.cancelled_requests
       /\ stats'.expired_requests = count
       /\ stats'.max_reserved_kv_bytes = stats.max_reserved_kv_bytes
       /\ stats'.max_cancellation_overshoot_tokens = stats.max_cancellation_overshoot_tokens
  <2> HIDE DEF count
  <2> QED
    BY <1>11 DEF Stats
<1>14. stats'.completed_requests + stats'.cancelled_requests + stats'.expired_requests =
         stats.completed_requests + stats.cancelled_requests + stats.expired_requests
           + Cardinality(late)
  BY <1>10, <1>13, StatsFields
<1> QED
  BY <1>2, <1>10, <1>12, <1>13, <1>14, TotalsAfterEnd DEF RecordInv

\* One live request ends, or goes on, and is counted once if it ends.
LEMMA TotalsOneEnds ==
  ASSUME RecordInv, TotalsInv, NEW id \in Live, NEW new, NEW ends \in BOOLEAN,
         requests' = [requests EXCEPT ![id] = new],
         new.spec = requests[id].spec,
         ends => new.reserved_kv_bytes = 0 /\ new.status \notin {"Queued", "Running"},
         ~ends => /\ new.reserved_kv_bytes = requests[id].reserved_kv_bytes
                  /\ new.status \in {"Queued", "Running"},
         reserved_kv_bytes' = IF ends THEN reserved_kv_bytes - requests[id].reserved_kv_bytes
                              ELSE reserved_kv_bytes,
         stats' \in Stats,
         stats'.admitted_requests = stats.admitted_requests,
         stats'.rejected_requests = stats.rejected_requests,
         stats'.max_reserved_kv_bytes = stats.max_reserved_kv_bytes,
         stats'.completed_requests + stats'.cancelled_requests + stats'.expired_requests =
           stats.completed_requests + stats.cancelled_requests + stats.expired_requests
             + (IF ends THEN 1 ELSE 0),
         stats'.max_cancellation_overshoot_tokens <= ServiceQuantumTokens,
         next_sequence' = next_sequence
  PROVE  TotalsInv'
<1> DEFINE S == IF ends THEN {id} ELSE {}
<1>1. /\ IsFiniteSet(DOMAIN requests) /\ id \in DOMAIN requests
      /\ \A x \in DOMAIN requests : requests[x].reserved_kv_bytes \in Nat
  BY FiniteRecords DEF RecordInv
<1>2. /\ DOMAIN requests' = DOMAIN requests /\ requests'[id] = new
      /\ \A x \in DOMAIN requests \ {id} : requests'[x] = requests[x]
  BY <1>1
<1>3. reserved_kv_bytes' = reserved_kv_bytes - ReservedSum(requests, S)
  <2>1. reserved_kv_bytes \in Nat
    BY DEF TotalsInv
  <2>2. CASE ends
    BY <1>1, <2>2, UnitsOfOne
  <2>3. CASE ~ends
    <3>1. ReservedSum(requests, {}) = 0
      BY FS_EmptySet, SumZero
    <3> QED
      BY <2>1, <2>3, <3>1
  <2> QED
    BY <2>2, <2>3
<1>4. \A x \in DOMAIN requests : requests'[x].spec = requests[x].spec
  BY <1>2
<1>5. \A x \in DOMAIN requests \ S :
        /\ requests'[x].reserved_kv_bytes = requests[x].reserved_kv_bytes
        /\ x \in Live' <=> x \in Live
  BY <1>2, LiveStatus, LiveStatusPrime
<1>6. \A x \in S : requests'[x].reserved_kv_bytes = 0 /\ x \notin Live'
  BY <1>2, LiveStatusPrime
<1>7. S \in SUBSET Live
  OBVIOUS
<1>8. Cardinality(S) = IF ends THEN 1 ELSE 0
  BY FS_Singleton, FS_EmptySet
<1> HIDE DEF S
<1>9. /\ KvAccounting'
      /\ reserved_kv_bytes' \in Nat /\ reserved_kv_bytes' <= reserved_kv_bytes
      /\ Cardinality(S) \in Nat /\ Cardinality(Live') \in Nat
      /\ Cardinality(Live') = Cardinality(Live) - Cardinality(S)
  BY <1>2, <1>3, <1>4, <1>5, <1>6, <1>7, RequestsEnd DEF RecordInv
<1> QED
  BY <1>8, <1>9, TotalsAfterEnd DEF RecordInv

\* A cancellation counted by abort_quantum or by cancel, field by field.
LEMMA CountCancelled ==
  ASSUME TotalsInv, stats' = [stats EXCEPT !.cancelled_requests = @ + 1]
  PROVE  /\ stats' \in Stats
         /\ stats'.admitted_requests = stats.admitted_requests
         /\ stats'.rejected_requests = stats.rejected_requests
         /\ stats'.max_reserved_kv_bytes = stats.max_reserved_kv_bytes
         /\ stats'.completed_requests + stats'.cancelled_requests + stats'.expired_requests =
              stats.completed_requests + stats.cancelled_requests + stats.expired_requests + 1
         /\ stats'.max_cancellation_overshoot_tokens <= ServiceQuantumTokens
<1> DEFINE count == stats.cancelled_requests + 1
<1>1. count \in Nat /\ stats' = [stats EXCEPT !.cancelled_requests = count] /\ stats \in Stats
  BY StatsFields DEF TotalsInv
<1>2. /\ stats' \in Stats
      /\ stats'.admitted_requests = stats.admitted_requests
      /\ stats'.rejected_requests = stats.rejected_requests
      /\ stats'.completed_requests = stats.completed_requests
      /\ stats'.cancelled_requests = count
      /\ stats'.expired_requests = stats.expired_requests
      /\ stats'.max_reserved_kv_bytes = stats.max_reserved_kv_bytes
      /\ stats'.max_cancellation_overshoot_tokens = stats.max_cancellation_overshoot_tokens
  <2> HIDE DEF count
  <2> QED
    BY <1>1 DEF Stats
<1> QED
  BY <1>2, StatsFields DEF TotalsInv, OvershootBounded

\* What Released does to the fields the totals read.
LEMMA ReleasedFields ==
  ASSUME NEW r \in RequestState, NEW status \in TerminalStatus
  PROVE  /\ Released(r, status).spec = r.spec
         /\ Released(r, status).reserved_kv_bytes = 0
         /\ Released(r, status).status \notin {"Queued", "Running"}
BY DEF Released, RequestState, TerminalStatus

LEMMA TotalsCancelQueued ==
  ASSUME RecordInv, TotalsInv, NEW id \in DOMAIN requests, CancelQueued(id)
  PROVE  TotalsInv'
<1> DEFINE new == Released(requests[id], "Cancelled")
<1>1. requests[id] \in RequestState /\ "Cancelled" \in TerminalStatus
  BY DEF RecordInv, RecordTypes, TerminalStatus
<1>2. id \in Live
  BY LiveStatus DEF CancelQueued, Queued, WithStatus
<1>3. requests' = [requests EXCEPT ![id] = new] /\ next_sequence' = next_sequence
  BY DEF CancelQueued
<1>4. new.spec = requests[id].spec /\ new.reserved_kv_bytes = 0
      /\ new.status \notin {"Queued", "Running"}
  BY <1>1, ReleasedFields
<1> HIDE DEF new
<1>5. /\ stats' \in Stats
      /\ stats'.admitted_requests = stats.admitted_requests
      /\ stats'.rejected_requests = stats.rejected_requests
      /\ stats'.max_reserved_kv_bytes = stats.max_reserved_kv_bytes
      /\ stats'.completed_requests + stats'.cancelled_requests + stats'.expired_requests =
           stats.completed_requests + stats.cancelled_requests + stats.expired_requests + 1
      /\ stats'.max_cancellation_overshoot_tokens <= ServiceQuantumTokens
  BY CountCancelled DEF CancelQueued
<1>6. reserved_kv_bytes' = reserved_kv_bytes - requests[id].reserved_kv_bytes
  BY DEF CancelQueued
<1> QED
  BY <1>2, <1>3, <1>4, <1>5, <1>6, TotalsOneEnds

LEMMA TotalsAbort ==
  ASSUME RecordInv, TotalsInv, NEW id \in DOMAIN running, AbortQuantum(id)
  PROVE  TotalsInv'
<1> DEFINE released == Released(requests[id], "Cancelled")
           new      == [released EXCEPT !.cancellation_requested = FALSE]
<1>1. id \in Live /\ id \in DOMAIN requests /\ requests[id] \in RequestState
      /\ "Cancelled" \in TerminalStatus
  BY LiveStatus DEF RecordInv, RecordTypes, RunningCoherent, WithStatus, TerminalStatus
<1>2. requests' = [requests EXCEPT ![id] = new] /\ next_sequence' = next_sequence
  BY <1>1 DEF AbortQuantum
<1>3. /\ new.spec = requests[id].spec /\ new.reserved_kv_bytes = 0
      /\ new.status \notin {"Queued", "Running"}
  BY <1>1 DEF Released, RequestState
<1> HIDE DEF new
<1>4. /\ stats' \in Stats
      /\ stats'.admitted_requests = stats.admitted_requests
      /\ stats'.rejected_requests = stats.rejected_requests
      /\ stats'.max_reserved_kv_bytes = stats.max_reserved_kv_bytes
      /\ stats'.completed_requests + stats'.cancelled_requests + stats'.expired_requests =
           stats.completed_requests + stats.cancelled_requests + stats.expired_requests + 1
      /\ stats'.max_cancellation_overshoot_tokens <= ServiceQuantumTokens
  BY CountCancelled DEF AbortQuantum
<1>5. reserved_kv_bytes' = reserved_kv_bytes - requests[id].reserved_kv_bytes
  BY DEF AbortQuantum
<1> QED
  BY <1>1, <1>2, <1>3, <1>4, <1>5, TotalsOneEnds

LEMMA TotalsCancelRunning ==
  ASSUME RecordInv, TotalsInv, NEW id \in DOMAIN requests, CancelRunning(id)
  PROVE  TotalsInv'
<1> DEFINE new == [requests[id] EXCEPT !.cancellation_requested = TRUE]
<1>1. id \in Live /\ requests[id] \in RequestState /\ requests[id].status = "Running"
  BY LiveStatus DEF CancelRunning, WithStatus, RecordInv, RecordTypes
<1>2. requests' = [requests EXCEPT ![id] = new]
  BY DEF CancelRunning
<1>3. /\ new.spec = requests[id].spec /\ new.status \in {"Queued", "Running"}
      /\ new.reserved_kv_bytes = requests[id].reserved_kv_bytes
  BY <1>1 DEF RequestState
<1> HIDE DEF new
<1>4. /\ stats' = stats /\ stats \in Stats /\ next_sequence' = next_sequence
      /\ reserved_kv_bytes' = reserved_kv_bytes
      /\ stats.max_cancellation_overshoot_tokens <= ServiceQuantumTokens
  BY DEF CancelRunning, TotalsInv, OvershootBounded
<1>5. stats'.completed_requests + stats'.cancelled_requests + stats'.expired_requests =
        stats.completed_requests + stats.cancelled_requests + stats.expired_requests + 0
  BY <1>4, StatsFields
<1> QED
  BY <1>1, <1>2, <1>3, <1>4, <1>5, TotalsOneEnds

\* Pruned records held nothing.
LEMMA TotalsPrune ==
  ASSUME RecordInv, TotalsInv, PruneTerminal
  PROVE  TotalsInv'
<1>1. /\ DOMAIN requests' = Live
      /\ \A id \in Live : requests'[id] = requests[id]
      /\ stats' = stats /\ reserved_kv_bytes' = reserved_kv_bytes /\ next_sequence' = next_sequence
  BY DEF PruneTerminal
<1>2. /\ IsFiniteSet(DOMAIN requests) /\ Live \subseteq DOMAIN requests
      /\ \A id \in DOMAIN requests : requests[id].reserved_kv_bytes \in Nat
  BY FiniteRecords DEF RecordInv
<1>3. Live' = Live
  BY <1>1, LiveStatus, LiveStatusPrime
<1>4. \A id \in DOMAIN requests \ Live : requests[id].reserved_kv_bytes = 0
  BY DEF TotalsInv, KvAccounting
<1>5. ReservedSum(requests, DOMAIN requests) = ReservedSum(requests, Live)
  <2>1. ReservedSum(requests, DOMAIN requests \ Live) = 0
    BY <1>4, SumZero
  <2>2. ReservedSum(requests, DOMAIN requests) =
          ReservedSum(requests, Live) + ReservedSum(requests, DOMAIN requests \ Live)
    <3> DEFINE rest == DOMAIN requests \ Live
    <3>1. /\ Live \cup rest = DOMAIN requests /\ Live \cap rest = {}
          /\ IsFiniteSet(Live) /\ IsFiniteSet(rest)
      BY <1>2, FS_Subset
    <3>2. \A id \in Live \cup rest : requests[id].reserved_kv_bytes \in Nat
      BY <1>2
    <3>3. ReservedSum(requests, Live \cup rest) =
            ReservedSum(requests, Live) + ReservedSum(requests, rest)
      <4> HIDE DEF rest
      <4> QED
        BY <3>1, <3>2, SumSplits
    <3> QED
      BY <3>1, <3>3, Zenon
  <2>3. ReservedSum(requests, Live) \in Nat
    BY <1>2, FS_Subset, UnitsFinite
  <2> QED
    BY <2>1, <2>2, <2>3
<1>6. ReservedSum(requests', Live) = ReservedSum(requests, Live)
  BY <1>1, SumCongruence
<1>7. KvAccounting'
  <2>1. reserved_kv_bytes' = ReservedSum(requests', DOMAIN requests')
    BY <1>1, <1>5, <1>6 DEF TotalsInv, KvAccounting
  <2>2. \A id \in DOMAIN requests' :
          requests'[id].reserved_kv_bytes =
            IF id \in Live' THEN ReservationBytes(requests'[id].spec) ELSE 0
    BY <1>1, <1>2, <1>3 DEF TotalsInv, KvAccounting
  <2> QED
    BY <2>1, <2>2 DEF KvAccounting, ReservationBytes
<1> QED
  BY <1>1, <1>3, <1>7 DEF TotalsInv, KvWithinBudget, OutcomesBalance, OvershootBounded

\* What completing a quantum does to the statistics, field by field.
LEMMA CountCompleted ==
  ASSUME TotalsInv, NEW status \in {"Queued", "Finished", "Cancelled"}, NEW emitted \in Nat,
         emitted <= ServiceQuantumTokens,
         stats' = [stats EXCEPT
                     !.completed_requests = IF status = "Finished" THEN @ + 1 ELSE @,
                     !.cancelled_requests = IF status = "Cancelled" THEN @ + 1 ELSE @,
                     !.max_cancellation_overshoot_tokens =
                        IF status = "Cancelled" THEN MaxOf(@, emitted) ELSE @]
  PROVE  /\ stats' \in Stats
         /\ stats'.admitted_requests = stats.admitted_requests
         /\ stats'.rejected_requests = stats.rejected_requests
         /\ stats'.max_reserved_kv_bytes = stats.max_reserved_kv_bytes
         /\ stats'.completed_requests + stats'.cancelled_requests + stats'.expired_requests =
              stats.completed_requests + stats.cancelled_requests + stats.expired_requests
                + (IF status # "Queued" THEN 1 ELSE 0)
         /\ stats'.max_cancellation_overshoot_tokens <= ServiceQuantumTokens
<1> DEFINE c == IF status = "Finished" THEN stats.completed_requests + 1
                ELSE stats.completed_requests
           x == IF status = "Cancelled" THEN stats.cancelled_requests + 1
                ELSE stats.cancelled_requests
           o == IF status = "Cancelled"
                THEN MaxOf(stats.max_cancellation_overshoot_tokens, emitted)
                ELSE stats.max_cancellation_overshoot_tokens
<1>1. /\ stats \in Stats
      /\ stats' = [stats EXCEPT !.completed_requests = c, !.cancelled_requests = x,
                                !.max_cancellation_overshoot_tokens = o]
  BY DEF TotalsInv
<1>2. c \in Nat /\ x \in Nat /\ o \in Nat
  BY StatsFields DEF MaxOf
<1>3. o <= ServiceQuantumTokens
  BY StatsFields, PolicyAssumption DEF MaxOf, TotalsInv, OvershootBounded
<1>4. /\ stats' \in Stats
      /\ stats'.admitted_requests = stats.admitted_requests
      /\ stats'.rejected_requests = stats.rejected_requests
      /\ stats'.completed_requests = c
      /\ stats'.cancelled_requests = x
      /\ stats'.expired_requests = stats.expired_requests
      /\ stats'.max_reserved_kv_bytes = stats.max_reserved_kv_bytes
      /\ stats'.max_cancellation_overshoot_tokens = o
  <2> HIDE DEF c, x, o
  <2> QED
    BY <1>1, <1>2 DEF Stats
<1>5. c + x + stats.expired_requests =
        stats.completed_requests + stats.cancelled_requests + stats.expired_requests
          + (IF status # "Queued" THEN 1 ELSE 0)
  BY StatsFields
<1> QED
  BY <1>3, <1>4, <1>5

LEMMA TotalsComplete ==
  ASSUME RecordInv, TotalsInv, NEW id \in DOMAIN running, NEW emitted \in Nat,
         NEW progress \in Nat, NEW ready \in BOOLEAN, NEW eos \in BOOLEAN,
         CompleteQuantum(id, emitted, progress, ready, eos)
  PROVE  TotalsInv'
<1> DEFINE old    == requests[id]
           d      == running[id]
           r      == ApplyProgress(old, d, emitted, progress, ready)
           status == QuantumStatus(r, d, eos)
           ends   == status \in TerminalStatus
           new    == IF ends THEN Released(r, status) ELSE [r EXCEPT !.status = status]
<1>1. id \in Live /\ id \in DOMAIN requests /\ old \in RequestState /\ GoodRecord(old)
      /\ d \in Dispatch /\ d = DispatchOf(old)
  BY LiveStatus, GoodRecords DEF RecordInv, RecordTypes, RunningCoherent, WithStatus
<1>2. ValidCompletion(d, emitted, progress) /\ next_sequence' = next_sequence
  BY DEF CompleteQuantum
<1>3. r \in RequestState /\ r.spec = old.spec /\ r.reserved_kv_bytes = old.reserved_kv_bytes
  BY <1>1, <1>2, ProgressedRecord DEF RecordInv, RunningCoherent, WithStatus
<1>4. status \in {"Queued", "Finished", "Cancelled"} /\ (ends <=> status # "Queued")
  BY DEF QuantumStatus, TerminalStatus
<1>5. emitted <= ServiceQuantumTokens
  BY <1>1, <1>2, PolicyAssumption DEF ValidCompletion, DispatchOf, MinOf, RequestState
<1>6. /\ requests' = [requests EXCEPT ![id] = new]
      /\ reserved_kv_bytes' = IF ends THEN reserved_kv_bytes - r.reserved_kv_bytes
                              ELSE reserved_kv_bytes
      /\ stats' = [stats EXCEPT
                     !.completed_requests = IF status = "Finished" THEN @ + 1 ELSE @,
                     !.cancelled_requests = IF status = "Cancelled" THEN @ + 1 ELSE @,
                     !.max_cancellation_overshoot_tokens =
                        IF status = "Cancelled" THEN MaxOf(@, emitted) ELSE @]
  BY DEF CompleteQuantum
<1> HIDE DEF r, status
<1>7. /\ new.spec = old.spec
      /\ ends => new.reserved_kv_bytes = 0 /\ new.status \notin {"Queued", "Running"}
      /\ ~ends => /\ new.reserved_kv_bytes = old.reserved_kv_bytes
                  /\ new.status \in {"Queued", "Running"}
  BY <1>3, <1>4, ReleasedFields DEF RequestState
<1>8. /\ stats' \in Stats
      /\ stats'.admitted_requests = stats.admitted_requests
      /\ stats'.rejected_requests = stats.rejected_requests
      /\ stats'.max_reserved_kv_bytes = stats.max_reserved_kv_bytes
      /\ stats'.completed_requests + stats'.cancelled_requests + stats'.expired_requests =
           stats.completed_requests + stats.cancelled_requests + stats.expired_requests
             + (IF ends THEN 1 ELSE 0)
      /\ stats'.max_cancellation_overshoot_tokens <= ServiceQuantumTokens
  BY <1>4, <1>5, <1>6, CountCompleted
<1>9. ends \in BOOLEAN
  OBVIOUS
<1> HIDE DEF ends, new
<1> QED
  BY <1>1, <1>2, <1>3, <1>6, <1>7, <1>8, <1>9, TotalsOneEnds

\* TotalsInv is inductive relative to RecordInv.
LEMMA TotalsStep ==
  ASSUME RecordInv, RecordInv', TotalsInv, [Next]_vars
  PROVE  TotalsInv'
<1>1. ASSUME NEW id \in RequestId, NEW spec \in RequestSpec, Admit(id, spec)
      PROVE  TotalsInv'
  BY <1>1, TotalsAdmit
<1>2. ASSUME NEW limit \in 1..MaxBatchRequests, DispatchBatch(limit)
      PROVE  TotalsInv'
  <2>1. limit \in Nat
    BY PolicyAssumption
  <2> QED
    BY <1>2, <2>1, TotalsDispatch
<1>3. ASSUME NEW id \in DOMAIN running, NEW emitted \in TokenCount, NEW progress \in TokenCount,
             NEW ready \in BOOLEAN, NEW eos \in BOOLEAN,
             CompleteQuantum(id, emitted, progress, ready, eos)
      PROVE  TotalsInv'
  <2>1. emitted \in Nat /\ progress \in Nat
    BY PolicyAssumption DEF TokenCount, MaxOf
  <2> QED
    BY <1>3, <2>1, TotalsComplete
<1>4. ASSUME NEW id \in DOMAIN running, AbortQuantum(id)
      PROVE  TotalsInv'
  BY <1>4, TotalsAbort
<1>5. ASSUME NEW id \in DOMAIN requests, CancelQueued(id)
      PROVE  TotalsInv'
  BY <1>5, TotalsCancelQueued
<1>6. ASSUME NEW id \in DOMAIN requests, CancelRunning(id)
      PROVE  TotalsInv'
  BY <1>6, TotalsCancelRunning
<1>7. CASE PruneTerminal
  BY <1>7, TotalsPrune
<1>8. CASE TakeExpiredDeadlines \/ AdvanceClock \/ UNCHANGED vars
  <2>1. UNCHANGED <<requests, reserved_kv_bytes, next_sequence, stats>>
    BY <1>8 DEF TakeExpiredDeadlines, AdvanceClock, vars
  <2> QED
    BY <2>1 DEF TotalsInv, KvAccounting, KvWithinBudget, OutcomesBalance, OvershootBounded,
                Live, WithStatus, ReservedSum, ReservedUnits
<1> QED
  BY <1>1, <1>2, <1>3, <1>4, <1>5, <1>6, <1>7, <1>8 DEF Next

LEMMA TotalsInit == Init => TotalsInv
<1> SUFFICES ASSUME Init PROVE TotalsInv
  OBVIOUS
<1>1. DOMAIN requests = {} /\ reserved_kv_bytes = 0 /\ next_sequence = 0 /\ stats = ZeroStats
  BY DEF Init
<1>2. Live = {} /\ Cardinality(Live) = 0
  BY <1>1, FS_EmptySet DEF Live, WithStatus
<1>3. KvAccounting
  <2>1. ReservedSum(requests, {}) = 0
    BY SumZero
  <2> QED
    BY <1>1, <2>1 DEF KvAccounting
<1> QED
  BY <1>1, <1>2, <1>3, PolicyAssumption
  DEF TotalsInv, KvWithinBudget, OutcomesBalance, OvershootBounded, ZeroStats, Stats

\* The two invariants hold together in every reachable state.
LEMMA SchedulerInvariant == Spec => [](RecordInv /\ TotalsInv)
<1>1. (RecordInv /\ TotalsInv) /\ [Next]_vars => (RecordInv /\ TotalsInv)'
  BY RecordStep, TotalsStep
<1> QED
  BY <1>1, RecordInit, TotalsInit, PTL DEF Spec

\* Type correctness: in particular every counter of scheduler.rs stays a natural
\* number, so the unchecked subtractions of complete_quantum, abort_quantum,
\* cancel and expire_deadlines never wrap.
THEOREM TypeCorrect == Spec => []TypeOK
<1>1. RecordInv /\ TotalsInv => TypeOK
  BY DEF RecordInv, RecordTypes, TotalsInv, TypeOK
<1> QED
  BY <1>1, SchedulerInvariant, PTL

\* The KV total is exactly what the live records hold and never passes the
\* budget of the policy, however requests end.
THEOREM KvCorrect == Spec => [](KvAccounting /\ KvWithinBudget)
<1>1. TotalsInv => KvAccounting /\ KvWithinBudget
  BY DEF TotalsInv
<1> QED
  BY <1>1, SchedulerInvariant, PTL

\* Every admitted request is counted in exactly one outcome or is still live,
\* and a cancelled one emits at most one service quantum after the cancel.
THEOREM OutcomesCorrect == Spec => [](OutcomesBalance /\ OvershootBounded)
<1>1. TotalsInv => OutcomesBalance /\ OvershootBounded
  BY DEF TotalsInv
<1> QED
  BY <1>1, SchedulerInvariant, PTL

\* One step leaves the record of an ended request alone or prunes it: every
\* action of the scheduler writes only records whose status it has read as
\* Queued or Running, or a new one.
LEMMA EndedRecordStep ==
  ASSUME RecordInv, [Next]_vars, NEW id \in DOMAIN requests, id \notin Live,
         id \in DOMAIN requests'
  PROVE  requests'[id] = requests[id]
<1>1. requests = [x \in DOMAIN requests |-> requests[x]]
  BY DEF RecordInv, RecordTypes
<1>2. requests[id].status \notin {"Queued", "Running"}
  BY DEF Live, WithStatus, RequestStatus, TerminalStatus
<1>3. id \notin Queued /\ id \notin WithStatus(requests, {"Running"})
  BY <1>2 DEF Queued, WithStatus
<1>4. id \notin DOMAIN running
  BY <1>3 DEF RecordInv, RunningCoherent
<1>5. ASSUME NEW i \in RequestId, NEW spec \in RequestSpec, Admit(i, spec)
      PROVE  requests'[id] = requests[id]
  BY <1>5 DEF Admit, Insert
<1>6. ASSUME NEW limit \in 1..MaxBatchRequests, DispatchBatch(limit)
      PROVE  requests'[id] = requests[id]
  BY <1>3, <1>6 DEF DispatchBatch, ExpiredNow, SelectBatchIds
<1>7. ASSUME NEW i \in DOMAIN running, NEW emitted, NEW progress, NEW ready, NEW eos,
             CompleteQuantum(i, emitted, progress, ready, eos)
      PROVE  requests'[id] = requests[id]
  BY <1>1, <1>4, <1>7 DEF CompleteQuantum
<1>8. ASSUME NEW i \in DOMAIN running, AbortQuantum(i)
      PROVE  requests'[id] = requests[id]
  BY <1>1, <1>4, <1>8 DEF AbortQuantum
<1>9. ASSUME NEW i \in DOMAIN requests, CancelQueued(i)
      PROVE  requests'[id] = requests[id]
  BY <1>1, <1>3, <1>9 DEF CancelQueued
<1>10. ASSUME NEW i \in DOMAIN requests, CancelRunning(i)
       PROVE  requests'[id] = requests[id]
  BY <1>1, <1>3, <1>10 DEF CancelRunning
<1>11. CASE PruneTerminal
  BY <1>11 DEF PruneTerminal
<1>12. CASE TakeExpiredDeadlines \/ AdvanceClock \/ UNCHANGED vars
  BY <1>12 DEF TakeExpiredDeadlines, AdvanceClock, vars
<1> QED
  BY <1>5, <1>6, <1>7, <1>8, <1>9, <1>10, <1>11, <1>12 DEF Next

\* A request that has finished, been cancelled, expired or been rejected keeps
\* that outcome: no completion, cancellation or dispatch that arrives later
\* touches its record again.
THEOREM EndsAreFinal == Spec => TerminalIsFinal
<1>1. RecordInv /\ [Next]_vars =>
        [\A id \in DOMAIN requests :
           (id \notin Live /\ id \in DOMAIN requests') => requests'[id] = requests[id]]_vars
  BY EndedRecordStep
<1> QED
  BY <1>1, SchedulerInvariant, PTL DEF Spec, TerminalIsFinal

-----------------------------------------------------------------------------
(* The limits of a batch *)

\* The fields that compare_requests looks at.
LEMMA OrderFields ==
  ASSUME NEW r \in RequestState
  PROVE  /\ r.virtual_runtime \in Nat /\ r.sequence \in Nat /\ r.spec.priority \in Nat
         /\ Urgent(r) => r.spec.deadline_ns \in Nat
<1>1. r.spec \in RequestSpec /\ r.virtual_runtime \in Nat /\ r.sequence \in Nat
  BY DEF RequestState
<1> QED
  BY <1>1, SpecFields DEF Urgent

\* compare_requests is a strict order, and two requests with different sequence
\* numbers are never equal in it.
LEMMA BeforeTotal ==
  ASSUME NEW l \in RequestState, NEW r \in RequestState, l.sequence # r.sequence
  PROVE  Before(l, r) \/ Before(r, l)
<1>1. /\ l.virtual_runtime \in Nat /\ l.sequence \in Nat /\ l.spec.priority \in Nat
      /\ r.virtual_runtime \in Nat /\ r.sequence \in Nat /\ r.spec.priority \in Nat
      /\ Urgent(l) => l.spec.deadline_ns \in Nat
      /\ Urgent(r) => r.spec.deadline_ns \in Nat
  BY OrderFields
<1>2. CASE Urgent(l) /\ Urgent(r)
  <2>1. UrgentBefore(l, r) \/ UrgentBefore(r, l)
    BY <1>1, <1>2 DEF UrgentBefore
  <2> QED
    BY <1>2, <2>1 DEF Before, Urgent
<1>3. CASE ~Urgent(l) /\ ~Urgent(r)
  <2>1. OrdinaryBefore(l, r) \/ OrdinaryBefore(r, l)
    BY <1>1 DEF OrdinaryBefore
  <2> QED
    BY <1>3, <2>1 DEF Before, Urgent
<1>4. CASE ~(Urgent(l) <=> Urgent(r))
  BY <1>4 DEF Before
<1> QED
  BY <1>2, <1>3, <1>4

LEMMA BeforeIrreflexive ==
  ASSUME NEW r \in RequestState
  PROVE  ~Before(r, r)
BY OrderFields DEF Before, UrgentBefore, OrdinaryBefore

LEMMA BeforeTransitive ==
  ASSUME NEW a \in RequestState, NEW b \in RequestState, NEW c \in RequestState,
         Before(a, b), Before(b, c)
  PROVE  Before(a, c)
<1>1. /\ a.virtual_runtime \in Nat /\ a.sequence \in Nat /\ a.spec.priority \in Nat
      /\ b.virtual_runtime \in Nat /\ b.sequence \in Nat /\ b.spec.priority \in Nat
      /\ c.virtual_runtime \in Nat /\ c.sequence \in Nat /\ c.spec.priority \in Nat
      /\ Urgent(a) => a.spec.deadline_ns \in Nat
      /\ Urgent(b) => b.spec.deadline_ns \in Nat
      /\ Urgent(c) => c.spec.deadline_ns \in Nat
  BY OrderFields
<1>2. Urgent(a) \in BOOLEAN /\ Urgent(b) \in BOOLEAN /\ Urgent(c) \in BOOLEAN
  BY DEF Urgent
<1>3. CASE Urgent(a) /\ ~Urgent(c)
  BY <1>3 DEF Before
<1>4. CASE Urgent(a) /\ Urgent(c)
  <2>1. Urgent(b)
    BY <1>2, <1>4 DEF Before
  <2>2. UrgentBefore(a, b) /\ UrgentBefore(b, c)
    BY <1>2, <1>4, <2>1 DEF Before
  <2>3. UrgentBefore(a, c)
    BY <1>1, <1>4, <2>1, <2>2 DEF UrgentBefore
  <2> QED
    BY <1>2, <1>4, <2>3 DEF Before
<1>5. CASE ~Urgent(a)
  BY <1>1, <1>2, <1>5 DEF Before, OrdinaryBefore
<1> QED
  BY <1>3, <1>4, <1>5

\* Sequence numbers are handed out once.
SequenceInv ==
  \A id \in DOMAIN requests :
    /\ requests[id].sequence < next_sequence
    /\ \A other \in DOMAIN requests :
         requests[other].sequence = requests[id].sequence => other = id

BatchInv == Cardinality(DOMAIN running) <= MaxBatchRequests

\* The requests that have fewer than `limit` others before them are at most
\* `limit`: the number of those before it tells two of them apart.
LEMMA SelectedWithinLimit ==
  ASSUME RecordInv, SequenceInv, NEW C \in SUBSET DOMAIN requests, NEW limit \in Nat
  PROVE  /\ IsFiniteSet(SelectBatchIds(C, limit))
         /\ Cardinality(SelectBatchIds(C, limit)) <= limit
<1> DEFINE S == SelectBatchIds(C, limit)
           Pred(id) == {o \in C : Before(requests[o], requests[id])}
           f == [id \in S |-> Cardinality(Pred(id))]
<1>1. \A id \in C : requests[id] \in RequestState
  BY DEF RecordInv, RecordTypes
<1>2. IsFiniteSet(C)
  BY FiniteRecords, FS_Subset DEF RecordInv
<1>3. \A id \in C : IsFiniteSet(Pred(id)) /\ Cardinality(Pred(id)) \in Nat
  BY <1>2, FS_Subset, FS_CardinalityType
<1>4. S \subseteq C /\ \A id \in S : Cardinality(Pred(id)) < limit
  BY DEF SelectBatchIds
<1>5. ASSUME NEW a \in C, NEW b \in C, Before(requests[a], requests[b])
      PROVE  Cardinality(Pred(a)) < Cardinality(Pred(b))
  <2>1. Pred(a) \subseteq Pred(b)
    BY <1>1, <1>5, BeforeTransitive
  <2>2. a \in Pred(b) /\ a \notin Pred(a)
    BY <1>1, <1>5, BeforeIrreflexive
  <2>3. Pred(a) # Pred(b)
    BY <2>2
  <2> HIDE DEF Pred
  <2>4. /\ Cardinality(Pred(a)) <= Cardinality(Pred(b))
        /\ Cardinality(Pred(a)) # Cardinality(Pred(b))
    BY <1>3, <2>1, <2>3, FS_Subset
  <2> QED
    BY <1>3, <2>4
<1> HIDE DEF S, Pred
<1>6. f \in Injection(S, 0..(limit - 1))
  <2>1. f \in [S -> 0..(limit - 1)]
    BY <1>3, <1>4
  <2>2. ASSUME NEW a \in S, NEW b \in S, f[a] = f[b]
        PROVE  a = b
    <3>1. SUFFICES ASSUME a # b PROVE FALSE
      OBVIOUS
    <3>2. requests[a].sequence # requests[b].sequence
      BY <1>4, <3>1 DEF SequenceInv
    <3>3. Before(requests[a], requests[b]) \/ Before(requests[b], requests[a])
      BY <1>1, <1>4, <3>2, BeforeTotal
    <3>4. f[a] = Cardinality(Pred(a)) /\ f[b] = Cardinality(Pred(b))
      OBVIOUS
    <3>5. Cardinality(Pred(a)) < Cardinality(Pred(b)) \/ Cardinality(Pred(b)) < Cardinality(Pred(a))
      BY <1>4, <1>5, <3>3
    <3> QED
      BY <1>3, <1>4, <2>2, <3>4, <3>5
  <2> QED
    BY <2>1, <2>2 DEF Injection, IsInjective
<1>7. IsFiniteSet(0..(limit - 1)) /\ Cardinality(0..(limit - 1)) <= limit
  <2>1. limit - 1 \in Int /\ 0 \in Int
    OBVIOUS
  <2>2. /\ IsFiniteSet(0..(limit - 1))
        /\ Cardinality(0..(limit - 1)) = IF 0 > limit - 1 THEN 0 ELSE (limit - 1) - 0 + 1
    BY <2>1, FS_Interval
  <2> QED
    BY <2>2
<1> HIDE DEF f
<1>8. IsFiniteSet(S) /\ Cardinality(S) <= Cardinality(0..(limit - 1))
  BY <1>6, <1>7, FS_Injection
<1>9. Cardinality(S) \in Nat /\ Cardinality(0..(limit - 1)) \in Nat
  BY <1>7, <1>8, FS_CardinalityType
<1> QED
  BY <1>7, <1>8, <1>9 DEF S

\* No step but an admission changes a sequence number or adds a record.
LEMMA SequenceKept ==
  ASSUME RecordInv, SequenceInv, next_sequence' = next_sequence,
         DOMAIN requests' \subseteq DOMAIN requests,
         \A id \in DOMAIN requests' : requests'[id].sequence = requests[id].sequence
  PROVE  SequenceInv'
BY DEF SequenceInv

LEMMA SequenceAdmit ==
  ASSUME RecordInv, SequenceInv, NEW id \in RequestId, NEW spec \in RequestSpec,
         Admit(id, spec)
  PROVE  SequenceInv' /\ running' = running
<1> DEFINE new == NewRequest(spec, AdmissionRejection(spec) # "None")
<1>1. /\ id \notin DOMAIN requests /\ requests' = Insert(requests, id, new)
      /\ next_sequence' = next_sequence + 1 /\ running' = running
  BY DEF Admit
<1>2. new.sequence = next_sequence
  BY DEF NewRequest
<1> HIDE DEF new
<1>3. /\ DOMAIN requests' = DOMAIN requests \cup {id} /\ requests'[id] = new
      /\ \A x \in DOMAIN requests : requests'[x] = requests[x]
  BY <1>1 DEF Insert
<1>4. next_sequence \in Nat /\ \A x \in DOMAIN requests : requests[x].sequence \in Nat
  BY BoundAssumption DEF RecordInv, RecordTypes, RequestState
<1> QED
  BY <1>1, <1>2, <1>3, <1>4 DEF SequenceInv

\* What a completion does to a record keeps its sequence number.
LEMMA CompleteKeepsSequence ==
  ASSUME RecordInv, NEW id \in DOMAIN running, NEW emitted \in Nat, NEW progress \in Nat,
         NEW ready \in BOOLEAN, NEW eos, CompleteQuantum(id, emitted, progress, ready, eos)
  PROVE  /\ DOMAIN requests' = DOMAIN requests
         /\ \A x \in DOMAIN requests : requests'[x].sequence = requests[x].sequence
         /\ DOMAIN running' \subseteq DOMAIN running
<1> DEFINE old == requests[id]
           v == old.virtual_runtime + CeilDiv(progress * 1024, old.spec.priority)
           charged == [old EXCEPT !.virtual_runtime = v]
           r == ApplyProgress(old, running[id], emitted, progress, ready)
           status == QuantumStatus(r, running[id], eos)
           new == IF status \in TerminalStatus THEN Released(r, status)
                  ELSE [r EXCEPT !.status = status]
<1>1. /\ requests' = [requests EXCEPT ![id] = new] /\ running' = Remove(running, id)
      /\ ValidCompletion(running[id], emitted, progress)
  BY DEF CompleteQuantum
<1>2. id \in DOMAIN requests /\ old \in RequestState /\ requests \in [DOMAIN requests -> RequestState]
  BY DEF RecordInv, RecordTypes, RunningCoherent, WithStatus
<1>3. r.sequence = old.sequence
  BY <1>2 DEF ApplyProgress, RequestState
<1>4. r \in RequestState
  BY <1>1, ProgressedRecord
<1> HIDE DEF r, status
<1>5. new.sequence = r.sequence
  BY <1>4 DEF Released, RequestState
<1> HIDE DEF new
<1>6. DOMAIN running' \subseteq DOMAIN running
  BY <1>1 DEF Remove
<1> QED
  BY <1>1, <1>2, <1>3, <1>5, <1>6

\* A dispatch keeps the sequence numbers and starts no more than a batch.
LEMMA DispatchKeepsSequence ==
  ASSUME RecordInv, SequenceInv, NEW limit \in Nat, DispatchBatch(limit)
  PROVE  SequenceInv' /\ BatchInv'
<1> DEFINE late     == ExpiredNow
           n        == MinOf(limit, MaxBatchRequests)
           selected == SelectBatchIds(Queued \ late, n)
<1>1. /\ requests' = [id \in DOMAIN requests |->
                        IF id \in late THEN Released(requests[id], "DeadlineExpired")
                        ELSE IF id \in selected THEN [requests[id] EXCEPT !.status = "Running"]
                        ELSE requests[id]]
      /\ running' = [id \in selected |-> DispatchOf(requests[id])]
      /\ next_sequence' = next_sequence
  BY DEF DispatchBatch
<1>2. n \in Nat /\ n <= MaxBatchRequests /\ MaxBatchRequests \in Nat
  BY PolicyAssumption DEF MinOf
<1>3. Queued \ late \in SUBSET DOMAIN requests
  BY DEF Queued, WithStatus
<1> HIDE DEF n, late
<1>4. Cardinality(selected) <= n /\ IsFiniteSet(selected)
  BY <1>2, <1>3, SelectedWithinLimit
<1> HIDE DEF selected
<1>5. BatchInv'
  <2>1. Cardinality(selected) \in Nat /\ DOMAIN running' = selected
    BY <1>1, <1>4, FS_CardinalityType
  <2> QED
    BY <1>2, <1>4, <2>1 DEF BatchInv
<1>6. \A id \in DOMAIN requests : requests'[id].sequence = requests[id].sequence
  <2>1. \A id \in DOMAIN requests : requests[id] \in RequestState
    BY DEF RecordInv, RecordTypes
  <2> SUFFICES ASSUME NEW id \in DOMAIN requests
               PROVE  requests'[id].sequence = requests[id].sequence
    OBVIOUS
  <2>2. CASE id \in late
    <3>1. requests'[id] = Released(requests[id], "DeadlineExpired")
      BY <1>1, <2>2
    <3> QED
      BY <2>1, <3>1 DEF Released, RequestState
  <2>3. CASE id \notin late /\ id \in selected
    <3>1. requests'[id] = [requests[id] EXCEPT !.status = "Running"]
      BY <1>1, <2>3
    <3> QED
      BY <2>1, <3>1 DEF RequestState
  <2>4. CASE id \notin late /\ id \notin selected
    BY <1>1, <2>4
  <2> QED
    BY <2>2, <2>3, <2>4
<1>7. DOMAIN requests' = DOMAIN requests
  BY <1>1
<1> QED
  BY <1>1, <1>5, <1>6, <1>7, SequenceKept

\* A batch in flight only shrinks between dispatches.
LEMMA BatchShrinks ==
  ASSUME RecordInv, BatchInv, DOMAIN running' \subseteq DOMAIN running
  PROVE  BatchInv'
<1>1. IsFiniteSet(DOMAIN running)
  BY IdAssumption, FS_Subset DEF RecordInv, RecordTypes
<1>2. IsFiniteSet(DOMAIN running') /\ Cardinality(DOMAIN running') <= Cardinality(DOMAIN running)
  BY <1>1, FS_Subset
<1>3. Cardinality(DOMAIN running) \in Nat /\ Cardinality(DOMAIN running') \in Nat
  BY <1>1, <1>2, FS_CardinalityType
<1> QED
  BY <1>2, <1>3, PolicyAssumption DEF BatchInv

\* Sequence numbers and the size of a batch, through every step.
LEMMA LimitStep ==
  ASSUME RecordInv, SequenceInv, BatchInv, [Next]_vars
  PROVE  SequenceInv' /\ BatchInv'
<1>1. /\ requests \in [DOMAIN requests -> RequestState]
      /\ DOMAIN running \subseteq DOMAIN requests
  BY DEF RecordInv, RecordTypes, RunningCoherent, WithStatus
<1>2. ASSUME NEW id \in RequestId, NEW spec \in RequestSpec, Admit(id, spec)
      PROVE  SequenceInv' /\ BatchInv'
  BY <1>2, SequenceAdmit DEF BatchInv
<1>3. ASSUME NEW limit \in 1..MaxBatchRequests, DispatchBatch(limit)
      PROVE  SequenceInv' /\ BatchInv'
  <2>1. limit \in Nat
    BY PolicyAssumption
  <2> QED
    BY <1>3, <2>1, DispatchKeepsSequence
<1>4. ASSUME NEW id \in DOMAIN running, NEW emitted \in TokenCount, NEW progress \in TokenCount,
             NEW ready \in BOOLEAN, NEW eos \in BOOLEAN,
             CompleteQuantum(id, emitted, progress, ready, eos)
      PROVE  SequenceInv' /\ BatchInv'
  <2>1. emitted \in Nat /\ progress \in Nat
    BY PolicyAssumption DEF TokenCount, MaxOf
  <2>2. /\ DOMAIN requests' = DOMAIN requests
        /\ \A x \in DOMAIN requests : requests'[x].sequence = requests[x].sequence
        /\ DOMAIN running' \subseteq DOMAIN running
    BY <1>4, <2>1, CompleteKeepsSequence
  <2>3. next_sequence' = next_sequence
    BY <1>4 DEF CompleteQuantum
  <2> QED
    BY <2>2, <2>3, SequenceKept, BatchShrinks
<1>5. ASSUME NEW id \in DOMAIN requests, NEW r,
             requests' = [requests EXCEPT ![id] = r], r.sequence = requests[id].sequence,
             DOMAIN running' \subseteq DOMAIN running, next_sequence' = next_sequence
      PROVE  SequenceInv' /\ BatchInv'
  BY <1>1, <1>5, SequenceKept, BatchShrinks
<1>6. ASSUME NEW id \in DOMAIN running, AbortQuantum(id)
      PROVE  SequenceInv' /\ BatchInv'
  <2> DEFINE r == [Released(requests[id], "Cancelled") EXCEPT !.cancellation_requested = FALSE]
  <2>1. id \in DOMAIN requests /\ requests[id] \in RequestState
    BY <1>1
  <2>2. r.sequence = requests[id].sequence
    BY <2>1 DEF Released, RequestState
  <2>3. /\ requests' = [requests EXCEPT ![id] = r] /\ next_sequence' = next_sequence
        /\ DOMAIN running' \subseteq DOMAIN running
    BY <1>6 DEF AbortQuantum, Remove
  <2> HIDE DEF r
  <2> QED
    BY <1>5, <2>1, <2>2, <2>3
<1>7. ASSUME NEW id \in DOMAIN requests, CancelQueued(id)
      PROVE  SequenceInv' /\ BatchInv'
  <2> DEFINE r == Released(requests[id], "Cancelled")
  <2>1. r.sequence = requests[id].sequence
    BY <1>1 DEF Released, RequestState
  <2>2. /\ requests' = [requests EXCEPT ![id] = r] /\ next_sequence' = next_sequence
        /\ DOMAIN running' \subseteq DOMAIN running
    BY <1>7 DEF CancelQueued
  <2> HIDE DEF r
  <2> QED
    BY <1>5, <2>1, <2>2
<1>8. ASSUME NEW id \in DOMAIN requests, CancelRunning(id)
      PROVE  SequenceInv' /\ BatchInv'
  <2> DEFINE r == [requests[id] EXCEPT !.cancellation_requested = TRUE]
  <2>1. r.sequence = requests[id].sequence
    BY <1>1 DEF RequestState
  <2>2. /\ requests' = [requests EXCEPT ![id] = r] /\ next_sequence' = next_sequence
        /\ DOMAIN running' \subseteq DOMAIN running
    BY <1>8 DEF CancelRunning
  <2> HIDE DEF r
  <2> QED
    BY <1>5, <2>1, <2>2
<1>9. CASE PruneTerminal
  <2>1. /\ DOMAIN requests' \subseteq DOMAIN requests /\ next_sequence' = next_sequence
        /\ \A id \in DOMAIN requests' : requests'[id].sequence = requests[id].sequence
        /\ running' = running
    BY <1>9 DEF PruneTerminal, Live, WithStatus
  <2> QED
    BY <2>1, SequenceKept, BatchShrinks
<1>10. CASE TakeExpiredDeadlines \/ AdvanceClock \/ UNCHANGED vars
  <2>1. UNCHANGED <<requests, running, next_sequence>>
    BY <1>10 DEF TakeExpiredDeadlines, AdvanceClock, vars
  <2> QED
    BY <2>1 DEF SequenceInv, BatchInv
<1> QED
  BY <1>2, <1>3, <1>4, <1>6, <1>7, <1>8, <1>9, <1>10 DEF Next

\* The limits of the policy hold in every state: no admission, requeue or
\* expiry takes the resident set, the batch in flight, the reserved bytes or
\* the overshoot of a cancellation past them.
THEOREM LimitsHold == Spec => []LimitsRespected
<1>1. Init => SequenceInv /\ BatchInv
  <2>1. Init => Cardinality(DOMAIN running) = 0
    BY FS_EmptySet DEF Init
  <2> QED
    BY <2>1, PolicyAssumption DEF Init, SequenceInv, BatchInv
<1>2. RecordInv /\ SequenceInv /\ BatchInv /\ [Next]_vars => SequenceInv' /\ BatchInv'
  BY LimitStep
<1>3. TotalsInv /\ BatchInv => LimitsRespected
  BY DEF TotalsInv, BatchInv, LimitsRespected
<1> QED
  BY <1>1, <1>2, <1>3, SchedulerInvariant, PTL DEF Spec

-----------------------------------------------------------------------------
(* ScheduledService *)

Phases == {"Idle", "Begin", "Expire", "Execute", "Commit", "Abort"}

(* ServiceTypeOK without the scheduler's own types. *)
ServiceTypes ==
  /\ phase \in Phases
  /\ beginning \subseteq RequestId
  /\ executor \subseteq RequestId
  /\ DOMAIN outputs \subseteq RequestId
  /\ outputs \in [DOMAIN outputs -> Nat]
  /\ DOMAIN produced \subseteq RequestId
  /\ produced \in [DOMAIN produced -> QuantumOutput]

(* What the phases of a call know of each other. *)
PhaseInv ==
  /\ phase # "Begin" => beginning = {}
  /\ phase = "Begin" =>
       \E id \in Queued : beginning = {id} /\ requests[id].emitted_tokens = 0
  /\ phase # "Expire" => expired = {}
  /\ expired \cap Live = {}
  /\ phase = "Commit" => \A id \in DOMAIN produced : ValidOutput(running[id], produced[id])

(* What basic_admission_rejection let through of sizes. *)
SizesInv ==
  \A id \in DOMAIN requests : requests[id].status # "Rejected" =>
    /\ requests[id].spec.prompt_tokens <= MaxPromptTokens
    /\ requests[id].spec.max_output_tokens <= MaxOutputTokens

SchedulerInv == RecordInv /\ TotalsInv /\ SizesInv

ServiceInv ==
  /\ SchedulerInv
  /\ ServiceTypes
  /\ ExecutorMatchesScheduler
  /\ OutputsMatchEmitted
  /\ PhaseInv

-----------------------------------------------------------------------------
(* What the scheduler's operations leave *)

\* Records are numbers and statuses; a running request is live.
LEMMA Records ==
  ASSUME RecordInv
  PROVE  /\ requests \in [DOMAIN requests -> RequestState]
         /\ \A id \in DOMAIN requests : requests[id].emitted_tokens \in Nat
         /\ DOMAIN running \subseteq Live /\ Live \subseteq DOMAIN requests
         /\ Queued \subseteq Live /\ DOMAIN requests \subseteq RequestId
         /\ running \in [DOMAIN running -> Dispatch]
BY DEF RecordInv, RecordTypes, RequestState, RunningCoherent, Live, Queued, WithStatus,
       RequestStatus, TerminalStatus

\* One record is rewritten.
LEMMA OneRecord ==
  ASSUME RecordInv, NEW id \in DOMAIN requests, NEW r \in RequestState,
         requests' = [requests EXCEPT ![id] = r]
  PROVE  /\ DOMAIN requests' = DOMAIN requests /\ requests'[id] = r
         /\ \A x \in DOMAIN requests \ {id} : requests'[x] = requests[x]
         /\ r.status \in TerminalStatus => Live' = Live \ {id}
         /\ r.status \notin TerminalStatus => Live' = Live \cup {id}
<1>1. /\ DOMAIN requests' = DOMAIN requests /\ requests'[id] = r
      /\ \A x \in DOMAIN requests \ {id} : requests'[x] = requests[x]
  BY DEF RecordInv, RecordTypes
<1>2. r.status \in RequestStatus
  BY DEF RequestState
<1> QED
  BY <1>1, <1>2 DEF Live, WithStatus, RequestStatus

\* insert_request adds one record, queued or rejected.
LEMMA AdmitEffect ==
  ASSUME RecordInv, NEW id \in RequestId, NEW spec \in RequestSpec, Admit(id, spec)
  PROVE  /\ id \notin DOMAIN requests /\ DOMAIN requests' = DOMAIN requests \cup {id}
         /\ \A x \in DOMAIN requests : requests'[x] = requests[x]
         /\ requests'[id].emitted_tokens = 0
         /\ requests'[id].status \in {"Queued", "Rejected"}
         /\ requests'[id].status = "Queued" => Live' = Live \cup {id} /\ id \in Queued'
         /\ requests'[id].status # "Queued" => Live' = Live
         /\ UNCHANGED <<running, expired>>
         /\ requests'[id].status # "Rejected" =>
              /\ requests'[id].spec.prompt_tokens <= MaxPromptTokens
              /\ requests'[id].spec.max_output_tokens <= MaxOutputTokens
<1> DEFINE rejected == AdmissionRejection(spec) # "None"
           new == NewRequest(spec, rejected)
<1>1. /\ id \notin DOMAIN requests /\ requests' = Insert(requests, id, new)
      /\ UNCHANGED <<running, expired>>
  BY DEF Admit
<1>2. /\ new.emitted_tokens = 0 /\ new.spec = spec
      /\ new.status = IF rejected THEN "Rejected" ELSE "Queued"
  BY DEF NewRequest
<1>3. ~rejected => spec.prompt_tokens <= MaxPromptTokens
                   /\ spec.max_output_tokens <= MaxOutputTokens
  BY SpecFields, PolicyAssumption DEF AdmissionRejection, BasicAdmissionRejection
<1> HIDE DEF new, rejected
<1>4. /\ DOMAIN requests' = DOMAIN requests \cup {id} /\ requests'[id] = new
      /\ \A x \in DOMAIN requests : requests'[x] = requests[x]
  BY <1>1 DEF Insert
<1>5. new.status \in {"Queued", "Rejected"}
  BY <1>2
<1>6. new.status = "Queued" => Live' = Live \cup {id} /\ id \in Queued'
  BY <1>4 DEF Live, Queued, WithStatus, RequestStatus, TerminalStatus
<1>7. new.status = "Rejected" => Live' = Live
  BY <1>1, <1>4 DEF Live, WithStatus, RequestStatus, TerminalStatus
<1> QED
  BY <1>1, <1>2, <1>3, <1>4, <1>5, <1>6, <1>7

\* cancel of a queued request ends it.
LEMMA CancelQueuedEffect ==
  ASSUME RecordInv, NEW id \in DOMAIN requests, CancelQueued(id)
  PROVE  /\ id \in Live /\ Live' = Live \ {id} /\ DOMAIN requests' = DOMAIN requests
         /\ \A x \in DOMAIN requests :
              /\ requests'[x].emitted_tokens = requests[x].emitted_tokens
              /\ requests'[x].spec = requests[x].spec
         /\ \A x \in DOMAIN requests : requests'[x].status = "Rejected" <=>
                                       requests[x].status = "Rejected"
         /\ UNCHANGED <<running, expired>>
<1> DEFINE r == Released(requests[id], "Cancelled")
<1>1. /\ requests' = [requests EXCEPT ![id] = r] /\ id \in Queued
      /\ UNCHANGED <<running, expired>>
  BY DEF CancelQueued
<1>2. requests[id] \in RequestState /\ id \in Live /\ requests[id].status = "Queued"
  BY <1>1, Records DEF Queued, WithStatus
<1>3. /\ r \in RequestState /\ r.status = "Cancelled" /\ r.spec = requests[id].spec
      /\ r.emitted_tokens = requests[id].emitted_tokens
  BY <1>2, ReleasedRecord DEF TerminalStatus
<1> HIDE DEF r
<1>4. /\ DOMAIN requests' = DOMAIN requests /\ requests'[id] = r
      /\ \A x \in DOMAIN requests \ {id} : requests'[x] = requests[x]
      /\ Live' = Live \ {id}
  BY <1>1, <1>3, OneRecord DEF TerminalStatus
<1> QED
  BY <1>1, <1>2, <1>3, <1>4

\* cancel of a running request marks it and keeps it live.
LEMMA CancelRunningEffect ==
  ASSUME RecordInv, NEW id \in DOMAIN requests, CancelRunning(id)
  PROVE  /\ Live' = Live /\ DOMAIN requests' = DOMAIN requests
         /\ \A x \in DOMAIN requests :
              /\ requests'[x].emitted_tokens = requests[x].emitted_tokens
              /\ requests'[x].spec = requests[x].spec
              /\ requests'[x].status = requests[x].status
         /\ UNCHANGED <<running, expired>>
<1> DEFINE r == [requests[id] EXCEPT !.cancellation_requested = TRUE]
<1>1. /\ requests' = [requests EXCEPT ![id] = r] /\ requests[id].status = "Running"
      /\ UNCHANGED <<running, expired>>
  BY DEF CancelRunning, WithStatus
<1>2. requests[id] \in RequestState /\ id \in Live
  BY <1>1, Records, LiveStatus
<1>3. /\ r \in RequestState /\ r.status = "Running" /\ r.spec = requests[id].spec
      /\ r.emitted_tokens = requests[id].emitted_tokens
  BY <1>1, <1>2 DEF RequestState
<1> HIDE DEF r
<1>4. /\ DOMAIN requests' = DOMAIN requests /\ requests'[id] = r
      /\ \A x \in DOMAIN requests \ {id} : requests'[x] = requests[x]
      /\ Live' = Live \cup {id}
  BY <1>1, <1>3, OneRecord DEF TerminalStatus
<1> QED
  BY <1>1, <1>2, <1>3, <1>4

\* abort_quantum ends one running request.
LEMMA AbortEffect ==
  ASSUME RecordInv, NEW id \in DOMAIN running, AbortQuantum(id)
  PROVE  /\ id \in Live /\ Live' = Live \ {id} /\ DOMAIN requests' = DOMAIN requests
         /\ \A x \in DOMAIN requests :
              /\ requests'[x].emitted_tokens = requests[x].emitted_tokens
              /\ requests'[x].spec = requests[x].spec
              /\ requests'[x].status = "Rejected" <=> requests[x].status = "Rejected"
         /\ DOMAIN running' = DOMAIN running \ {id} /\ expired' = expired
<1> DEFINE q == Released(requests[id], "Cancelled")
           r == [q EXCEPT !.cancellation_requested = FALSE]
<1>1. /\ requests' = [requests EXCEPT ![id] = r] /\ expired' = expired
      /\ DOMAIN running' = DOMAIN running \ {id}
  BY DEF AbortQuantum, Remove
<1>2. /\ id \in DOMAIN requests /\ requests[id] \in RequestState /\ id \in Live
      /\ requests[id].status = "Running"
  BY Records DEF RecordInv, RunningCoherent, WithStatus
<1>3. /\ q \in RequestState /\ q.status = "Cancelled" /\ q.spec = requests[id].spec
      /\ q.emitted_tokens = requests[id].emitted_tokens
  BY <1>2, ReleasedRecord DEF TerminalStatus
<1> HIDE DEF q
<1>4. /\ r \in RequestState /\ r.status = "Cancelled" /\ r.spec = requests[id].spec
      /\ r.emitted_tokens = requests[id].emitted_tokens
  BY <1>3 DEF RequestState
<1> HIDE DEF r
<1>5. /\ DOMAIN requests' = DOMAIN requests /\ requests'[id] = r
      /\ \A x \in DOMAIN requests \ {id} : requests'[x] = requests[x]
      /\ Live' = Live \ {id}
  BY <1>1, <1>2, <1>4, OneRecord DEF TerminalStatus
<1> QED
  BY <1>1, <1>2, <1>4, <1>5

\* complete_quantum adds what was emitted and may end the request.
LEMMA CompleteEffect ==
  ASSUME RecordInv, NEW id \in DOMAIN running, NEW emitted \in Nat, NEW progress \in Nat,
         NEW ready \in BOOLEAN, NEW eos \in BOOLEAN,
         CompleteQuantum(id, emitted, progress, ready, eos)
  PROVE  /\ id \in Live /\ DOMAIN requests' = DOMAIN requests
         /\ requests'[id].status \in TerminalStatus => Live' = Live \ {id}
         /\ requests'[id].status \notin TerminalStatus => Live' = Live
         /\ requests'[id].emitted_tokens = requests[id].emitted_tokens + emitted
         /\ requests'[id].spec = requests[id].spec
         /\ requests[id].status # "Rejected" /\ requests'[id].status # "Rejected"
         /\ \A x \in DOMAIN requests \ {id} : requests'[x] = requests[x]
         /\ running' = Remove(running, id) /\ expired' = expired
<1> DEFINE old == requests[id]
           r == ApplyProgress(old, running[id], emitted, progress, ready)
           status == QuantumStatus(r, running[id], eos)
           new == IF status \in TerminalStatus THEN Released(r, status)
                  ELSE [r EXCEPT !.status = status]
<1>1. /\ requests' = [requests EXCEPT ![id] = new] /\ running' = Remove(running, id)
      /\ expired' = expired /\ ValidCompletion(running[id], emitted, progress)
  BY DEF CompleteQuantum
<1>2. /\ id \in DOMAIN requests /\ old \in RequestState /\ id \in Live
      /\ old.status = "Running" /\ running[id].kind \in {"Prefill", "Decode"}
      /\ old.emitted_tokens \in Nat
  BY Records DEF RecordInv, RecordTypes, RunningCoherent, WithStatus, Dispatch
<1>3. r \in RequestState /\ r.spec = old.spec
  BY <1>1, ProgressedRecord
<1>4. r.emitted_tokens = old.emitted_tokens + emitted
  <2>1. CASE running[id].kind = "Prefill"
    <3>1. emitted = 0
      BY <1>1, <2>1 DEF ValidCompletion
    <3>2. r.emitted_tokens = old.emitted_tokens
      BY <1>2, <2>1 DEF ApplyProgress, RequestState
    <3> QED
      BY <1>2, <3>1, <3>2
  <2>2. CASE running[id].kind = "Decode"
    BY <1>2, <2>2 DEF ApplyProgress, RequestState
  <2> QED
    BY <1>2, <2>1, <2>2
<1> HIDE DEF r
<1>5. status \in {"Queued", "Finished", "Cancelled"}
  BY DEF QuantumStatus
<1> HIDE DEF status
<1>6. /\ new \in RequestState /\ new.status = status /\ new.spec = r.spec
      /\ new.emitted_tokens = r.emitted_tokens
  BY <1>3, <1>5 DEF Released, RequestState, RequestStatus, TerminalStatus
<1> HIDE DEF new
<1>7. /\ DOMAIN requests' = DOMAIN requests /\ requests'[id] = new
      /\ \A x \in DOMAIN requests \ {id} : requests'[x] = requests[x]
      /\ new.status \in TerminalStatus => Live' = Live \ {id}
      /\ new.status \notin TerminalStatus => Live' = Live \cup {id}
  BY <1>1, <1>2, <1>6, OneRecord
<1> QED
  BY <1>1, <1>2, <1>3, <1>4, <1>5, <1>6, <1>7

\* dispatch_batch ends the late requests and starts the selected ones.
LEMMA DispatchEffect ==
  ASSUME RecordInv, NEW limit \in Nat, DispatchBatch(limit)
  PROVE  /\ DOMAIN requests' = DOMAIN requests
         /\ \A x \in DOMAIN requests :
              /\ requests'[x].emitted_tokens = requests[x].emitted_tokens
              /\ requests'[x].spec = requests[x].spec
              /\ requests'[x].status = "Rejected" <=> requests[x].status = "Rejected"
         /\ ExpiredNow \subseteq Live /\ Live' = Live \ ExpiredNow
         /\ expired' = expired \cup ExpiredNow
<1> DEFINE late     == ExpiredNow
           selected == SelectBatchIds(Queued \ late, MinOf(limit, MaxBatchRequests))
<1>1. /\ requests' = [id \in DOMAIN requests |->
                        IF id \in late THEN Released(requests[id], "DeadlineExpired")
                        ELSE IF id \in selected THEN [requests[id] EXCEPT !.status = "Running"]
                        ELSE requests[id]]
      /\ expired' = expired \cup late
  BY DEF DispatchBatch
<1>2. /\ late \subseteq Queued /\ selected \subseteq Queued \ late
      /\ Queued \subseteq DOMAIN requests
      /\ \A id \in Queued : requests[id].status = "Queued"
  BY DEF ExpiredNow, SelectBatchIds, Queued, WithStatus
<1> HIDE DEF late, selected
<1>3. ASSUME NEW x \in DOMAIN requests
      PROVE  /\ requests'[x].emitted_tokens = requests[x].emitted_tokens
             /\ requests'[x].spec = requests[x].spec
             /\ requests'[x].status = "Rejected" <=> requests[x].status = "Rejected"
             /\ x \in Live' <=> x \in Live /\ x \notin late
  <2>1. requests[x] \in RequestState
    BY Records
  <2>2. DOMAIN requests' = DOMAIN requests
    BY <1>1
  <2>3. CASE x \in late
    <3>1. requests'[x] = Released(requests[x], "DeadlineExpired") /\ requests[x].status = "Queued"
      BY <1>1, <1>2, <2>3
    <3>2. /\ requests'[x].status = "DeadlineExpired" /\ requests'[x].spec = requests[x].spec
          /\ requests'[x].emitted_tokens = requests[x].emitted_tokens
      BY <2>1, <3>1, ReleasedRecord DEF TerminalStatus
    <3> QED
      BY <2>2, <2>3, <3>1, <3>2, LiveStatusPrime
  <2>4. CASE x \notin late /\ x \in selected
    <3>1. requests'[x] = [requests[x] EXCEPT !.status = "Running"] /\ requests[x].status = "Queued"
      BY <1>1, <1>2, <2>4
    <3>2. /\ requests'[x].status = "Running" /\ requests'[x].spec = requests[x].spec
          /\ requests'[x].emitted_tokens = requests[x].emitted_tokens
      BY <2>1, <3>1 DEF RequestState
    <3> QED
      BY <2>2, <2>4, <3>1, <3>2, LiveStatus, LiveStatusPrime
  <2>5. CASE x \notin late /\ x \notin selected
    <3>1. requests'[x] = requests[x]
      BY <1>1, <2>5
    <3> QED
      BY <2>2, <2>5, <3>1, LiveStatus, LiveStatusPrime
  <2> QED
    BY <2>3, <2>4, <2>5
<1>4. DOMAIN requests' = DOMAIN requests
  BY <1>1
<1>5. Live \subseteq DOMAIN requests /\ Live' \subseteq DOMAIN requests' /\ late \subseteq Live
  BY <1>2, LiveStatus, LiveStatusPrime
<1>6. Live' = Live \ late
  BY <1>3, <1>4, <1>5
<1> QED
  BY <1>1, <1>3, <1>4, <1>5, <1>6 DEF late

-----------------------------------------------------------------------------
(* A step of the service is a step of the scheduler *)

\* A dispatch asks for no more than a prompt or an output may have.
LEMMA BudgetBound ==
  ASSUME SchedulerInv, NEW id \in DOMAIN running
  PROVE  /\ running[id] \in Dispatch /\ running[id].token_budget \in Nat
         /\ running[id].token_budget <= MaxOf(MaxOutputTokens, MaxPromptTokens)
         /\ running[id].kind \in {"Prefill", "Decode"}
<1> DEFINE r == requests[id]
<1>1. /\ id \in DOMAIN requests /\ r \in RequestState /\ GoodRecord(r) /\ r.status = "Running"
      /\ running[id] = DispatchOf(r) /\ running[id] \in Dispatch
  BY GoodRecords DEF SchedulerInv, RecordInv, RecordTypes, RunningCoherent, WithStatus
<1>2. /\ r.spec \in RequestSpec /\ r.remaining_tokens \in Nat /\ r.emitted_tokens \in Nat
      /\ r.remaining_prefill_tokens \in Nat
  BY <1>1 DEF RequestState
<1>3. /\ r.spec.prompt_tokens <= MaxPromptTokens
      /\ r.spec.max_output_tokens <= MaxOutputTokens
  BY <1>1 DEF SchedulerInv, SizesInv
<1>4. /\ r.remaining_prefill_tokens <= r.spec.prompt_tokens - r.spec.prefix_reused_tokens
      /\ r.emitted_tokens + r.remaining_tokens = r.spec.max_output_tokens
  BY <1>1 DEF GoodRecord
<1>5. /\ r.spec.prompt_tokens \in Nat /\ r.spec.prefix_reused_tokens \in Nat
      /\ r.spec.max_output_tokens \in Nat
  BY <1>2, SpecFields
<1>6. MaxPromptTokens \in Nat /\ MaxOutputTokens \in Nat
  BY PolicyAssumption
<1>7. r.remaining_prefill_tokens <= MaxPromptTokens /\ r.remaining_tokens <= MaxOutputTokens
  BY <1>2, <1>3, <1>4, <1>5, <1>6
<1> HIDE DEF r
<1>8. DispatchOf(r).token_budget <= MaxOf(MaxOutputTokens, MaxPromptTokens)
  BY <1>2, <1>6, <1>7, PolicyAssumption DEF DispatchOf, MinOf, MaxOf
<1> QED
  BY <1>1, <1>8 DEF Dispatch

\* The numbers of an output that validation accepted are a valid completion.
LEMMA OutputCompletes ==
  ASSUME SchedulerInv, NEW id \in DOMAIN running, NEW output \in QuantumOutput,
         ValidOutput(running[id], output)
  PROVE  /\ output.tokens \in TokenCount
         /\ QuantumProgress(running[id], output) \in TokenCount
         /\ PrefillReady(output) \in BOOLEAN /\ output.eos \in BOOLEAN
         /\ output.tokens \in Nat /\ QuantumProgress(running[id], output) \in Nat
<1>1. /\ running[id].token_budget \in Nat /\ running[id].kind \in {"Prefill", "Decode"}
      /\ running[id].token_budget <= MaxOf(MaxOutputTokens, MaxPromptTokens)
  BY BudgetBound
<1>2. /\ output.tokens \in Nat /\ output.eos \in BOOLEAN
      /\ output.prefill # NoPrefill =>
           output.prefill.processed_tokens \in Nat /\ output.prefill.ready \in BOOLEAN
  BY OutputAssumption
<1>3. MaxOf(MaxOutputTokens, MaxPromptTokens) \in Nat
  BY PolicyAssumption DEF MaxOf
<1>4. output.tokens <= running[id].token_budget
  BY DEF ValidOutput
<1>5. running[id].kind = "Prefill" =>
        output.prefill # NoPrefill /\ output.prefill.processed_tokens <= running[id].token_budget
  BY <1>1, <1>2 DEF ValidOutput, InvalidPrefillOutput
<1>6. PrefillReady(output) \in BOOLEAN
  BY <1>2 DEF PrefillReady
<1>7. QuantumProgress(running[id], output) \in Nat
      /\ QuantumProgress(running[id], output) <= running[id].token_budget
  BY <1>2, <1>4, <1>5 DEF QuantumProgress
<1> QED
  BY <1>1, <1>2, <1>3, <1>4, <1>6, <1>7 DEF TokenCount

\* Every step of the service is a step of the scheduler or leaves it alone.
LEMMA ServiceStepRefines ==
  ASSUME ServiceInv, [ServiceNext]_all_vars
  PROVE  [Next]_vars
<1>0. MaxBatchRequests \in Nat \ {0}
  BY PolicyAssumption
<1>1. ASSUME NEW id \in RequestId, NEW spec \in RequestSpec, AdmitRequest(id, spec)
      PROVE  [Next]_vars
  BY <1>1 DEF AdmitRequest, Next
<1>2. ASSUME NEW id \in beginning, BeginSucceeds(id) \/ BeginFails(id)
      PROVE  [Next]_vars
  <2>1. CASE BeginSucceeds(id)
    BY <2>1 DEF BeginSucceeds
  <2>2. CASE BeginFails(id)
    <3>1. CancelQueued(id) /\ id \in DOMAIN requests
      BY <2>2 DEF BeginFails, CancelQueued, Queued, WithStatus
    <3> QED
      BY <3>1 DEF Next
  <2> QED
    BY <1>2, <2>1, <2>2
<1>3. ASSUME NEW limit \in 1..MaxBatchRequests, TickDispatch(limit)
      PROVE  [Next]_vars
  BY <1>3 DEF TickDispatch, Next
<1>4. CASE FinishExpiredRequests
  <2>1. /\ expired' = {}
        /\ UNCHANGED <<requests, running, reserved_kv_bytes, next_sequence, stats, now_ns>>
    BY <1>4 DEF FinishExpiredRequests
  <2>2. CASE expired = {}
    BY <2>1, <2>2 DEF vars
  <2>3. CASE expired # {}
    BY <2>1, <2>3 DEF TakeExpiredDeadlines, Next
  <2> QED
    BY <2>2, <2>3
<1>5. CASE ExecuteBatch \/ ExecuteBatchFails
  BY <1>5 DEF ExecuteBatch, ExecuteBatchFails
<1>6. ASSUME NEW id \in DOMAIN running, AbortMember(id)
      PROVE  [Next]_vars
  BY <1>6 DEF AbortMember, Next
<1>7. ASSUME NEW id \in DOMAIN running, CommitCancelled(id)
      PROVE  [Next]_vars
  <2>1. CancelRunning(id) /\ id \in DOMAIN requests
    BY <1>7 DEF CommitCancelled, CancelRunning, WithStatus
  <2> QED
    BY <2>1 DEF Next
<1>8. ASSUME NEW id \in DOMAIN running, CommitQuantum(id)
      PROVE  [Next]_vars
  <2> DEFINE output == produced[id]
  <2>1. /\ phase = "Commit" /\ id \in DOMAIN produced
        /\ CompleteQuantum(id, output.tokens, QuantumProgress(running[id], output),
                           PrefillReady(output), output.eos)
    BY <1>8 DEF CommitQuantum
  <2>2. output \in QuantumOutput /\ ValidOutput(running[id], output)
    BY <2>1 DEF ServiceInv, ServiceTypes, PhaseInv
  <2>3. /\ output.tokens \in TokenCount
        /\ QuantumProgress(running[id], output) \in TokenCount
        /\ PrefillReady(output) \in BOOLEAN /\ output.eos \in BOOLEAN
    BY <2>2, OutputCompletes DEF ServiceInv
  <2> HIDE DEF output
  <2> QED
    BY <2>1, <2>3 DEF Next
<1>9. ASSUME NEW id \in DOMAIN requests, CancelRequest(id)
      PROVE  [Next]_vars
  BY <1>9 DEF CancelRequest, Next
<1>10. CASE PruneTerminalRequests
  BY <1>10 DEF PruneTerminalRequests, Next
<1>11. CASE ClockTick
  BY <1>11 DEF ClockTick, Next
<1>12. CASE UNCHANGED all_vars
  BY <1>12 DEF all_vars
<1> QED
  BY <1>0, <1>1, <1>2, <1>3, <1>4, <1>5, <1>6, <1>7, <1>8, <1>9, <1>10, <1>11, <1>12
  DEF ServiceNext, TickStep

-----------------------------------------------------------------------------
(* The executor and the outputs follow *)

(* What the steps of the service have to preserve beside the scheduler. *)
AgreeInv ==
  SizesInv /\ ServiceTypes /\ ExecutorMatchesScheduler /\ OutputsMatchEmitted /\ PhaseInv

\* A step that keeps what the service reads of the scheduler keeps the sizes.
LEMMA SizesKept ==
  ASSUME SizesInv, DOMAIN requests' \subseteq DOMAIN requests,
         \A x \in DOMAIN requests' :
           /\ requests'[x].spec = requests[x].spec
           /\ requests[x].status = "Rejected" => requests'[x].status = "Rejected"
  PROVE  SizesInv'
BY DEF SizesInv

\* admit: until executor.begin has returned, the newcomer has no state.
LEMMA AgreeAdmit ==
  ASSUME ServiceInv, NEW id \in RequestId, NEW spec \in RequestSpec, AdmitRequest(id, spec)
  PROVE  AgreeInv'
<1>1. /\ phase = "Idle" /\ Admit(id, spec)
      /\ UNCHANGED <<executor, outputs, produced, unknown_finishes>>
  BY DEF AdmitRequest
<1>2. /\ RecordInv /\ ServiceTypes /\ ExecutorMatchesScheduler /\ OutputsMatchEmitted
      /\ PhaseInv /\ SizesInv
  BY DEF ServiceInv, SchedulerInv
<1>3. /\ id \notin DOMAIN requests /\ DOMAIN requests' = DOMAIN requests \cup {id}
      /\ \A x \in DOMAIN requests : requests'[x] = requests[x]
      /\ requests'[id].emitted_tokens = 0
      /\ requests'[id].status = "Queued" => Live' = Live \cup {id} /\ id \in Queued'
      /\ requests'[id].status # "Queued" => Live' = Live
      /\ UNCHANGED <<running, expired>>
      /\ requests'[id].status # "Rejected" =>
           /\ requests'[id].spec.prompt_tokens <= MaxPromptTokens
           /\ requests'[id].spec.max_output_tokens <= MaxOutputTokens
  BY <1>1, <1>2, AdmitEffect
<1>4. Live \subseteq DOMAIN requests
  BY <1>2, Records
<1>5. SizesInv'
  BY <1>2, <1>3 DEF SizesInv
<1>6. beginning = {} /\ expired = {} /\ executor = Live /\ DOMAIN running = {}
      /\ unknown_finishes = {}
  BY <1>1, <1>2 DEF PhaseInv, ExecutorMatchesScheduler
<1>7. CASE requests'[id].status = "Queued"
  <2>1. phase' = "Begin" /\ beginning' = {id} /\ Live' = Live \cup {id} /\ id \in Queued'
    BY <1>3, <1>7 DEF AdmitRequest
  <2>2. ServiceTypes'
    BY <1>1, <1>2, <2>1 DEF ServiceTypes, Phases
  <2>3. ExecutorMatchesScheduler'
    BY <1>1, <1>3, <1>4, <1>6, <2>1 DEF ExecutorMatchesScheduler
  <2>4. OutputsMatchEmitted'
    BY <1>1, <1>2, <1>3, <1>4, <1>6, <2>1 DEF OutputsMatchEmitted
  <2>5. PhaseInv'
    BY <1>3, <1>6, <2>1 DEF PhaseInv
  <2> QED
    BY <1>5, <2>2, <2>3, <2>4, <2>5 DEF AgreeInv
<1>8. CASE requests'[id].status # "Queued"
  <2>1. UNCHANGED <<phase, beginning>> /\ Live' = Live
    BY <1>3, <1>8 DEF AdmitRequest
  <2>2. ServiceTypes'
    BY <1>1, <1>2, <2>1 DEF ServiceTypes
  <2>3. ExecutorMatchesScheduler'
    BY <1>1, <1>2, <1>3, <2>1 DEF ExecutorMatchesScheduler
  <2>4. OutputsMatchEmitted'
    BY <1>1, <1>2, <1>3, <2>1 DEF OutputsMatchEmitted
  <2>5. PhaseInv'
    BY <1>1, <1>3, <1>6, <2>1 DEF PhaseInv
  <2> QED
    BY <1>5, <2>2, <2>3, <2>4, <2>5 DEF AgreeInv
<1> QED
  BY <1>7, <1>8

\* executor.begin returns.
LEMMA AgreeBegin ==
  ASSUME ServiceInv, NEW id \in beginning, BeginSucceeds(id) \/ BeginFails(id)
  PROVE  AgreeInv'
<1>1. /\ RecordInv /\ ServiceTypes /\ ExecutorMatchesScheduler /\ OutputsMatchEmitted
      /\ PhaseInv /\ SizesInv
  BY DEF ServiceInv, SchedulerInv
<1>2. phase = "Begin" /\ phase' = "Idle" /\ beginning' = {}
      /\ UNCHANGED <<produced, unknown_finishes>>
  BY DEF BeginSucceeds, BeginFails
<1>3. /\ beginning = {id} /\ id \in Queued /\ requests[id].emitted_tokens = 0
      /\ expired = {} /\ DOMAIN running = {} /\ executor = Live \ {id}
      /\ unknown_finishes = {}
  BY <1>1, <1>2 DEF PhaseInv, ExecutorMatchesScheduler
<1>4. /\ id \in Live /\ id \in DOMAIN requests /\ Live \subseteq DOMAIN requests
      /\ DOMAIN requests \subseteq RequestId
  BY <1>1, <1>3, Records
<1>5. CASE BeginSucceeds(id)
  <2>1. /\ executor' = executor \cup {id} /\ outputs' = Insert(outputs, id, 0)
        /\ UNCHANGED <<requests, running, expired>> /\ Live' = Live
    BY <1>5 DEF BeginSucceeds, vars, Live, WithStatus
  <2>2. /\ DOMAIN outputs' = DOMAIN outputs \cup {id} /\ outputs'[id] = 0
        /\ \A x \in DOMAIN outputs \ {id} : outputs'[x] = outputs[x]
        /\ outputs' \in [DOMAIN outputs' -> Nat]
    BY <1>1, <2>1 DEF Insert, ServiceTypes
  <2>3. SizesInv'
    BY <1>1, <2>1 DEF SizesInv
  <2>4. ServiceTypes'
    BY <1>1, <1>2, <1>4, <2>1, <2>2 DEF ServiceTypes, Phases
  <2>5. ExecutorMatchesScheduler'
    BY <1>2, <1>3, <1>4, <2>1 DEF ExecutorMatchesScheduler
  <2>6. OutputsMatchEmitted'
    BY <1>1, <1>2, <1>3, <1>4, <2>1, <2>2 DEF OutputsMatchEmitted
  <2>7. PhaseInv'
    BY <1>2, <1>3, <2>1 DEF PhaseInv
  <2> QED
    BY <2>3, <2>4, <2>5, <2>6, <2>7 DEF AgreeInv
<1>6. CASE BeginFails(id)
  <2>1. CancelQueued(id) /\ UNCHANGED <<executor, outputs>>
    BY <1>6 DEF BeginFails
  <2>2. /\ Live' = Live \ {id} /\ DOMAIN requests' = DOMAIN requests
        /\ \A x \in DOMAIN requests :
             /\ requests'[x].emitted_tokens = requests[x].emitted_tokens
             /\ requests'[x].spec = requests[x].spec
             /\ requests'[x].status = "Rejected" <=> requests[x].status = "Rejected"
        /\ UNCHANGED <<running, expired>>
    BY <1>1, <1>4, <2>1, CancelQueuedEffect
  <2>3. SizesInv'
    BY <1>1, <2>2, SizesKept
  <2>4. ServiceTypes'
    BY <1>1, <1>2, <2>1 DEF ServiceTypes, Phases
  <2>5. ExecutorMatchesScheduler'
    BY <1>2, <1>3, <2>1, <2>2 DEF ExecutorMatchesScheduler
  <2>6. OutputsMatchEmitted'
    BY <1>1, <1>2, <1>3, <2>1, <2>2 DEF OutputsMatchEmitted
  <2>7. PhaseInv'
    BY <1>2, <1>3, <2>2 DEF PhaseInv
  <2> QED
    BY <2>3, <2>4, <2>5, <2>6, <2>7 DEF AgreeInv
<1> QED
  BY <1>5, <1>6

\* tick_batch dispatches; what expired still has executor state.
LEMMA AgreeDispatch ==
  ASSUME ServiceInv, NEW limit \in Nat, TickDispatch(limit)
  PROVE  AgreeInv'
<1>1. /\ RecordInv /\ ServiceTypes /\ ExecutorMatchesScheduler /\ OutputsMatchEmitted
      /\ PhaseInv /\ SizesInv
  BY DEF ServiceInv, SchedulerInv
<1>2. /\ phase = "Idle" /\ phase' = "Expire" /\ DispatchBatch(limit)
      /\ UNCHANGED <<beginning, executor, outputs, produced, unknown_finishes>>
  BY DEF TickDispatch
<1>3. beginning = {} /\ expired = {} /\ executor = Live /\ unknown_finishes = {}
  BY <1>1, <1>2 DEF PhaseInv, ExecutorMatchesScheduler
<1>4. /\ DOMAIN requests' = DOMAIN requests
      /\ \A x \in DOMAIN requests :
           /\ requests'[x].emitted_tokens = requests[x].emitted_tokens
           /\ requests'[x].spec = requests[x].spec
           /\ requests'[x].status = "Rejected" <=> requests[x].status = "Rejected"
      /\ ExpiredNow \subseteq Live /\ Live' = Live \ ExpiredNow
      /\ expired' = expired \cup ExpiredNow
  BY <1>1, <1>2, DispatchEffect
<1>5. SizesInv'
  BY <1>1, <1>4, SizesKept
<1>6. ServiceTypes'
  BY <1>1, <1>2 DEF ServiceTypes, Phases
<1>7. ExecutorMatchesScheduler'
  BY <1>2, <1>3, <1>4 DEF ExecutorMatchesScheduler
<1>8. OutputsMatchEmitted'
  BY <1>1, <1>2, <1>3, <1>4 DEF OutputsMatchEmitted
<1>9. PhaseInv'
  BY <1>2, <1>3, <1>4 DEF PhaseInv
<1> QED
  BY <1>5, <1>6, <1>7, <1>8, <1>9 DEF AgreeInv

\* finish_expired_requests ends what expired.
LEMMA AgreeExpire ==
  ASSUME ServiceInv, FinishExpiredRequests
  PROVE  AgreeInv'
<1>1. /\ RecordInv /\ ServiceTypes /\ ExecutorMatchesScheduler /\ OutputsMatchEmitted
      /\ PhaseInv /\ SizesInv
  BY DEF ServiceInv, SchedulerInv
<1>2. /\ phase = "Expire" /\ expired' = {} /\ executor' = executor \ expired
      /\ unknown_finishes' = unknown_finishes \cup (expired \ executor)
      /\ phase' \in {"Idle", "Execute"} /\ (phase' = "Idle" => DOMAIN running = {})
      /\ UNCHANGED <<requests, running, beginning, outputs, produced>>
  BY DEF FinishExpiredRequests, ExecutorFinish
<1>3. Live' = Live
  BY <1>2 DEF Live, WithStatus
<1>4. SizesInv'
  BY <1>1, <1>2 DEF SizesInv
<1>5. ServiceTypes'
  BY <1>1, <1>2 DEF ServiceTypes, Phases
<1>6. ExecutorMatchesScheduler'
  BY <1>1, <1>2, <1>3 DEF ExecutorMatchesScheduler, PhaseInv
<1>7. OutputsMatchEmitted'
  BY <1>1, <1>2, <1>3 DEF OutputsMatchEmitted
<1>8. PhaseInv'
  BY <1>1, <1>2 DEF PhaseInv
<1> QED
  BY <1>4, <1>5, <1>6, <1>7, <1>8 DEF AgreeInv

\* execute_batch returns, with outputs or without.
LEMMA AgreeExecute ==
  ASSUME ServiceInv, ExecuteBatch \/ ExecuteBatchFails
  PROVE  AgreeInv'
<1>1. /\ RecordInv /\ ServiceTypes /\ ExecutorMatchesScheduler /\ OutputsMatchEmitted
      /\ PhaseInv /\ SizesInv
  BY DEF ServiceInv, SchedulerInv
<1>2. /\ phase = "Execute"
      /\ UNCHANGED <<requests, running, expired, beginning, executor, outputs, unknown_finishes>>
  BY DEF ExecuteBatch, ExecuteBatchFails, vars
<1>3. Live' = Live
  BY <1>2 DEF Live, WithStatus
<1>4. \/ phase' = "Abort" /\ produced' = produced
      \/ /\ phase' = "Commit" /\ produced' \in [DOMAIN running -> QuantumOutput]
         /\ \A id \in DOMAIN running : ValidOutput(running[id], produced'[id])
  BY DEF ExecuteBatch, ExecuteBatchFails
<1>5. DOMAIN running \subseteq RequestId
  BY <1>1, Records
<1>6. ServiceTypes'
  <2>1. CASE produced' = produced
    BY <1>1, <1>2, <1>4, <2>1 DEF ServiceTypes, Phases
  <2>2. CASE produced' \in [DOMAIN running -> QuantumOutput]
    BY <1>1, <1>2, <1>4, <1>5, <2>2 DEF ServiceTypes, Phases
  <2> QED
    BY <1>4, <2>1, <2>2
<1>7. SizesInv'
  BY <1>1, <1>2 DEF SizesInv
<1>8. ExecutorMatchesScheduler'
  BY <1>1, <1>2, <1>3, <1>4 DEF ExecutorMatchesScheduler
<1>9. OutputsMatchEmitted'
  BY <1>1, <1>2, <1>3 DEF OutputsMatchEmitted
<1>10. PhaseInv'
  <2>1. phase' # "Begin" /\ phase' # "Expire" /\ beginning' = {} /\ expired' = {}
    BY <1>1, <1>2, <1>4 DEF PhaseInv
  <2>2. phase' = "Commit" => \A id \in DOMAIN produced' : ValidOutput(running'[id], produced'[id])
    BY <1>2, <1>4
  <2> QED
    BY <2>1, <2>2 DEF PhaseInv
<1> QED
  BY <1>6, <1>7, <1>8, <1>9, <1>10 DEF AgreeInv

\* One turn of abort_batch.
LEMMA AgreeAbort ==
  ASSUME ServiceInv, NEW id \in DOMAIN running, AbortMember(id)
  PROVE  AgreeInv'
<1>1. /\ RecordInv /\ ServiceTypes /\ ExecutorMatchesScheduler /\ OutputsMatchEmitted
      /\ PhaseInv /\ SizesInv
  BY DEF ServiceInv, SchedulerInv
<1>2. /\ phase = "Abort" /\ AbortQuantum(id) /\ executor' = executor \ {id}
      /\ unknown_finishes' = unknown_finishes \cup ({id} \ executor)
      /\ phase' \in {"Idle", "Abort"} /\ (phase' = "Idle" => DOMAIN running' = {})
      /\ UNCHANGED <<beginning, outputs, produced>>
  BY DEF AbortMember, ExecutorFinish
<1>3. /\ id \in Live /\ Live' = Live \ {id} /\ DOMAIN requests' = DOMAIN requests
      /\ \A x \in DOMAIN requests :
           /\ requests'[x].emitted_tokens = requests[x].emitted_tokens
           /\ requests'[x].spec = requests[x].spec
           /\ requests'[x].status = "Rejected" <=> requests[x].status = "Rejected"
      /\ expired' = expired
  BY <1>1, <1>2, AbortEffect
<1>4. beginning = {} /\ expired = {} /\ executor = Live /\ unknown_finishes = {}
  BY <1>1, <1>2 DEF PhaseInv, ExecutorMatchesScheduler
<1>5. SizesInv'
  BY <1>1, <1>3, SizesKept
<1>6. ServiceTypes'
  BY <1>1, <1>2 DEF ServiceTypes, Phases
<1>7. ExecutorMatchesScheduler'
  BY <1>2, <1>3, <1>4 DEF ExecutorMatchesScheduler
<1>8. OutputsMatchEmitted'
  BY <1>1, <1>2, <1>3, <1>4 DEF OutputsMatchEmitted
<1>9. PhaseInv'
  BY <1>2, <1>3, <1>4 DEF PhaseInv
<1> QED
  BY <1>5, <1>6, <1>7, <1>8, <1>9 DEF AgreeInv

\* commit_quantum marks a request the executor saw cancelled.
LEMMA AgreeCommitCancelled ==
  ASSUME ServiceInv, NEW id \in DOMAIN running, CommitCancelled(id)
  PROVE  AgreeInv'
<1>1. /\ RecordInv /\ ServiceTypes /\ ExecutorMatchesScheduler /\ OutputsMatchEmitted
      /\ PhaseInv /\ SizesInv
  BY DEF ServiceInv, SchedulerInv
<1>2. /\ phase = "Commit" /\ CancelRunning(id) /\ id \in DOMAIN requests
      /\ UNCHANGED <<phase, beginning, executor, outputs, produced, unknown_finishes>>
  BY DEF CommitCancelled, service_vars, CancelRunning, WithStatus
<1>3. /\ Live' = Live /\ DOMAIN requests' = DOMAIN requests
      /\ \A x \in DOMAIN requests :
           /\ requests'[x].emitted_tokens = requests[x].emitted_tokens
           /\ requests'[x].spec = requests[x].spec
           /\ requests'[x].status = requests[x].status
      /\ UNCHANGED <<running, expired>>
  BY <1>1, <1>2, CancelRunningEffect
<1>4. SizesInv'
  BY <1>1, <1>3, SizesKept
<1>5. ServiceTypes'
  BY <1>1, <1>2 DEF ServiceTypes
<1>6. ExecutorMatchesScheduler'
  BY <1>1, <1>2, <1>3 DEF ExecutorMatchesScheduler
<1>7. OutputsMatchEmitted'
  BY <1>1, <1>2, <1>3 DEF OutputsMatchEmitted
<1>8. PhaseInv'
  BY <1>1, <1>2, <1>3 DEF PhaseInv
<1> QED
  BY <1>4, <1>5, <1>6, <1>7, <1>8 DEF AgreeInv

\* commit_quantum completes the quantum, keeps its tokens and finishes what ended.
LEMMA AgreeCommit ==
  ASSUME ServiceInv, NEW id \in DOMAIN running, CommitQuantum(id)
  PROVE  AgreeInv'
<1> DEFINE output == produced[id]
           n == output.tokens
<1>1. /\ RecordInv /\ ServiceTypes /\ ExecutorMatchesScheduler /\ OutputsMatchEmitted
      /\ PhaseInv /\ SizesInv /\ SchedulerInv
  BY DEF ServiceInv, SchedulerInv
<1>2. /\ phase = "Commit" /\ id \in DOMAIN produced
      /\ CompleteQuantum(id, output.tokens, QuantumProgress(running[id], output),
                         PrefillReady(output), output.eos)
      /\ outputs' = [outputs EXCEPT ![id] = @ + output.tokens]
      /\ produced' = Remove(produced, id)
      /\ phase' \in {"Idle", "Commit"} /\ (phase' = "Idle" => DOMAIN running' = {})
      /\ beginning' = beginning
  BY DEF CommitQuantum
<1>3. IF requests'[id].status \in TerminalStatus
      THEN /\ executor' = executor \ {id}
           /\ unknown_finishes' = unknown_finishes \cup ({id} \ executor)
      ELSE UNCHANGED <<executor, unknown_finishes>>
  BY DEF CommitQuantum, ExecutorFinish
<1>4. output \in QuantumOutput /\ ValidOutput(running[id], output)
  BY <1>1, <1>2 DEF ServiceTypes, PhaseInv
<1>5. /\ n \in Nat /\ QuantumProgress(running[id], output) \in Nat
      /\ PrefillReady(output) \in BOOLEAN /\ output.eos \in BOOLEAN
  BY <1>1, <1>4, OutputCompletes
<1>6. /\ id \in Live /\ DOMAIN requests' = DOMAIN requests
      /\ requests'[id].status \in TerminalStatus => Live' = Live \ {id}
      /\ requests'[id].status \notin TerminalStatus => Live' = Live
      /\ requests'[id].emitted_tokens = requests[id].emitted_tokens + n
      /\ requests'[id].spec = requests[id].spec
      /\ requests[id].status # "Rejected" /\ requests'[id].status # "Rejected"
      /\ \A x \in DOMAIN requests \ {id} : requests'[x] = requests[x]
      /\ running' = Remove(running, id) /\ expired' = expired
  <2> HIDE DEF output
  <2> QED
    BY <1>1, <1>2, <1>5, CompleteEffect
<1>7. /\ beginning = {} /\ expired = {} /\ executor = Live /\ unknown_finishes = {}
      /\ DOMAIN produced = DOMAIN running
  BY <1>1, <1>2 DEF PhaseInv, ExecutorMatchesScheduler
<1>8. /\ id \in DOMAIN outputs /\ outputs[id] \in Nat
      /\ outputs[id] = requests[id].emitted_tokens
  BY <1>1, <1>6, <1>7 DEF OutputsMatchEmitted, ServiceTypes
<1>9. /\ DOMAIN outputs' = DOMAIN outputs /\ outputs'[id] = outputs[id] + n
      /\ \A x \in DOMAIN outputs \ {id} : outputs'[x] = outputs[x]
      /\ outputs' \in [DOMAIN outputs' -> Nat]
  <2>1. outputs \in [DOMAIN outputs -> Nat] /\ outputs[id] + n \in Nat
    BY <1>1, <1>5, <1>8 DEF ServiceTypes
  <2>2. outputs' = [outputs EXCEPT ![id] = outputs[id] + n]
    BY <1>2, <1>8
  <2> HIDE DEF n
  <2> QED
    BY <1>8, <2>1, <2>2
<1> HIDE DEF output, n
<1>10. /\ DOMAIN produced' = DOMAIN produced \ {id} /\ DOMAIN running' = DOMAIN running \ {id}
       /\ \A x \in DOMAIN produced \ {id} : produced'[x] = produced[x]
       /\ \A x \in DOMAIN running \ {id} : running'[x] = running[x]
       /\ produced' \in [DOMAIN produced' -> QuantumOutput]
  BY <1>1, <1>2, <1>6 DEF Remove, ServiceTypes
<1>11. SizesInv'
  <2>1. \A x \in DOMAIN requests' :
          /\ requests'[x].spec = requests[x].spec
          /\ requests[x].status = "Rejected" => requests'[x].status = "Rejected"
    BY <1>6
  <2> QED
    BY <1>1, <1>6, <2>1, SizesKept
<1>12. ServiceTypes'
  BY <1>1, <1>2, <1>3, <1>9, <1>10 DEF ServiceTypes, Phases
<1>13. ExecutorMatchesScheduler'
  <2>1. executor' = Live' /\ unknown_finishes' = {}
    BY <1>3, <1>6, <1>7
  <2>2. beginning' = {} /\ expired' = {} /\ DOMAIN produced' = DOMAIN running'
    BY <1>2, <1>6, <1>7, <1>10
  <2> QED
    BY <1>2, <2>1, <2>2 DEF ExecutorMatchesScheduler
<1>14. OutputsMatchEmitted'
  <2>1. Live' \subseteq Live /\ Live \subseteq DOMAIN outputs
    BY <1>1, <1>6, <1>7 DEF OutputsMatchEmitted
  <2>2. \A x \in DOMAIN outputs : x \in DOMAIN requests
                                  /\ outputs'[x] = requests'[x].emitted_tokens
    BY <1>1, <1>6, <1>8, <1>9 DEF OutputsMatchEmitted
  <2> QED
    BY <1>2, <1>6, <1>9, <2>1, <2>2 DEF OutputsMatchEmitted
<1>15. PhaseInv'
  <2>1. \A x \in DOMAIN produced' : ValidOutput(running'[x], produced'[x])
    BY <1>1, <1>2, <1>7, <1>10 DEF PhaseInv
  <2>2. expired' = {} /\ beginning' = {}
    BY <1>2, <1>6, <1>7
  <2> QED
    BY <1>2, <2>1, <2>2 DEF PhaseInv
<1> QED
  BY <1>11, <1>12, <1>13, <1>14, <1>15 DEF AgreeInv

\* cancel ends a queued request and its executor state.
LEMMA AgreeCancel ==
  ASSUME ServiceInv, NEW id \in DOMAIN requests, CancelRequest(id)
  PROVE  AgreeInv'
<1>1. /\ RecordInv /\ ServiceTypes /\ ExecutorMatchesScheduler /\ OutputsMatchEmitted
      /\ PhaseInv /\ SizesInv
  BY DEF ServiceInv, SchedulerInv
<1>2. /\ phase = "Idle" /\ CancelQueued(id) /\ executor' = executor \ {id}
      /\ unknown_finishes' = unknown_finishes \cup ({id} \ executor)
      /\ UNCHANGED <<phase, beginning, outputs, produced>>
  BY DEF CancelRequest, ExecutorFinish
<1>3. /\ id \in Live /\ Live' = Live \ {id} /\ DOMAIN requests' = DOMAIN requests
      /\ \A x \in DOMAIN requests :
           /\ requests'[x].emitted_tokens = requests[x].emitted_tokens
           /\ requests'[x].spec = requests[x].spec
           /\ requests'[x].status = "Rejected" <=> requests[x].status = "Rejected"
      /\ UNCHANGED <<running, expired>>
  BY <1>1, <1>2, CancelQueuedEffect
<1>4. /\ beginning = {} /\ expired = {} /\ executor = Live /\ unknown_finishes = {}
      /\ DOMAIN running = {}
  BY <1>1, <1>2 DEF PhaseInv, ExecutorMatchesScheduler
<1>5. SizesInv'
  BY <1>1, <1>3, SizesKept
<1>6. ServiceTypes'
  BY <1>1, <1>2 DEF ServiceTypes
<1>7. ExecutorMatchesScheduler'
  BY <1>2, <1>3, <1>4 DEF ExecutorMatchesScheduler
<1>8. OutputsMatchEmitted'
  BY <1>1, <1>2, <1>3, <1>4 DEF OutputsMatchEmitted
<1>9. PhaseInv'
  BY <1>2, <1>3, <1>4 DEF PhaseInv
<1> QED
  BY <1>5, <1>6, <1>7, <1>8, <1>9 DEF AgreeInv

\* prune_terminal drops the records and the outputs of the same requests.
LEMMA AgreePrune ==
  ASSUME ServiceInv, PruneTerminalRequests
  PROVE  AgreeInv'
<1>1. /\ RecordInv /\ ServiceTypes /\ ExecutorMatchesScheduler /\ OutputsMatchEmitted
      /\ PhaseInv /\ SizesInv
  BY DEF ServiceInv, SchedulerInv
<1>2. /\ phase = "Idle" /\ requests' = [id \in Live |-> requests[id]]
      /\ outputs' = [id \in DOMAIN outputs \cap Live |-> outputs[id]]
      /\ UNCHANGED <<running, expired, phase, beginning, executor, produced, unknown_finishes>>
  BY DEF PruneTerminalRequests, PruneTerminal
<1>3. /\ DOMAIN requests' = Live /\ Live \subseteq DOMAIN requests
      /\ \A id \in Live : requests'[id] = requests[id]
  BY <1>1, <1>2, Records
<1>4. Live' = Live
  BY <1>3, LiveStatus, LiveStatusPrime
<1>5. /\ DOMAIN outputs' = DOMAIN outputs \cap Live
      /\ \A id \in DOMAIN outputs' : outputs'[id] = outputs[id]
      /\ outputs' \in [DOMAIN outputs' -> Nat]
  BY <1>1, <1>2 DEF ServiceTypes
<1>6. SizesInv'
  BY <1>1, <1>3, SizesKept
<1>7. ServiceTypes'
  BY <1>1, <1>2, <1>5 DEF ServiceTypes
<1>8. ExecutorMatchesScheduler'
  BY <1>1, <1>2, <1>4 DEF ExecutorMatchesScheduler
<1>9. OutputsMatchEmitted'
  BY <1>1, <1>2, <1>3, <1>4, <1>5 DEF OutputsMatchEmitted
<1>10. PhaseInv'
  BY <1>1, <1>2, <1>4 DEF PhaseInv
<1> QED
  BY <1>6, <1>7, <1>8, <1>9, <1>10 DEF AgreeInv

\* Time passes, or nothing happens.
LEMMA AgreeStutter ==
  ASSUME ServiceInv, ClockTick \/ UNCHANGED all_vars
  PROVE  AgreeInv'
<1>1. UNCHANGED <<requests, running, expired, phase, beginning, executor, outputs, produced,
                  unknown_finishes>>
  BY DEF ClockTick, AdvanceClock, all_vars, vars, service_vars
<1> QED
  BY <1>1 DEF ServiceInv, SchedulerInv, AgreeInv, SizesInv, ServiceTypes,
     ExecutorMatchesScheduler, OutputsMatchEmitted, PhaseInv, Live, Queued, WithStatus

\* The invariant is inductive.
LEMMA ServiceStep ==
  ASSUME ServiceInv, [ServiceNext]_all_vars
  PROVE  ServiceInv'
<1>0. MaxBatchRequests \in Nat /\ 1 \in Nat
  BY PolicyAssumption
<1>1. [Next]_vars /\ RecordInv /\ TotalsInv
  BY ServiceStepRefines DEF ServiceInv, SchedulerInv
<1>2. RecordInv'
  BY <1>1, RecordStep
<1>3. TotalsInv'
  BY <1>1, <1>2, TotalsStep
<1>4. AgreeInv'
  <2>1. ASSUME NEW id \in DOMAIN running, AbortMember(id) \/ CommitCancelled(id) \/ CommitQuantum(id)
        PROVE  AgreeInv'
    BY <2>1, AgreeAbort, AgreeCommitCancelled, AgreeCommit
  <2>2. CASE TickStep
    BY <1>0, <2>1, <2>2, AgreeDispatch, AgreeExpire, AgreeExecute DEF TickStep
  <2> QED
    BY <1>0, <2>2, AgreeAdmit, AgreeBegin, AgreeDispatch, AgreeCancel, AgreePrune, AgreeStutter
    DEF ServiceNext
<1> QED
  BY <1>2, <1>3, <1>4 DEF ServiceInv, SchedulerInv, AgreeInv

\* The invariant holds before the first call.
LEMMA ServiceStart ==
  ServiceInit => ServiceInv
<1> SUFFICES ASSUME ServiceInit PROVE ServiceInv
  OBVIOUS
<1>1. RecordInv /\ TotalsInv
  BY RecordInit, TotalsInit DEF ServiceInit
<1>2. /\ DOMAIN requests = {} /\ DOMAIN running = {} /\ expired = {}
      /\ phase = "Idle" /\ beginning = {} /\ executor = {} /\ unknown_finishes = {}
      /\ outputs = EmptyFunction /\ produced = EmptyFunction
  BY DEF ServiceInit, Init
<1>3. Live = {}
  BY <1>2 DEF Live, WithStatus
<1>4. /\ DOMAIN outputs = {} /\ outputs \in [{} -> Nat]
      /\ DOMAIN produced = {} /\ produced \in [{} -> QuantumOutput]
  BY <1>2 DEF EmptyFunction
<1>5. SizesInv
  BY <1>2 DEF SizesInv
<1>6. ServiceTypes
  BY <1>2, <1>4 DEF ServiceTypes, Phases
<1>7. ExecutorMatchesScheduler /\ OutputsMatchEmitted /\ PhaseInv
  BY <1>2, <1>3, <1>4 DEF ExecutorMatchesScheduler, OutputsMatchEmitted, PhaseInv
<1> QED
  BY <1>1, <1>5, <1>6, <1>7 DEF ServiceInv, SchedulerInv

\* The invariant holds.
LEMMA ServiceInvariant ==
  ServiceSpec => []ServiceInv
<1> QED
  BY ServiceStart, ServiceStep, PTL DEF ServiceSpec

-----------------------------------------------------------------------------
(* Theorems *)

\* The service implements the scheduler: whatever an executor returns and
\* wherever a call fails, the service calls the scheduler only as its
\* specification allows, so that all that is proved of the scheduler holds of
\* the one inside the service.
THEOREM ServiceImplementsScheduler ==
  ServiceSpec => Spec
<1>1. ServiceInit => Init
  BY DEF ServiceInit
<1>2. ServiceInv /\ [ServiceNext]_all_vars => [Next]_vars
  BY ServiceStepRefines
<1> QED
  BY <1>1, <1>2, ServiceInvariant, PTL DEF ServiceSpec, Spec

\* The service's variables keep their types, and those of the scheduler too.
THEOREM ServiceTypesCorrect ==
  ServiceSpec => []ServiceTypeOK
<1>1. ServiceInv => ServiceTypeOK
  BY DEF ServiceInv, SchedulerInv, RecordInv, RecordTypes, TotalsInv, TypeOK, ServiceTypes,
         Phases, ExecutorMatchesScheduler, ServiceTypeOK
<1> QED
  BY <1>1, ServiceInvariant, PTL

\* The executor holds state for exactly the requests that need it, and finish is
\* called once for each: through failed begins, failed batches, expiry, cancels
\* and completions, no session leaks and none is finished twice.
THEOREM ExecutorAlwaysMatches ==
  ServiceSpec => []ExecutorMatchesScheduler
<1> QED
  BY ServiceInvariant, PTL DEF ServiceInv

\* The outputs a caller can read are the tokens the scheduler counted.
THEOREM OutputsAlwaysMatch ==
  ServiceSpec => []OutputsMatchEmitted
<1> QED
  BY ServiceInvariant, PTL DEF ServiceInv
=============================================================================
