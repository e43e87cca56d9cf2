----------------------------- MODULE BadgerAuth -----------------------------
(***************************************************************************)
(* The replicated credential store ("badgerauth") of the auth service.     *)
(*                                                                         *)
(* Every node keeps, per KeyHash, one record, a per-node logical clock,    *)
(* the log entries it originated or applied, and a HighWater mark per      *)
(* peer.  Local writes (resolver Put, the three admin RPCs of admin.go)    *)
(* append a log entry stamped with the next clock value in the same batch  *)
(* as the record mutation.  Each node pulls every peer's own entries in    *)
(* clock order and merges them with the rules of spec section 4.5.         *)
(*                                                                         *)
(* Only the admin RPC handlers are under src/ (admin.go); the DB, Log,     *)
(* Clock and replication are modelled from spec.md.                        *)
(***************************************************************************)
EXTENDS Naturals

CONSTANTS
  Node,      \* node ids; naturals, so that (Clock, NodeID) is totally ordered
  Key,       \* KeyHashes
  Reason,    \* non-empty invalidation reasons
  MaxClock,  \* bound on every node's clock, i.e. on the writes it originates
  None       \* "no value" for record and entry fields

ASSUME Node \subseteq Nat \ {0} /\ Node # {}
ASSUME MaxClock \in Nat \ {0}
ASSUME None \notin Node \cup Reason

\* The empty string an admin client may send as the reason.
EmptyReason == ""

ASSUME EmptyReason \notin Reason

Ops == {"Put", "Invalidate", "Unpublish", "Delete"}

\* (Clock, NodeID) of an entry; NoEntry sorts below every real entry.
EntryId == (1..MaxClock) \X Node
NoEntry == <<0, 0>>

Entry == [node: Node, clock: 1..MaxClock, key: Key, op: Ops,
          public: BOOLEAN, reason: Reason \cup {None}]

(***************************************************************************)
(* A record: grant is the node whose Put supplied the payload (None until  *)
(* a Put is applied); unpublished stands for Public = false set by         *)
(* UnpublishRecord; invalidatedBy is the entry that set InvalidatedAtUnix  *)
(* and InvalidationReason; deleted is the tombstone.  Admin entries that   *)
(* arrive before the Put leave their flags on a record without a grant.    *)
(***************************************************************************)
Record == [grant: Node \cup {None}, public: BOOLEAN, unpublished: BOOLEAN,
           invalidatedBy: EntryId \cup {NoEntry}, reason: Reason \cup {None},
           deleted: BOOLEAN]

EmptyRecord == [grant |-> None, public |-> FALSE, unpublished |-> FALSE,
                invalidatedBy |-> NoEntry, reason |-> None, deleted |-> FALSE]

VARIABLES
  clock,      \* clock[n]: m/clock, the last clock value n assigned
  logs,       \* logs[n]: the l/<nodeID>/<clock> entries stored at n
  highWater,  \* highWater[n][p]: m/highwater/<p> at n
  records     \* records[n][k]: r/<k> at n

vars == <<clock, logs, highWater, records>>

-----------------------------------------------------------------------------
Id(e) == <<e.clock, e.node>>

Later(a, b) == a[1] > b[1] \/ (a[1] = b[1] /\ a[2] > b[2])

\* Clock.Next: the current value plus one, persisted with the write.
NextClock(n) == clock[n] + 1

\* The prefix of every origin's log that n has: its own log and HighWater.
Applied(n) == [p \in Node |-> IF p = n THEN clock[n] ELSE highWater[n][p]]

OwnLog(p) == {e \in logs[p] : e.node = p}

\* Range(p, c, 1): p's own entry with clock c.
OwnEntry(p, c) == CHOOSE e \in OwnLog(p) : e.clock = c

\* KeyHashes are unique per issuance: a key is Put once in the cluster.
Issued(k) == \E n \in Node : \E e \in logs[n] : e.key = k /\ e.op = "Put"

\* updateRecord / deleteRecord find a live row, else NotFound.
Present(n, k) == records[n][k].grant # None /\ ~records[n][k].deleted

\* Mutation: a Put rewrites the whole row, dropping flags set before it.
MergePutReplaces(r, e) ==
  CASE e.op = "Put" ->
         IF r.grant = None
           THEN [EmptyRecord EXCEPT !.grant = e.node, !.public = e.public]
           ELSE r
    [] e.op = "Invalidate" ->
         IF Later(Id(e), r.invalidatedBy)
           THEN [r EXCEPT !.invalidatedBy = Id(e), !.reason = e.reason]
           ELSE r
    [] e.op = "Unpublish" -> [r EXCEPT !.unpublished = TRUE]
    [] e.op = "Delete"    -> [r EXCEPT !.deleted = TRUE]

\* The merge rules of spec 4.5, applied to a foreign entry.
Merge(r, e) ==
  CASE e.op = "Put" ->
         IF r.grant = None THEN [r EXCEPT !.grant = e.node, !.public = e.public]
                           ELSE r
    [] e.op = "Invalidate" ->
         IF Later(Id(e), r.invalidatedBy)
           THEN [r EXCEPT !.invalidatedBy = Id(e), !.reason = e.reason]
           ELSE r
    [] e.op = "Unpublish" -> [r EXCEPT !.unpublished = TRUE]
    [] e.op = "Delete"    -> [r EXCEPT !.deleted = TRUE]

\* Get: the resolver outcome for k at n.
Get(n, k) ==
  LET r == records[n][k] IN
  CASE r.grant = None \/ r.deleted -> "NotFound"
    [] r.invalidatedBy # NoEntry   -> "Invalidated"
    [] r.public /\ ~r.unpublished  -> "Public"
    [] OTHER                       -> "Private"

MakeEntry(n, k, op, pub, why) ==
  [node |-> n, clock |-> NextClock(n), key |-> k, op |-> op,
   public |-> pub, reason |-> why]

\* Log.Append: clock, entry and record mutation in one batch.
Append(n, e, rec) ==
  /\ e.clock <= MaxClock
  /\ clock' = [clock EXCEPT ![n] = e.clock]
  /\ logs' = [logs EXCEPT ![n] = @ \cup {e}]
  /\ records' = [records EXCEPT ![n][e.key] = rec]
  /\ UNCHANGED highWater

\* Mutation: an admin entry for a row that does not exist yet is skipped.
ApplyDropOrphan(n, e) ==
  /\ e.clock > highWater[n][e.node]
  /\ records' = [records EXCEPT ![n][e.key] =
                   IF e.op # "Put" /\ @.grant = None THEN @ ELSE Merge(@, e)]
  /\ logs' = [logs EXCEPT ![n] = @ \cup {e}]
  /\ highWater' = [highWater EXCEPT ![n][e.node] = e.clock]
  /\ UNCHANGED clock

\* Log.Apply: idempotent insert of a foreign entry, merged into the
\* record and recorded in HighWater in one batch.
Apply(n, e) ==
  /\ e.clock > highWater[n][e.node]
  /\ records' = [records EXCEPT ![n][e.key] = Merge(@, e)]
  /\ logs' = [logs EXCEPT ![n] = @ \cup {e}]
  /\ highWater' = [highWater EXCEPT ![n][e.node] = e.clock]
  /\ UNCHANGED clock

-----------------------------------------------------------------------------
Init ==
  /\ clock = [n \in Node |-> 0]
  /\ logs = [n \in Node |-> {}]
  /\ highWater = [n \in Node |-> [p \in Node |-> 0]]
  /\ records = [n \in Node |-> [k \in Key |-> EmptyRecord]]

\* Resolver Put of a freshly issued KeyHash.
Put(n, k, pub) ==
  LET e == MakeEntry(n, k, "Put", pub, None) IN
  /\ ~Issued(k)
  /\ Append(n, e, Merge(records[n][k], e))

\* Mutation: InvalidateRecord without the check for a missing reason.
InvalidateRecordNoReasonCheck(n, k, why) ==
  LET e == MakeEntry(n, k, "Invalidate", FALSE, why) IN
  /\ Present(n, k)
  /\ Append(n, e, [records[n][k] EXCEPT !.invalidatedBy = Id(e), !.reason = why])

\* admin.go InvalidateRecord: an empty reason is refused with
\* InvalidArgument before any write; the closure overwrites
\* InvalidatedAtUnix and InvalidationReason of the local record.
InvalidateRecord(n, k, why) ==
  LET e == MakeEntry(n, k, "Invalidate", FALSE, why) IN
  /\ why # EmptyReason
  /\ Present(n, k)
  /\ Append(n, e, [records[n][k] EXCEPT !.invalidatedBy = Id(e), !.reason = why])

\* admin.go UnpublishRecord: the closure sets Public = false.
UnpublishRecord(n, k) ==
  LET e == MakeEntry(n, k, "Unpublish", FALSE, None) IN
  /\ Present(n, k)
  /\ Append(n, e, [records[n][k] EXCEPT !.unpublished = TRUE])

\* admin.go DeleteRecord: deleteRecord leaves a tombstone.
DeleteRecord(n, k) ==
  LET e == MakeEntry(n, k, "Delete", FALSE, None) IN
  /\ Present(n, k)
  /\ Append(n, e, [records[n][k] EXCEPT !.deleted = TRUE])

\* Mutation: the pull never asks for the peer's newest entry.
ReplicateMissTail(n, p) ==
  /\ n # p
  /\ highWater[n][p] < clock[p] - 1
  /\ Apply(n, OwnEntry(p, highWater[n][p] + 1))

\* One step of n's replication loop for peer p: read HighWater[p], pull
\* p's next own entry and Apply it.
Replicate(n, p) ==
  /\ n # p
  /\ highWater[n][p] < clock[p]
  /\ Apply(n, OwnEntry(p, highWater[n][p] + 1))

Next ==
  \/ \E n \in Node, k \in Key, pub \in BOOLEAN : Put(n, k, pub)
  \/ \E n \in Node, k \in Key, why \in Reason \cup {EmptyReason} :
       InvalidateRecord(n, k, why)
  \/ \E n \in Node, k \in Key : UnpublishRecord(n, k)
  \/ \E n \in Node, k \in Key : DeleteRecord(n, k)
  \/ \E n, p \in Node : Replicate(n, p)

\* Every node runs one replication worker per peer on a fixed interval.
Fairness == \A n, p \in Node : n # p => WF_vars(Replicate(n, p))

Spec == Init /\ [][Next]_vars /\ Fairness

-----------------------------------------------------------------------------
TypeOK ==
  /\ clock \in [Node -> 0..MaxClock]
  /\ \A n \in Node : logs[n] \subseteq Entry
  /\ highWater \in [Node -> [Node -> 0..MaxClock]]
  /\ records \in [Node -> [Key -> Record]]

(***************************************************************************)
(* Strong convergence of what Get answers: two nodes that have applied the *)
(* same prefix of every origin's log resolve every KeyHash the same way,   *)
(* whatever order the replication loops delivered the entries in (an      *)
(* admin entry may reach a third node before the Put it targets).          *)
(***************************************************************************)
ViewConvergence ==
  \A n, m \in Node :
    Applied(n) = Applied(m) => \A k \in Key : Get(n, k) = Get(m, k)

(***************************************************************************)
(* Spec property 1 (bytewise identical r/ space): two nodes that have      *)
(* applied the same entries hold identical records, including the          *)
(* InvalidatedAtUnix and InvalidationReason that InvalidateRecord writes.  *)
(***************************************************************************)
RecordConvergence ==
  \A n, m \in Node : Applied(n) = Applied(m) => records[n] = records[m]

(***************************************************************************)
(* Spec property 2 and invariant 4: a node that stores an Invalidate or    *)
(* Delete entry for a KeyHash never resolves it to a live record, even     *)
(* when the Put for it is applied later.                                   *)
(***************************************************************************)
InvalidationHonoured ==
  \A n \in Node, k \in Key :
    (\E e \in logs[n] : e.key = k /\ e.op \in {"Invalidate", "Delete"})
      => Get(n, k) \in {"NotFound", "Invalidated"}

(***************************************************************************)
(* Eventual consistency: with every replication worker running, all nodes *)
(* eventually resolve every KeyHash the same way and keep doing so.        *)
(***************************************************************************)
Converges ==
  <>[](\A n, m \in Node, k \in Key : Get(n, k) = Get(m, k))

=============================================================================
