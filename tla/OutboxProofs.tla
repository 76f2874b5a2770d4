---------------------------- MODULE OutboxProofs ----------------------------
(***************************************************************************)
(* Proofs about Outbox, for any messages, timers, batch size and number of *)
(* faults: the inductive invariant, that the outbox is a Mailbox, and that *)
(* a settled message is final.                                             *)
(***************************************************************************)
EXTENDS Outbox, FiniteSetTheorems, TLAPS

USE DEF Statuses, Steps, Templates, Sweeps, Sources

\* TypeOK in parts.
RowsTyped == row \in [Messages -> RowRecord]

CallsTyped ==
  /\ job \in [Sources -> [Messages -> Steps]]
  /\ \A t \in Timers, m \in Messages : job[t][m] # "insert"

TicksTyped ==
  /\ tick \in [Timers -> [pc : {"idle", "expire", "pick", "lost"}, todo : SUBSET Sweeps]]
  /\ \A t \in Timers : tick[t].todo = {} <=> tick[t].pc \in {"idle", "pick"}

ClosingTyped ==
  closing \in [op : {None, "resend", "disable"}, rows : SUBSET Messages,
               next : Messages \cup {None}]

ProviderTyped == keys \subseteq Messages /\ mails \in [Messages -> Nat]

RestTyped ==
  /\ access \in {"NONE", "PROVISIONING", "ACTIVE", "DISABLED"}
  /\ process \in {"up", "stopping", "down"}
  /\ faults \in 0..MaxFaults

OwnedTyped == owned \in BOOLEAN

LEMMA TypeParts ==
  TypeOK <=> /\ RowsTyped /\ CallsTyped /\ TicksTyped /\ ClosingTyped
             /\ ProviderTyped /\ RestTyped /\ OwnedTyped
BY DEF TypeOK, RowsTyped, CallsTyped, TicksTyped, ClosingTyped, ProviderTyped, RestTyped,
       OwnedTyped

LEMMA TypePartsNext ==
  /\ RowsTyped' /\ CallsTyped' /\ TicksTyped' /\ ClosingTyped'
  /\ ProviderTyped' /\ RestTyped' /\ OwnedTyped'
  => TypeOK'
BY DEF TypeOK, RowsTyped, CallsTyped, TicksTyped, ClosingTyped, ProviderTyped, RestTyped,
       OwnedTyped

\* The rest of the invariant.
Core ==
  /\ MailedOnce /\ MailedBeforeDelivered
  /\ EnvelopeWhilePending /\ DeliveredAfterCommit /\ ClosingHoldsRows

LEMMA InvariantParts ==
  DeliveryIInv => /\ RowsTyped /\ CallsTyped /\ TicksTyped /\ ClosingTyped
                  /\ ProviderTyped /\ RestTyped /\ OwnedTyped /\ Core
BY TypeParts DEF DeliveryIInv, Core

LEMMA InvariantPartsNext ==
  /\ RowsTyped' /\ CallsTyped' /\ TicksTyped' /\ ClosingTyped'
  /\ ProviderTyped' /\ RestTyped' /\ OwnedTyped' /\ Core'
  => DeliveryIInv'
BY TypePartsNext DEF DeliveryIInv, Core

LEMMA InitInvariant == OutboxAssumption /\ Init => DeliveryIInv
<1> SUFFICES ASSUME OutboxAssumption, Init PROVE DeliveryIInv
  OBVIOUS
<1>1. TypeOK
  <2>1. RowsTyped /\ ProviderTyped
    BY DEF Init, RowsTyped, ProviderTyped, RowRecord, NoRow
  <2>2. CallsTyped /\ TicksTyped
    BY DEF Init, CallsTyped, TicksTyped, NoTick
  <2>3. ClosingTyped /\ RestTyped
    BY DEF Init, ClosingTyped, RestTyped, NoClosing, OutboxAssumption
  <2>4. OwnedTyped
    BY DEF Init, OwnedTyped
  <2> QED
    BY <2>1, <2>2, <2>3, <2>4, TypeParts
<1>2. MailedOnce /\ MailedBeforeDelivered /\ EnvelopeWhilePending /\ DeliveredAfterCommit
  BY DEF Init, NoRow, MailedOnce, MailedBeforeDelivered, EnvelopeWhilePending,
         DeliveredAfterCommit
<1>3. ClosingHoldsRows
  BY DEF Init, NoClosing, ClosingHoldsRows
<1> QED
  BY <1>1, <1>2, <1>3 DEF DeliveryIInv

\* What the UPDATEs make of a row.
LEMMA StoredRow ==
  ASSUME NEW r \in RowRecord
  PROVE  /\ Stored(r) \in RowRecord
         /\ Stored(r).status = "PENDING" /\ Stored(r).envelope
         /\ Stored(r).template = r.template
BY DEF Stored, RowRecord

LEMMA SettledRow ==
  ASSUME NEW r \in RowRecord, NEW status \in {"DELIVERED", "EXPIRED"}
  PROVE  /\ Settled(r, status) \in RowRecord
         /\ Settled(r, status).status = status /\ ~Settled(r, status).envelope
         /\ Settled(r, status).template = r.template
BY DEF Settled, RowRecord

LEMMA FailedRow ==
  ASSUME NEW r \in RowRecord
  PROVE  /\ FailureRecorded(r) \in RowRecord
         /\ FailureRecorded(r).status = r.status /\ FailureRecorded(r).envelope = r.envelope
         /\ FailureRecorded(r).template = r.template
BY DEF FailureRecorded, RowRecord

LEMMA OlderRow ==
  ASSUME NEW r \in RowRecord
  PROVE  /\ [r EXCEPT !.old = TRUE] \in RowRecord
         /\ [r EXCEPT !.old = TRUE].status = r.status
         /\ [r EXCEPT !.old = TRUE].envelope = r.envelope
         /\ [r EXCEPT !.old = TRUE].template = r.template
BY DEF RowRecord

\* The rank a new row gets is a number.
LEMMA BornNat ==
  OutboxAssumption => Cardinality({n \in Messages : row[n].template # None}) \in Nat
BY FS_Subset, FS_CardinalityType DEF OutboxAssumption

-----------------------------------------------------------------------------
(***************************************************************************)
(* Steps that leave the messages and the provider alone.                   *)
(***************************************************************************)
\* Ticks, the process and the Organization: Core does not speak of them.
LEMMA CoreKept ==
  ASSUME Core, UNCHANGED <<row, job, closing, keys, mails>>
  PROVE  Core'
BY DEF Core, MailedOnce, MailedBeforeDelivered, EnvelopeWhilePending, DeliveredAfterCommit,
       ClosingHoldsRows, Pending

\* A call that goes on without marking anything, or ends.
LEMMA CallKept ==
  ASSUME CallsTyped, ClosingTyped, Core,
         NEW s \in Sources, NEW m \in Messages, NEW step \in {"idle", "send", "fail"},
         Advance(s, m, step), UNCHANGED <<row, closing, keys, mails>>,
         job[s][m] # "idle",
         job[s][m] = "insert" => step = "idle" /\ closing.next # m
  PROVE  CallsTyped' /\ Core'
<1>1. CallsTyped'
  BY DEF CallsTyped, Advance
<1>2. MailedOnce' /\ EnvelopeWhilePending'
  BY DEF Core, MailedOnce, EnvelopeWhilePending
<1>3. MailedBeforeDelivered'
  BY DEF Core, MailedBeforeDelivered, CallsTyped, Advance
<1>4. DeliveredAfterCommit'
  BY DEF Core, DeliveredAfterCommit, CallsTyped, Advance
<1>5. ClosingHoldsRows'
  <2>1. closing.rows \subseteq Pending'
    BY DEF Core, ClosingHoldsRows, Pending
  <2>2. CASE s # Caller \/ m # closing.next
    BY <2>1, <2>2 DEF Core, ClosingHoldsRows, CallsTyped, ClosingTyped, Advance
  <2>3. CASE s = Caller /\ m = closing.next
    BY <2>1, <2>3 DEF Core, ClosingHoldsRows
  <2> QED
    BY <2>2, <2>3
<1> QED
  BY <1>1, <1>2, <1>3, <1>4, <1>5 DEF Core

-----------------------------------------------------------------------------
(***************************************************************************)
(* One lemma per action.                                                   *)
(***************************************************************************)

\* The request's call ends before it began.
LEMMA RollbackInsertStep ==
  ASSUME OutboxAssumption, DeliveryIInv, NEW m \in Messages,
         RollbackInsert(m)
  PROVE  DeliveryIInv'
<1>0. /\ RowsTyped /\ CallsTyped /\ TicksTyped /\ ClosingTyped
      /\ ProviderTyped /\ RestTyped /\ OwnedTyped /\ Core
  BY InvariantParts
<1>1. /\ RowsTyped' /\ TicksTyped' /\ ClosingTyped' /\ ProviderTyped'
      /\ RestTyped' /\ OwnedTyped'
  BY <1>0 DEF RollbackInsert, vars, storeVars, providerVars, RowsTyped, TicksTyped,
         ClosingTyped, ProviderTyped, RestTyped, OwnedTyped
<1>2. CallsTyped' /\ Core'
  BY <1>0, CallKept DEF RollbackInsert, vars, storeVars, providerVars
<1> QED
  BY <1>1, <1>2, InvariantPartsNext

\* Reading decides whether the call goes on.
LEMMA ReadMessageStep ==
  ASSUME OutboxAssumption, DeliveryIInv, NEW s \in Sources, NEW m \in Messages,
         ReadMessage(s, m)
  PROVE  DeliveryIInv'
<1>0. /\ RowsTyped /\ CallsTyped /\ TicksTyped /\ ClosingTyped
      /\ ProviderTyped /\ RestTyped /\ OwnedTyped /\ Core
  BY InvariantParts
<1>1. /\ RowsTyped' /\ TicksTyped' /\ ClosingTyped' /\ ProviderTyped'
      /\ RestTyped' /\ OwnedTyped'
  BY <1>0 DEF ReadMessage, vars, storeVars, providerVars, RowsTyped, TicksTyped, ClosingTyped,
         ProviderTyped, RestTyped, OwnedTyped
<1>2. CallsTyped' /\ Core'
  BY <1>0, CallKept DEF ReadMessage, vars, storeVars, providerVars
<1> QED
  BY <1>1, <1>2, InvariantPartsNext

\* A refusal sends the call to its catch block.
LEMMA ProviderRefusesStep ==
  ASSUME OutboxAssumption, DeliveryIInv, NEW s \in Sources, NEW m \in Messages,
         ProviderRefuses(s, m)
  PROVE  DeliveryIInv'
<1>0. /\ RowsTyped /\ CallsTyped /\ TicksTyped /\ ClosingTyped
      /\ ProviderTyped /\ RestTyped /\ OwnedTyped /\ Core
  BY InvariantParts
<1>1. /\ RowsTyped' /\ TicksTyped' /\ ClosingTyped' /\ ProviderTyped'
      /\ RestTyped' /\ OwnedTyped'
  BY <1>0 DEF ProviderRefuses, vars, storeVars, providerVars, RowsTyped, TicksTyped,
         ClosingTyped, ProviderTyped, RestTyped, OwnedTyped
<1>2. CallsTyped' /\ Core'
  BY <1>0, CallKept DEF ProviderRefuses, vars, storeVars, providerVars
<1> QED
  BY <1>1, <1>2, InvariantPartsNext

\* The catch block ends the call.
LEMMA RecordFailureStep ==
  ASSUME OutboxAssumption, DeliveryIInv, NEW s \in Sources, NEW m \in Messages,
         RecordFailure(s, m)
  PROVE  DeliveryIInv'
<1>0. /\ RowsTyped /\ CallsTyped /\ TicksTyped /\ ClosingTyped
      /\ ProviderTyped /\ RestTyped /\ OwnedTyped /\ Core
  BY InvariantParts
<1>1. TicksTyped' /\ ClosingTyped' /\ ProviderTyped' /\ RestTyped' /\ OwnedTyped'
  BY <1>0 DEF RecordFailure, providerVars, TicksTyped, ClosingTyped, ProviderTyped, RestTyped,
         OwnedTyped
<1>2. RowsTyped'
  BY <1>0, FailedRow DEF RecordFailure, RowsTyped
<1>3. CallsTyped'
  BY <1>0 DEF RecordFailure, CallsTyped, Advance
<1>4. \A n \in Messages : /\ row'[n].status = row[n].status
                          /\ row'[n].envelope = row[n].envelope
                          /\ row'[n].template = row[n].template
  BY <1>0, FailedRow DEF RecordFailure, RowsTyped
<1>5. MailedOnce' /\ EnvelopeWhilePending'
  BY <1>0, <1>4 DEF RecordFailure, providerVars, Core, MailedOnce, EnvelopeWhilePending
<1>6. MailedBeforeDelivered'
  BY <1>0, <1>4 DEF RecordFailure, providerVars, Core, MailedBeforeDelivered, CallsTyped, Advance
<1>7. DeliveredAfterCommit'
  BY <1>0, <1>4 DEF RecordFailure, Core, DeliveredAfterCommit, CallsTyped, Advance
<1>8. ClosingHoldsRows'
  <2>1. closing.next # None => closing.next \in Messages /\ job'[Caller][closing.next] = "insert"
    BY <1>0 DEF RecordFailure, Core, ClosingHoldsRows, CallsTyped, ClosingTyped, Advance
  <2> QED
    BY <1>0, <1>4, <2>1 DEF RecordFailure, Core, ClosingHoldsRows, Pending
<1> QED
  BY <1>1, <1>2, <1>3, <1>5, <1>6, <1>7, <1>8, InvariantPartsNext DEF Core

\* A failed statement ends the call, or sends it to its catch block.
LEMMA StatementFailsStep ==
  ASSUME OutboxAssumption, DeliveryIInv, NEW s \in Sources, NEW m \in Messages,
         StatementFails(s, m)
  PROVE  DeliveryIInv'
<1>0. /\ RowsTyped /\ CallsTyped /\ TicksTyped /\ ClosingTyped
      /\ ProviderTyped /\ RestTyped /\ OwnedTyped /\ Core
  BY InvariantParts
<1>1. /\ RowsTyped' /\ TicksTyped' /\ ClosingTyped' /\ ProviderTyped'
      /\ OwnedTyped'
  BY <1>0 DEF StatementFails, Fault, vars, storeVars, providerVars, RowsTyped, TicksTyped,
         ClosingTyped, ProviderTyped, OwnedTyped
<1>2. RestTyped'
  BY <1>0 DEF RestTyped, OutboxAssumption, StatementFails, Fault, vars, storeVars, providerVars
<1>3. CallsTyped' /\ Core'
  BY <1>0, CallKept DEF StatementFails, Fault, vars, storeVars, providerVars
<1> QED
  BY <1>1, <1>2, <1>3, InvariantPartsNext

\* A tick begins.
LEMMA BeginDispatchStep ==
  ASSUME OutboxAssumption, DeliveryIInv, NEW t \in Timers,
         BeginDispatch(t)
  PROVE  DeliveryIInv'
<1>0. /\ RowsTyped /\ CallsTyped /\ TicksTyped /\ ClosingTyped
      /\ ProviderTyped /\ RestTyped /\ OwnedTyped /\ Core
  BY InvariantParts
<1>1. /\ RowsTyped' /\ CallsTyped' /\ ClosingTyped' /\ ProviderTyped'
      /\ RestTyped' /\ OwnedTyped'
  BY <1>0 DEF BeginDispatch, vars, storeVars, providerVars, RowsTyped, CallsTyped,
         ClosingTyped, ProviderTyped, RestTyped, OwnedTyped
<1>2. TicksTyped'
  BY <1>0 DEF TicksTyped, BeginDispatch, vars, storeVars, providerVars
<1>3. Core'
  BY <1>0, CoreKept DEF BeginDispatch, vars, storeVars, providerVars
<1> QED
  BY <1>1, <1>2, <1>3, InvariantPartsNext

\* A sweep is lost.
LEMMA SweepFailsStep ==
  ASSUME OutboxAssumption, DeliveryIInv, NEW t \in Timers, NEW k \in Sweeps,
         SweepFails(t, k)
  PROVE  DeliveryIInv'
<1>0. /\ RowsTyped /\ CallsTyped /\ TicksTyped /\ ClosingTyped
      /\ ProviderTyped /\ RestTyped /\ OwnedTyped /\ Core
  BY InvariantParts
<1>1. /\ RowsTyped' /\ CallsTyped' /\ ClosingTyped' /\ ProviderTyped'
      /\ OwnedTyped'
  BY <1>0 DEF SweepFails, Swept, Fault, vars, storeVars, providerVars, RowsTyped, CallsTyped,
         ClosingTyped, ProviderTyped, OwnedTyped
<1>2. TicksTyped'
  BY <1>0 DEF TicksTyped, SweepFails, Swept, Fault, vars, storeVars, providerVars
<1>3. RestTyped'
  BY <1>0 DEF RestTyped, OutboxAssumption, SweepFails, Swept, Fault, vars, storeVars,
         providerVars
<1>4. Core'
  BY <1>0, CoreKept DEF SweepFails, Swept, Fault, vars, storeVars, providerVars
<1> QED
  BY <1>1, <1>2, <1>3, <1>4, InvariantPartsNext

\* A tick is lost.
LEMMA PickFailsStep ==
  ASSUME OutboxAssumption, DeliveryIInv, NEW t \in Timers,
         PickFails(t)
  PROVE  DeliveryIInv'
<1>0. /\ RowsTyped /\ CallsTyped /\ TicksTyped /\ ClosingTyped
      /\ ProviderTyped /\ RestTyped /\ OwnedTyped /\ Core
  BY InvariantParts
<1>1. /\ RowsTyped' /\ CallsTyped' /\ ClosingTyped' /\ ProviderTyped'
      /\ OwnedTyped'
  BY <1>0 DEF PickFails, NoTick, Fault, vars, storeVars, providerVars, RowsTyped, CallsTyped,
         ClosingTyped, ProviderTyped, OwnedTyped
<1>2. TicksTyped'
  BY <1>0 DEF TicksTyped, PickFails, NoTick, Fault, vars, storeVars, providerVars
<1>3. RestTyped'
  BY <1>0 DEF RestTyped, OutboxAssumption, PickFails, NoTick, Fault, vars, storeVars,
         providerVars
<1>4. Core'
  BY <1>0, CoreKept DEF PickFails, NoTick, Fault, vars, storeVars, providerVars
<1> QED
  BY <1>1, <1>2, <1>3, <1>4, InvariantPartsNext

\* Acceptance changes the Organization only.
LEMMA AcceptInitialOwnerStep ==
  ASSUME OutboxAssumption, DeliveryIInv,
         AcceptInitialOwner
  PROVE  DeliveryIInv'
<1>0. /\ RowsTyped /\ CallsTyped /\ TicksTyped /\ ClosingTyped
      /\ ProviderTyped /\ RestTyped /\ OwnedTyped /\ Core
  BY InvariantParts
<1>1. /\ RowsTyped' /\ CallsTyped' /\ TicksTyped' /\ ClosingTyped'
      /\ ProviderTyped'
  BY <1>0 DEF AcceptInitialOwner, vars, storeVars, providerVars, RowsTyped, CallsTyped,
         TicksTyped, ClosingTyped, ProviderTyped
<1>2. RestTyped'
  BY <1>0 DEF RestTyped, AcceptInitialOwner, vars, storeVars, providerVars
<1>3. OwnedTyped'
  BY <1>0 DEF OwnedTyped, AcceptInitialOwner, vars, storeVars, providerVars
<1>4. Core'
  BY <1>0, CoreKept DEF AcceptInitialOwner, vars, storeVars, providerVars
<1> QED
  BY <1>1, <1>2, <1>3, <1>4, InvariantPartsNext

\* A shutdown stops nothing that has begun.
LEMMA ShutdownStep ==
  ASSUME OutboxAssumption, DeliveryIInv,
         Shutdown
  PROVE  DeliveryIInv'
<1>0. /\ RowsTyped /\ CallsTyped /\ TicksTyped /\ ClosingTyped
      /\ ProviderTyped /\ RestTyped /\ OwnedTyped /\ Core
  BY InvariantParts
<1>1. /\ RowsTyped' /\ CallsTyped' /\ TicksTyped' /\ ClosingTyped'
      /\ ProviderTyped' /\ OwnedTyped'
  BY <1>0 DEF Shutdown, Fault, vars, storeVars, providerVars, RowsTyped, CallsTyped,
         TicksTyped, ClosingTyped, ProviderTyped, OwnedTyped
<1>2. RestTyped'
  BY <1>0 DEF RestTyped, OutboxAssumption, Shutdown, Fault, vars, storeVars, providerVars
<1>3. Core'
  BY <1>0, CoreKept DEF Shutdown, Fault, vars, storeVars, providerVars
<1> QED
  BY <1>1, <1>2, <1>3, InvariantPartsNext

\* A restart begins with no call.
LEMMA RestartStep ==
  ASSUME OutboxAssumption, DeliveryIInv,
         Restart
  PROVE  DeliveryIInv'
<1>0. /\ RowsTyped /\ CallsTyped /\ TicksTyped /\ ClosingTyped
      /\ ProviderTyped /\ RestTyped /\ OwnedTyped /\ Core
  BY InvariantParts
<1>1. /\ RowsTyped' /\ CallsTyped' /\ TicksTyped' /\ ClosingTyped'
      /\ ProviderTyped' /\ OwnedTyped'
  BY <1>0 DEF Restart, vars, storeVars, providerVars, RowsTyped, CallsTyped, TicksTyped,
         ClosingTyped, ProviderTyped, OwnedTyped
<1>2. RestTyped'
  BY <1>0 DEF RestTyped, Restart, vars, storeVars, providerVars
<1>3. Core'
  BY <1>0, CoreKept DEF Restart, vars, storeVars, providerVars
<1> QED
  BY <1>1, <1>2, <1>3, InvariantPartsNext

\* A row is prepared, which nobody else sees.
LEMMA InsertStep ==
  ASSUME OutboxAssumption, DeliveryIInv, NEW m \in Messages,
         NEW template \in Templates, NEW tenant \in BOOLEAN, Insert(m, template, tenant),
         \/ closing' = closing
         \/ closing' = [op |-> "resend", next |-> m,
                        rows |-> {n \in Pending : row[n].template = "INITIAL_OWNER"}]
  PROVE  DeliveryIInv'
<1>0. /\ RowsTyped /\ CallsTyped /\ TicksTyped /\ ClosingTyped
      /\ ProviderTyped /\ RestTyped /\ OwnedTyped /\ Core
  BY InvariantParts
<1>1. /\ RowsTyped'
      /\ \A n \in Messages : row'[n].status = row[n].status /\ row'[n].envelope = row[n].envelope
                                /\ (row'[n].template = None => row[n].template = None)
      /\ row'[m].template # None
  <2> DEFINE rank == Cardinality({n \in Messages : row[n].template # None})
             new  == [row[m] EXCEPT !.template = template, !.tenant = tenant, !.born = rank]
  <2>1. rank \in Nat /\ row[m] \in RowRecord
    BY <1>0, BornNat DEF RowsTyped
  <2>2. row' = [row EXCEPT ![m] = new]
    BY <1>0 DEF RowsTyped, Insert
  <2>3. /\ new \in RowRecord /\ new.template # None
        /\ new.status = row[m].status /\ new.envelope = row[m].envelope
    <3> HIDE DEF rank
    <3> QED
      BY <2>1 DEF RowRecord, OutboxAssumption
  <2> HIDE DEF new
  <2> QED
    BY <1>0, <2>2, <2>3 DEF RowsTyped
<1>2. TicksTyped' /\ ProviderTyped' /\ RestTyped' /\ OwnedTyped'
  BY <1>0 DEF Insert, vars, storeVars, providerVars, TicksTyped, ProviderTyped, RestTyped,
         OwnedTyped
<1>3. CallsTyped'
  BY <1>0 DEF CallsTyped, Insert, Advance, OutboxAssumption
<1>4. ClosingTyped'
  BY <1>0 DEF ClosingTyped, Pending
<1>5. MailedOnce' /\ EnvelopeWhilePending'
  BY <1>0, <1>1 DEF Core, MailedOnce, EnvelopeWhilePending, Insert, vars, storeVars,
         providerVars
<1>6. MailedBeforeDelivered'
  BY <1>0, <1>1 DEF Core, MailedBeforeDelivered, CallsTyped, Insert, Advance, vars, storeVars,
         providerVars
<1>7. row[m].status = "ABSENT" /\ job[Caller][m] = "idle"
  BY <1>0 DEF Core, DeliveredAfterCommit, CallsTyped, Insert
<1>8. DeliveredAfterCommit'
  <2> SUFFICES ASSUME NEW s \in Sources, NEW n \in Messages
               PROVE  /\ row'[n].template = None => row'[n].status = "ABSENT"
                      /\ job'[s][n] = "insert" => row'[n].status = "ABSENT" /\ row'[n].template # None
                      /\ job'[s][n] \in {"read", "send", "mark", "fail"} => row'[n].status # "ABSENT"
    BY DEF DeliveredAfterCommit
  <2>1. CASE s = Caller /\ n = m
    BY <1>0, <1>1, <1>7, <2>1 DEF CallsTyped, Insert, Advance
  <2>2. CASE s # Caller \/ n # m
    <3>1. job'[s][n] = job[s][n]
      BY <1>0, <2>2 DEF CallsTyped, Insert, Advance
    <3> QED
      BY <1>0, <1>1, <3>1 DEF Core, DeliveredAfterCommit
  <2> QED
    BY <2>1, <2>2
<1>9. ClosingHoldsRows'
  <2>1. job'[Caller][m] = "insert" /\ Pending' = Pending
    BY <1>0, <1>1 DEF Insert, Advance, CallsTyped, Pending
  <2>2. CASE closing' = closing
    BY <1>0, <1>7, <2>1, <2>2 DEF Core, ClosingHoldsRows, CallsTyped, Insert, Advance
  <2>3. CASE closing' # closing
    BY <2>1, <2>3 DEF ClosingHoldsRows, Pending
  <2> QED
    BY <2>2, <2>3
<1>10. Core'
  BY <1>5, <1>6, <1>8, <1>9 DEF Core
<1> QED
  BY <1>1, <1>2, <1>3, <1>4, <1>5, <1>6, <1>7, <1>8, <1>9, <1>10, InvariantPartsNext

\* COMMIT: the new row appears, PENDING and with its envelope.
LEMMA CommitInsertStep ==
  ASSUME OutboxAssumption, DeliveryIInv, NEW m \in Messages,
         CommitInsert(m)
  PROVE  DeliveryIInv'
<1>0. /\ RowsTyped /\ CallsTyped /\ TicksTyped /\ ClosingTyped
      /\ ProviderTyped /\ RestTyped /\ OwnedTyped /\ Core
  BY InvariantParts
<1>1. /\ RowsTyped' /\ \A n \in Messages \ {m} : row'[n] = row[n]
      /\ row'[m].status = "PENDING" /\ row'[m].envelope /\ row'[m].template = row[m].template
  BY <1>0, StoredRow DEF RowsTyped, CommitInsert
<1>2. /\ CallsTyped' /\ job'[Caller][m] = "read"
      /\ \A s \in Sources, n \in Messages : s # Caller \/ n # m => job'[s][n] = job[s][n]
  BY <1>0 DEF CallsTyped, CommitInsert, Advance, OutboxAssumption
<1>3. TicksTyped' /\ ClosingTyped' /\ ProviderTyped' /\ RestTyped' /\ OwnedTyped'
  BY <1>0 DEF CommitInsert, vars, storeVars, providerVars, TicksTyped, ClosingTyped,
         ProviderTyped, RestTyped, OwnedTyped
<1>4. row[m].status = "ABSENT" /\ row[m].template # None
  BY <1>0 DEF Core, DeliveredAfterCommit, CommitInsert
<1>5. MailedOnce' /\ EnvelopeWhilePending'
  BY <1>0, <1>1 DEF Core, MailedOnce, EnvelopeWhilePending, CommitInsert, providerVars
<1>6. MailedBeforeDelivered'
  BY <1>0, <1>1, <1>2 DEF Core, MailedBeforeDelivered, CommitInsert, providerVars
<1>7. DeliveredAfterCommit'
  <2> SUFFICES ASSUME NEW s \in Sources, NEW n \in Messages
               PROVE  /\ row'[n].template = None => row'[n].status = "ABSENT"
                      /\ job'[s][n] = "insert" => row'[n].status = "ABSENT" /\ row'[n].template # None
                      /\ job'[s][n] \in {"read", "send", "mark", "fail"} => row'[n].status # "ABSENT"
    BY DEF DeliveredAfterCommit
  <2>1. CASE n # m
    BY <1>0, <1>1, <1>2, <2>1 DEF Core, DeliveredAfterCommit
  <2>2. CASE n = m
    <3>1. job'[s][m] # "insert"
      BY <1>0, <1>2 DEF CallsTyped
    <3> QED
      BY <1>1, <1>4, <2>2, <3>1
  <2> QED
    BY <2>1, <2>2
<1>8. ClosingHoldsRows'
  BY <1>0, <1>1, <1>2 DEF Core, ClosingHoldsRows, ClosingTyped, Pending, CommitInsert
<1> QED
  BY <1>1, <1>2, <1>3, <1>5, <1>6, <1>7, <1>8, InvariantPartsNext DEF Core

\* A Platform transaction locks rows that are PENDING.
LEMMA DisableOrganizationStep ==
  ASSUME OutboxAssumption, DeliveryIInv,
         DisableOrganization
  PROVE  DeliveryIInv'
<1>0. /\ RowsTyped /\ CallsTyped /\ TicksTyped /\ ClosingTyped
      /\ ProviderTyped /\ RestTyped /\ OwnedTyped /\ Core
  BY InvariantParts
<1>1. /\ RowsTyped' /\ CallsTyped' /\ TicksTyped' /\ ProviderTyped'
      /\ RestTyped' /\ OwnedTyped'
  BY <1>0 DEF DisableOrganization, storeVars, providerVars, RowsTyped, CallsTyped, TicksTyped,
         ProviderTyped, RestTyped, OwnedTyped
<1>2. ClosingTyped'
  BY DEF DisableOrganization, ClosingTyped, Pending
<1>3. MailedOnce' /\ MailedBeforeDelivered' /\ EnvelopeWhilePending' /\ DeliveredAfterCommit'
  BY <1>0 DEF Core, MailedOnce, MailedBeforeDelivered, EnvelopeWhilePending,
         DeliveredAfterCommit, DisableOrganization, storeVars, providerVars
<1>4. ClosingHoldsRows'
  BY DEF ClosingHoldsRows, DisableOrganization, storeVars, Pending
<1> QED
  BY <1>1, <1>2, <1>3, <1>4, InvariantPartsNext DEF Core

\* Its COMMIT expires the rows it holds and stores its own message.
LEMMA CommitClosingStep ==
  ASSUME OutboxAssumption, DeliveryIInv,
         CommitClosing
  PROVE  DeliveryIInv'
<1>0. /\ RowsTyped /\ CallsTyped /\ TicksTyped /\ ClosingTyped
      /\ ProviderTyped /\ RestTyped /\ OwnedTyped /\ Core
  BY InvariantParts
<1>1. /\ closing.next # None => closing.next \in Messages /\ row[closing.next].status = "ABSENT"
                                /\ row[closing.next].template # None
      /\ \A n \in closing.rows : n \in Messages /\ row[n].status = "PENDING"
  BY <1>0 DEF Core, ClosingHoldsRows, DeliveredAfterCommit, ClosingTyped, Pending
<1>2. /\ RowsTyped'
      /\ \A n \in Messages :
           /\ row'[n].template = row[n].template
           /\ n \in closing.rows => row'[n].status = "EXPIRED" /\ ~row'[n].envelope
           /\ n = closing.next => row'[n].status = "PENDING" /\ row'[n].envelope
           /\ n \notin closing.rows /\ n # closing.next => row'[n] = row[n]
  <2> SUFFICES ASSUME NEW n \in Messages
               PROVE  /\ row'[n] \in RowRecord
                      /\ row'[n].template = row[n].template
                      /\ n \in closing.rows => row'[n].status = "EXPIRED" /\ ~row'[n].envelope
                      /\ n = closing.next => row'[n].status = "PENDING" /\ row'[n].envelope
                      /\ n \notin closing.rows /\ n # closing.next => row'[n] = row[n]
    BY DEF RowsTyped, CommitClosing
  <2>1. row[n] \in RowRecord
    BY <1>0 DEF RowsTyped
  <2>2. CASE n \in closing.rows
    <3>1. row'[n] = Settled(row[n], "EXPIRED") /\ n # closing.next
      BY <1>1, <2>2 DEF CommitClosing, OutboxAssumption
    <3> QED
      BY <2>1, <2>2, <3>1, SettledRow
  <2>3. CASE n \notin closing.rows /\ n = closing.next
    <3>1. row'[n] = Stored(row[n])
      BY <2>3 DEF CommitClosing
    <3> QED
      BY <2>1, <2>3, <3>1, StoredRow
  <2>4. CASE n \notin closing.rows /\ n # closing.next
    BY <2>1, <2>4 DEF CommitClosing
  <2> QED
    BY <2>2, <2>3, <2>4
<1>3. /\ CallsTyped'
      /\ \A s \in Sources, n \in Messages :
           job'[s][n] = IF s = Caller /\ n = closing.next THEN "read" ELSE job[s][n]
  BY <1>0 DEF CallsTyped, CommitClosing, OutboxAssumption
<1>4. TicksTyped' /\ ClosingTyped' /\ ProviderTyped' /\ RestTyped' /\ OwnedTyped'
  BY <1>0 DEF CommitClosing, NoClosing, storeVars, providerVars, TicksTyped, ClosingTyped,
         ProviderTyped, RestTyped, OwnedTyped
<1>5. MailedOnce' /\ ClosingHoldsRows'
  BY <1>0 DEF Core, MailedOnce, ClosingHoldsRows, NoClosing, CommitClosing, providerVars
<1>6. EnvelopeWhilePending'
  BY <1>0, <1>2 DEF Core, EnvelopeWhilePending
<1>7. MailedBeforeDelivered'
  <2> SUFFICES ASSUME NEW n \in Messages,
                      row'[n].status = "DELIVERED" \/ \E s \in Sources : job'[s][n] = "mark"
               PROVE  n \in keys
    BY DEF MailedBeforeDelivered, CommitClosing, providerVars
  <2>1. row[n].status = "DELIVERED" \/ \E s \in Sources : job[s][n] = "mark"
    BY <1>2, <1>3
  <2> QED
    BY <1>0, <2>1 DEF Core, MailedBeforeDelivered
<1>8. DeliveredAfterCommit'
  <2> SUFFICES ASSUME NEW s \in Sources, NEW n \in Messages
               PROVE  /\ row'[n].template = None => row'[n].status = "ABSENT"
                      /\ job'[s][n] = "insert" => row'[n].status = "ABSENT" /\ row'[n].template # None
                      /\ job'[s][n] \in {"read", "send", "mark", "fail"} => row'[n].status # "ABSENT"
    BY DEF DeliveredAfterCommit
  <2>1. /\ row[n].template = None => row[n].status = "ABSENT"
        /\ job[s][n] = "insert" => row[n].status = "ABSENT" /\ row[n].template # None
        /\ job[s][n] \in {"read", "send", "mark", "fail"} => row[n].status # "ABSENT"
    BY <1>0 DEF Core, DeliveredAfterCommit
  <2>2. CASE n = closing.next
    <3>1. job'[s][n] # "insert"
      BY <1>0, <1>3, <2>2 DEF CallsTyped
    <3> QED
      BY <1>1, <1>2, <2>2, <3>1, OutboxAssumption DEF OutboxAssumption
  <2>3. CASE n \in closing.rows
    BY <1>1, <1>2, <1>3, <2>1, <2>3
  <2>4. CASE n # closing.next /\ n \notin closing.rows
    BY <1>2, <1>3, <2>1, <2>4
  <2> QED
    BY <2>2, <2>3, <2>4
<1> QED
  BY <1>2, <1>3, <1>4, <1>5, <1>6, <1>7, <1>8, InvariantPartsNext DEF Core

\* Its ROLLBACK leaves every row as it was.
LEMMA RollbackClosingStep ==
  ASSUME OutboxAssumption, DeliveryIInv,
         RollbackClosing
  PROVE  DeliveryIInv'
<1>0. /\ RowsTyped /\ CallsTyped /\ TicksTyped /\ ClosingTyped
      /\ ProviderTyped /\ RestTyped /\ OwnedTyped /\ Core
  BY InvariantParts
<1>1. /\ CallsTyped'
      /\ \A s \in Sources, n \in Messages : job'[s][n] \in {"idle", job[s][n]}
  BY <1>0 DEF CallsTyped, RollbackClosing, OutboxAssumption
<1>2. RowsTyped' /\ TicksTyped' /\ ClosingTyped' /\ ProviderTyped' /\ OwnedTyped'
  BY <1>0 DEF RollbackClosing, NoClosing, storeVars, providerVars, RowsTyped, TicksTyped,
         ClosingTyped, ProviderTyped, OwnedTyped
<1>3. RestTyped'
  BY <1>0 DEF RollbackClosing, Fault, storeVars, RestTyped, OutboxAssumption
<1>4. MailedOnce' /\ EnvelopeWhilePending' /\ ClosingHoldsRows'
  BY <1>0 DEF Core, MailedOnce, EnvelopeWhilePending, ClosingHoldsRows, NoClosing,
         RollbackClosing, storeVars, providerVars
<1>5. MailedBeforeDelivered' /\ DeliveredAfterCommit'
  BY <1>0, <1>1 DEF Core, MailedBeforeDelivered, DeliveredAfterCommit, RollbackClosing,
         storeVars, providerVars
<1> QED
  BY <1>1, <1>2, <1>3, <1>4, <1>5, InvariantPartsNext DEF Core

\* The provider mails a key the first time only, and the caller may then mark.
LEMMA ProviderAcceptsStep ==
  ASSUME OutboxAssumption, DeliveryIInv,
         NEW s \in Sources, NEW m \in Messages, NEW answered \in BOOLEAN,
         ProviderAccepts(s, m, answered)
  PROVE  DeliveryIInv'
<1>0. /\ RowsTyped /\ CallsTyped /\ TicksTyped /\ ClosingTyped
      /\ ProviderTyped /\ RestTyped /\ OwnedTyped /\ Core
  BY InvariantParts
<1>1. RowsTyped' /\ TicksTyped' /\ ClosingTyped' /\ RestTyped' /\ OwnedTyped'
  BY <1>0 DEF ProviderAccepts, storeVars, RowsTyped, TicksTyped, ClosingTyped, RestTyped,
         OwnedTyped
<1>2. /\ CallsTyped' /\ job[s][m] = "send" /\ job'[s][m] \in {"mark", "fail"}
      /\ \A c \in Sources, n \in Messages : c # s \/ n # m => job'[c][n] = job[c][n]
  BY <1>0 DEF CallsTyped, ProviderAccepts, Advance
<1>3. keys' = keys \cup {m} /\ ProviderTyped' /\ MailedOnce'
  BY <1>0 DEF ProviderAccepts, DeliveryKey, ProviderTyped, Core, MailedOnce
<1>4. MailedBeforeDelivered'
  BY <1>0, <1>2, <1>3 DEF Core, MailedBeforeDelivered, ProviderAccepts, storeVars
<1>5. EnvelopeWhilePending'
  BY <1>0 DEF Core, EnvelopeWhilePending, ProviderAccepts, storeVars
<1>6. DeliveredAfterCommit'
  BY <1>0, <1>2 DEF Core, DeliveredAfterCommit, ProviderAccepts, storeVars
<1>7. ClosingHoldsRows'
  BY <1>0, <1>2 DEF Core, ClosingHoldsRows, ClosingTyped, Pending, ProviderAccepts, storeVars
<1> QED
  BY <1>1, <1>2, <1>3, <1>4, <1>5, <1>6, <1>7, InvariantPartsNext DEF Core

\* Whoever marks a message has had the provider's answer, and holds no lock.
LEMMA MarkDeliveredStep ==
  ASSUME OutboxAssumption, DeliveryIInv, NEW s \in Sources, NEW m \in Messages,
         MarkDelivered(s, m)
  PROVE  DeliveryIInv'
<1>0. /\ RowsTyped /\ CallsTyped /\ TicksTyped /\ ClosingTyped
      /\ ProviderTyped /\ RestTyped /\ OwnedTyped /\ Core
  BY InvariantParts
<1>1. /\ RowsTyped' /\ \A n \in Messages \ {m} : row'[n] = row[n]
      /\ row'[m].status = "DELIVERED" /\ ~row'[m].envelope /\ row'[m].template = row[m].template
  BY <1>0, SettledRow DEF RowsTyped, MarkDelivered
<1>2. /\ CallsTyped' /\ job[s][m] = "mark" /\ job'[s][m] = "idle"
      /\ \A c \in Sources, n \in Messages : c # s \/ n # m => job'[c][n] = job[c][n]
  BY <1>0 DEF CallsTyped, MarkDelivered, Advance
<1>3. TicksTyped' /\ ClosingTyped' /\ ProviderTyped' /\ RestTyped' /\ OwnedTyped'
  BY <1>0 DEF MarkDelivered, providerVars, TicksTyped, ClosingTyped, ProviderTyped, RestTyped,
         OwnedTyped
<1>4. m \in keys /\ row[m].status # "ABSENT" /\ row[m].template # None
  BY <1>0, <1>2 DEF Core, MailedBeforeDelivered, DeliveredAfterCommit
<1>5. MailedOnce' /\ EnvelopeWhilePending'
  BY <1>0, <1>1 DEF Core, MailedOnce, EnvelopeWhilePending, MarkDelivered, providerVars
<1>6. MailedBeforeDelivered'
  BY <1>0, <1>1, <1>2, <1>4 DEF Core, MailedBeforeDelivered, MarkDelivered, providerVars
<1>7. DeliveredAfterCommit'
  <2> SUFFICES ASSUME NEW c \in Sources, NEW n \in Messages
               PROVE  /\ row'[n].template = None => row'[n].status = "ABSENT"
                      /\ job'[c][n] = "insert" => row'[n].status = "ABSENT" /\ row'[n].template # None
                      /\ job'[c][n] \in {"read", "send", "mark", "fail"} => row'[n].status # "ABSENT"
    BY DEF DeliveredAfterCommit
  <2>1. CASE n # m
    BY <1>0, <1>1, <1>2, <2>1 DEF Core, DeliveredAfterCommit
  <2>2. CASE n = m
    <3>1. job'[c][m] # "insert"
      BY <1>0, <1>2, <1>4 DEF Core, DeliveredAfterCommit
    <3> QED
      BY <1>1, <1>4, <2>2, <3>1
  <2> QED
    BY <2>1, <2>2
<1>8. ClosingHoldsRows'
  BY <1>0, <1>1, <1>2 DEF Core, ClosingHoldsRows, ClosingTyped, Pending, MarkDelivered, Locked
<1> QED
  BY <1>1, <1>2, <1>3, <1>5, <1>6, <1>7, <1>8, InvariantPartsNext DEF Core

\* A sweep expires PENDING rows that nobody has locked.
LEMMA ExpireCredentialEnvelopesStep ==
  ASSUME OutboxAssumption, DeliveryIInv, NEW t \in Timers, NEW k \in Sweeps,
         ExpireCredentialEnvelopes(t, k)
  PROVE  DeliveryIInv'
<1>0. /\ RowsTyped /\ CallsTyped /\ TicksTyped /\ ClosingTyped
      /\ ProviderTyped /\ RestTyped /\ OwnedTyped /\ Core
  BY InvariantParts
<1>1. \A n \in Expirable(k) : row[n].status = "PENDING" /\ n \notin closing.rows
  BY DEF Expirable, Pending, ExpireCredentialEnvelopes, Locked
<1>2. /\ RowsTyped'
      /\ \A n \in Messages :
           /\ row'[n].template = row[n].template
           /\ n \in Expirable(k) => row'[n].status = "EXPIRED" /\ ~row'[n].envelope
           /\ n \notin Expirable(k) => row'[n] = row[n]
  BY <1>0, SettledRow DEF RowsTyped, ExpireCredentialEnvelopes
<1>3. TicksTyped'
  BY <1>0 DEF TicksTyped, ExpireCredentialEnvelopes, Swept
<1>4. CallsTyped' /\ ClosingTyped' /\ ProviderTyped' /\ RestTyped' /\ OwnedTyped'
  BY <1>0 DEF ExpireCredentialEnvelopes, providerVars, CallsTyped, ClosingTyped, ProviderTyped,
         RestTyped, OwnedTyped
<1>5. MailedOnce' /\ EnvelopeWhilePending'
  BY <1>0, <1>2 DEF Core, MailedOnce, EnvelopeWhilePending, ExpireCredentialEnvelopes,
         providerVars
<1>6. MailedBeforeDelivered'
  <2> SUFFICES ASSUME NEW n \in Messages,
                      row'[n].status = "DELIVERED" \/ \E s \in Sources : job[s][n] = "mark"
               PROVE  n \in keys
    BY DEF MailedBeforeDelivered, ExpireCredentialEnvelopes, providerVars
  <2>1. row[n].status = "DELIVERED" \/ \E s \in Sources : job[s][n] = "mark"
    BY <1>2
  <2> QED
    BY <1>0, <2>1 DEF Core, MailedBeforeDelivered
<1>7. DeliveredAfterCommit'
  <2> SUFFICES ASSUME NEW s \in Sources, NEW n \in Messages
               PROVE  /\ row'[n].template = None => row'[n].status = "ABSENT"
                      /\ job[s][n] = "insert" => row'[n].status = "ABSENT" /\ row'[n].template # None
                      /\ job[s][n] \in {"read", "send", "mark", "fail"} => row'[n].status # "ABSENT"
    BY DEF DeliveredAfterCommit, ExpireCredentialEnvelopes
  <2> QED
    BY <1>0, <1>1, <1>2 DEF Core, DeliveredAfterCommit
<1>8. ClosingHoldsRows'
  BY <1>0, <1>1, <1>2 DEF Core, ClosingHoldsRows, ClosingTyped, Pending,
         ExpireCredentialEnvelopes
<1> QED
  BY <1>2, <1>3, <1>4, <1>5, <1>6, <1>7, <1>8, InvariantPartsNext DEF Core

\* The batch is of PENDING messages, which are committed ones.
LEMMA PickBatchStep ==
  ASSUME OutboxAssumption, DeliveryIInv, NEW t \in Timers,
         PickBatch(t)
  PROVE  DeliveryIInv'
<1>0. /\ RowsTyped /\ CallsTyped /\ TicksTyped /\ ClosingTyped
      /\ ProviderTyped /\ RestTyped /\ OwnedTyped /\ Core
  BY InvariantParts
<1>1. /\ CallsTyped'
      /\ \A s \in Sources, n \in Messages :
           job'[s][n] = IF s = t /\ n \in Batch /\ job[s][n] = "idle" THEN "read" ELSE job[s][n]
  BY <1>0 DEF CallsTyped, PickBatch
<1>2. \A n \in Batch : row[n].status = "PENDING"
  BY DEF Batch, Pending
<1>3. RowsTyped' /\ ClosingTyped' /\ ProviderTyped' /\ RestTyped' /\ OwnedTyped'
  BY <1>0 DEF PickBatch, storeVars, providerVars, RowsTyped, ClosingTyped, ProviderTyped,
         RestTyped, OwnedTyped
<1>4. TicksTyped'
  BY <1>0 DEF TicksTyped, PickBatch, NoTick
<1>5. MailedOnce' /\ EnvelopeWhilePending'
  BY <1>0 DEF Core, MailedOnce, EnvelopeWhilePending, PickBatch, storeVars, providerVars
<1>6. MailedBeforeDelivered' /\ DeliveredAfterCommit'
  BY <1>0, <1>1, <1>2 DEF Core, MailedBeforeDelivered, DeliveredAfterCommit, PickBatch,
         storeVars, providerVars
<1>7. ClosingHoldsRows'
  BY <1>0, <1>1 DEF Core, ClosingHoldsRows, ClosingTyped, Pending, PickBatch, storeVars,
         OutboxAssumption
<1> QED
  BY <1>1, <1>3, <1>4, <1>5, <1>6, <1>7, InvariantPartsNext DEF Core

\* Time changes nothing but a row's age.
LEMMA AgeStep ==
  ASSUME OutboxAssumption, DeliveryIInv, NEW m \in Messages,
         Age(m)
  PROVE  DeliveryIInv'
<1>0. /\ RowsTyped /\ CallsTyped /\ TicksTyped /\ ClosingTyped
      /\ ProviderTyped /\ RestTyped /\ OwnedTyped /\ Core
  BY InvariantParts
<1>1. /\ RowsTyped'
      /\ \A n \in Messages : /\ row'[n].status = row[n].status
                             /\ row'[n].envelope = row[n].envelope
                             /\ row'[n].template = row[n].template
  <2>1. row' = [row EXCEPT ![m] = [row[m] EXCEPT !.old = TRUE]]
    BY <1>0 DEF RowsTyped, Age
  <2> QED
    BY <1>0, <2>1, OlderRow DEF RowsTyped
<1>2. /\ CallsTyped' /\ TicksTyped' /\ ClosingTyped' /\ ProviderTyped'
      /\ RestTyped' /\ OwnedTyped'
  BY <1>0 DEF Age, providerVars, CallsTyped, TicksTyped, ClosingTyped, ProviderTyped, RestTyped,
         OwnedTyped
<1>3. MailedOnce' /\ MailedBeforeDelivered' /\ EnvelopeWhilePending' /\ DeliveredAfterCommit'
  BY <1>0, <1>1 DEF Core, MailedOnce, MailedBeforeDelivered, EnvelopeWhilePending,
         DeliveredAfterCommit, Age, providerVars
<1>4. ClosingHoldsRows'
  BY <1>0, <1>1 DEF Core, ClosingHoldsRows, Pending, Age
<1> QED
  BY <1>1, <1>2, <1>3, <1>4, InvariantPartsNext DEF Core

\* The end of the process: no call is left, the rows stay.
LEMMA StopStep ==
  ASSUME OutboxAssumption, DeliveryIInv,
         Stop, faults' \in 0..MaxFaults
  PROVE  DeliveryIInv'
<1>0. /\ RowsTyped /\ CallsTyped /\ TicksTyped /\ ClosingTyped
      /\ ProviderTyped /\ RestTyped /\ OwnedTyped /\ Core
  BY InvariantParts
<1>1. CallsTyped' /\ TicksTyped' /\ ClosingTyped'
  BY DEF CallsTyped, TicksTyped, ClosingTyped, Stop, NoTick, NoClosing
<1>2. RowsTyped' /\ ProviderTyped' /\ RestTyped' /\ OwnedTyped'
  BY <1>0 DEF Stop, storeVars, providerVars, RowsTyped, ProviderTyped, RestTyped, OwnedTyped
<1>3. MailedOnce' /\ EnvelopeWhilePending' /\ ClosingHoldsRows'
  BY <1>0 DEF Core, MailedOnce, EnvelopeWhilePending, ClosingHoldsRows, Stop, NoClosing,
         storeVars, providerVars
<1>4. MailedBeforeDelivered' /\ DeliveredAfterCommit'
  BY <1>0 DEF Core, MailedBeforeDelivered, DeliveredAfterCommit, Stop, storeVars, providerVars
<1> QED
  BY <1>1, <1>2, <1>3, <1>4, InvariantPartsNext DEF Core

LEMMA NextInvariant ==
  ASSUME OutboxAssumption, DeliveryIInv, [Next]_vars
  PROVE  DeliveryIInv'
<1>1. CASE UNCHANGED vars
  <2>1. TypeOK'
    BY <1>1 DEF DeliveryIInv, TypeOK, vars, storeVars, providerVars
  <2>2. Core'
    BY <1>1, CoreKept DEF DeliveryIInv, Core, vars, storeVars, providerVars
  <2> QED
    BY <2>1, <2>2 DEF DeliveryIInv, Core
<1>2. ASSUME NEW m \in Messages, Store(m)
      PROVE  DeliveryIInv'
  <2>1. CASE CreateOrganization(m)
    BY <2>1, InsertStep DEF CreateOrganization
  <2>2. CASE Invite(m)
    BY <2>2, InsertStep DEF Invite
  <2>3. CASE ResendInvitation(m)
    <3>1. /\ Insert(m, "INITIAL_OWNER", TRUE)
          /\ closing' = [op |-> "resend", next |-> m,
                         rows |-> {n \in Pending : row[n].template = "INITIAL_OWNER"}]
      BY <2>3 DEF ResendInvitation
    <3> QED
      BY <3>1, InsertStep
  <2>4. ASSUME NEW tenant \in BOOLEAN, RequestPasswordReset(m, tenant)
        PROVE  DeliveryIInv'
    BY <2>4, InsertStep DEF RequestPasswordReset
  <2> QED
    BY <1>2, <2>1, <2>2, <2>3, <2>4, CommitInsertStep, RollbackInsertStep DEF Store
<1>3. CASE Close
  BY <1>3, DisableOrganizationStep, CommitClosingStep, RollbackClosingStep,
     AcceptInitialOwnerStep DEF Close
<1>4. ASSUME NEW s \in Sources, NEW m \in Messages, DeliverStep(s, m) \/ StatementFails(s, m)
      PROVE  DeliveryIInv'
  BY <1>4, ReadMessageStep, ProviderRefusesStep, ProviderAcceptsStep, MarkDeliveredStep,
     RecordFailureStep, StatementFailsStep DEF DeliverStep, Send
<1>5. ASSUME NEW t \in Timers, Dispatch(t)
      PROVE  DeliveryIInv'
  BY <1>5, BeginDispatchStep, PickBatchStep, PickFailsStep, ExpireCredentialEnvelopesStep,
     SweepFailsStep DEF Dispatch
<1>6. CASE Environment
  <2>1. faults \in 0..MaxFaults
    BY DEF DeliveryIInv, TypeOK
  <2>2. CASE Crash
    <3>1. faults' \in 0..MaxFaults
      BY <2>1, <2>2 DEF Crash, Fault, OutboxAssumption
    <3> QED
      BY <2>2, <3>1, StopStep DEF Crash
  <2>3. CASE Exit
    BY <2>1, <2>3, StopStep DEF Exit
  <2> QED
    BY <1>6, <2>2, <2>3, AgeStep, ShutdownStep, RestartStep DEF Environment
<1> QED
  BY <1>1, <1>2, <1>3, <1>4, <1>5, <1>6 DEF Next

\* Among messages, requests, ticks, crashes and restarts however interleaved:
\* a message is mailed at most once, is recorded DELIVERED only after its mail,
\* keeps its envelope exactly while it is PENDING, is delivered by nobody before
\* the commit that stores it, and stays PENDING while a Platform transaction
\* holds it (notification.service.ts:84-193).
THEOREM DeliveryInvariant == Spec => []DeliveryIInv
<1>1. Init => DeliveryIInv
  BY OutboxAssumption, InitInvariant
<1>2. DeliveryIInv /\ [Next]_vars => DeliveryIInv'
  BY OutboxAssumption, NextInvariant
<1> QED
  BY <1>1, <1>2, PTL DEF Spec

-----------------------------------------------------------------------------
(***************************************************************************)
(* The outbox is a Mailbox.                                                *)
(***************************************************************************)
\* What a Mailbox sees of a step.
Unseen ==
  /\ \A m \in Messages : row'[m].status = row[m].status
  /\ mails' = mails

LEMMA UnseenStutters ==
  ASSUME Unseen
  PROVE  UNCHANGED MB!mailboxVars
BY DEF Unseen, MB!mailboxVars

\* Preparing a row leaves its status alone.
LEMMA InsertUnseen ==
  ASSUME DeliveryIInv, NEW m \in Messages, NEW template \in Templates,
         NEW tenant \in BOOLEAN, Insert(m, template, tenant)
  PROVE  Unseen
<1> DEFINE rank == Cardinality({n \in Messages : row[n].template # None})
           new  == [row[m] EXCEPT !.template = template, !.tenant = tenant, !.born = rank]
<1>0. row \in [Messages -> RowRecord]
  BY DEF DeliveryIInv, TypeOK
<1>1. row' = [row EXCEPT ![m] = new]
  BY <1>0 DEF Insert
<1>2. new.status = row[m].status
  <2> HIDE DEF rank
  <2> QED
    BY <1>0 DEF RowRecord
<1> HIDE DEF new
<1> QED
  BY <1>0, <1>1, <1>2 DEF Unseen, Insert, providerVars

LEMMA StoreUnseen ==
  ASSUME DeliveryIInv, NEW m \in Messages, Store(m), ~CommitInsert(m)
  PROVE  Unseen
<1>1. CASE RollbackInsert(m)
  BY <1>1 DEF RollbackInsert, storeVars, providerVars, Unseen
<1>2. CASE ~RollbackInsert(m)
  BY <1>2, InsertUnseen DEF Store, CreateOrganization, Invite, ResendInvitation,
         RequestPasswordReset
<1> QED
  BY <1>1, <1>2

\* COMMIT of a new message.
LEMMA CommitInsertMaps ==
  ASSUME DeliveryIInv, NEW m \in Messages, CommitInsert(m)
  PROVE  MB!Next
<1>0. row \in [Messages -> RowRecord] /\ DeliveredAfterCommit
  BY DEF DeliveryIInv, TypeOK
<1>1. row[m].status = "ABSENT"
  BY <1>0 DEF DeliveredAfterCommit, CommitInsert
<1>2. /\ row'[m].status = "PENDING" /\ mails' = mails
      /\ \A n \in Messages \ {m} : row'[n] = row[n]
  BY <1>0, StoredRow DEF CommitInsert, providerVars
<1>3. MB!Change({m}, {})
  BY <1>1, <1>2 DEF MB!Change
<1> QED
  BY <1>3 DEF MB!Next

\* COMMIT of a Platform transaction: one message stored, or none, and the
\* PENDING ones it holds expired.
LEMMA CommitClosingMaps ==
  ASSUME OutboxAssumption, DeliveryIInv, CommitClosing
  PROVE  MB!Next
<1> DEFINE new == IF closing.next = None THEN {} ELSE {closing.next}
<1>0. /\ row \in [Messages -> RowRecord] /\ DeliveredAfterCommit /\ ClosingHoldsRows
      /\ closing.rows \subseteq Messages /\ closing.next \in Messages \cup {None}
  BY DEF DeliveryIInv, TypeOK
<1>1. /\ new \subseteq Messages /\ \A n \in new : row[n].status = "ABSENT"
      /\ \A n \in closing.rows : row[n].status = "PENDING"
  BY <1>0 DEF DeliveredAfterCommit, ClosingHoldsRows, Pending
<1>2. ASSUME NEW n \in Messages
      PROVE  row'[n].status = CASE n \in new -> "PENDING"
                                [] n \in closing.rows -> "EXPIRED"
                                [] OTHER -> row[n].status
  <2>1. row[n] \in RowRecord
    BY <1>0
  <2>2. CASE n \in new
    <3>1. n \notin closing.rows /\ n = closing.next
      BY <1>1, <2>2
    <3>2. row'[n] = Stored(row[n])
      BY <3>1 DEF CommitClosing
    <3>3. row'[n].status = "PENDING"
      BY <2>1, <3>2, StoredRow
    <3> HIDE DEF new
    <3> QED
      BY <2>2, <3>1, <3>3
  <2>3. CASE n \notin new /\ n \in closing.rows
    <3>1. row'[n] = Settled(row[n], "EXPIRED")
      BY <2>3 DEF CommitClosing
    <3> QED
      BY <2>1, <2>3, <3>1, SettledRow
  <2>4. CASE n \notin new /\ n \notin closing.rows
    <3>1. n # closing.next
      BY <2>4 DEF OutboxAssumption
    <3> QED
      BY <2>4, <3>1 DEF CommitClosing
  <2> QED
    BY <2>2, <2>3, <2>4
<1>3. closing.rows \in SUBSET Messages /\ new \in SUBSET Messages
  BY <1>0, <1>1
<1> HIDE DEF new
<1>4. PICK stored \in SUBSET Messages, S \in SUBSET Messages : stored = new /\ S = closing.rows
  BY <1>3
<1>5. MB!Change(stored, S)
  BY <1>0, <1>1, <1>2, <1>4 DEF MB!Change, MB!Pending, CommitClosing, providerVars
<1> QED
  BY <1>5 DEF MB!Next

\* A sweep expires PENDING messages.
LEMMA ExpireMaps ==
  ASSUME DeliveryIInv, NEW t \in Timers, NEW k \in Sweeps, ExpireCredentialEnvelopes(t, k)
  PROVE  MB!Next
<1>0. row \in [Messages -> RowRecord]
  BY DEF DeliveryIInv, TypeOK
<1>1. Expirable(k) \in SUBSET Messages /\ \A n \in Expirable(k) : row[n].status = "PENDING"
  BY DEF Expirable, Pending
<1>2. \A n \in Messages : row'[n].status = IF n \in Expirable(k) THEN "EXPIRED" ELSE row[n].status
  BY <1>0, SettledRow DEF ExpireCredentialEnvelopes
<1>3. PICK S \in SUBSET Messages : S = Expirable(k)
  BY <1>1
<1>4. MB!Change({}, S)
  BY <1>1, <1>2, <1>3 DEF MB!Change, MB!Pending, ExpireCredentialEnvelopes, providerVars
<1> QED
  BY <1>4 DEF MB!Next

\* The provider mails a message, or has done so before.
LEMMA ProviderAcceptsMaps ==
  ASSUME DeliveryIInv, NEW s \in Sources, NEW m \in Messages, NEW answered \in BOOLEAN,
         ProviderAccepts(s, m, answered)
  PROVE  MB!Next \/ Unseen
<1>0. /\ MailedOnce /\ DeliveredAfterCommit /\ mails \in [Messages -> Nat]
  BY DEF DeliveryIInv, TypeOK
<1>1. row' = row /\ row[m].status # "ABSENT"
  BY <1>0 DEF ProviderAccepts, storeVars, DeliveredAfterCommit
<1>2. CASE m \in keys
  BY <1>1, <1>2 DEF ProviderAccepts, DeliveryKey, Unseen
<1>3. CASE m \notin keys
  <2>1. mails[m] = 0
    BY <1>0, <1>3 DEF MailedOnce
  <2>2. mails' = [mails EXCEPT ![m] = mails[m] + 1]
    BY <1>3 DEF ProviderAccepts, DeliveryKey
  <2>3. mails' = [mails EXCEPT ![m] = 1]
    BY <2>1, <2>2
  <2>4. MB!Mail(m)
    BY <1>1, <2>1, <2>3 DEF MB!Mail
  <2> QED
    BY <2>4 DEF MB!Next
<1> QED
  BY <1>2, <1>3

\* A message is marked, or has been marked by another call.
LEMMA MarkDeliveredMaps ==
  ASSUME DeliveryIInv, NEW s \in Sources, NEW m \in Messages, MarkDelivered(s, m)
  PROVE  MB!Next \/ Unseen
<1>0. /\ MailedOnce /\ MailedBeforeDelivered /\ DeliveredAfterCommit
      /\ row \in [Messages -> RowRecord]
  BY DEF DeliveryIInv, TypeOK
<1>1. m \in keys /\ mails[m] = 1 /\ row[m].status # "ABSENT"
  BY <1>0 DEF MarkDelivered, MailedOnce, MailedBeforeDelivered, DeliveredAfterCommit
<1>2. /\ row'[m].status = "DELIVERED" /\ mails' = mails
      /\ \A n \in Messages \ {m} : row'[n] = row[n]
  BY <1>0, SettledRow DEF MarkDelivered, providerVars
<1>3. CASE row[m].status = "DELIVERED"
  BY <1>2, <1>3 DEF Unseen
<1>4. CASE row[m].status # "DELIVERED"
  <2>1. row[m].status \in {"PENDING", "EXPIRED"}
    BY <1>0, <1>1, <1>4 DEF RowRecord
  <2>2. MB!Deliver(m)
    BY <1>1, <1>2, <2>1 DEF MB!Deliver
  <2> QED
    BY <2>2 DEF MB!Next
<1> QED
  BY <1>3, <1>4

\* A failure is recorded.
LEMMA RecordFailureUnseen ==
  ASSUME DeliveryIInv, NEW s \in Sources, NEW m \in Messages, RecordFailure(s, m)
  PROVE  Unseen
<1>0. row \in [Messages -> RowRecord]
  BY DEF DeliveryIInv, TypeOK
<1> QED
  BY <1>0, FailedRow DEF RecordFailure, Unseen, providerVars

\* A message grows old.
LEMMA AgeUnseen ==
  ASSUME DeliveryIInv, NEW m \in Messages, Age(m)
  PROVE  Unseen
<1>0. row \in [Messages -> RowRecord]
  BY DEF DeliveryIInv, TypeOK
<1> QED
  BY <1>0, OlderRow DEF Age, Unseen, providerVars

LEMMA NextMaps ==
  ASSUME OutboxAssumption, DeliveryIInv, [Next]_vars
  PROVE  MB!Next \/ UNCHANGED MB!mailboxVars
<1> SUFFICES MB!Next \/ Unseen
  BY UnseenStutters
<1>1. CASE UNCHANGED vars
  BY <1>1 DEF vars, storeVars, providerVars, Unseen
<1>2. ASSUME NEW m \in Messages, Store(m)
      PROVE  MB!Next \/ Unseen
  BY <1>2, StoreUnseen, CommitInsertMaps
<1>3. CASE Close
  <2>1. CASE CommitClosing
    BY <2>1, CommitClosingMaps
  <2>2. CASE ~CommitClosing
    BY <1>3, <2>2 DEF Close, DisableOrganization, RollbackClosing, AcceptInitialOwner,
           storeVars, providerVars, Unseen
  <2> QED
    BY <2>1, <2>2
<1>4. ASSUME NEW s \in Sources, NEW m \in Messages, DeliverStep(s, m) \/ StatementFails(s, m)
      PROVE  MB!Next \/ Unseen
  <2>1. CASE ReadMessage(s, m) \/ ProviderRefuses(s, m) \/ StatementFails(s, m)
    BY <2>1 DEF ReadMessage, ProviderRefuses, StatementFails, storeVars, providerVars, Unseen
  <2> QED
    BY <1>4, <2>1, ProviderAcceptsMaps, MarkDeliveredMaps, RecordFailureUnseen
       DEF DeliverStep, Send
<1>5. ASSUME NEW t \in Timers, Dispatch(t)
      PROVE  MB!Next \/ Unseen
  <2>1. CASE BeginDispatch(t) \/ PickBatch(t) \/ PickFails(t) \/ \E k \in Sweeps : SweepFails(t, k)
    BY <2>1 DEF BeginDispatch, PickBatch, PickFails, SweepFails, storeVars, providerVars, Unseen
  <2> QED
    BY <1>5, <2>1, ExpireMaps DEF Dispatch
<1>6. CASE Environment
  <2>1. CASE Shutdown \/ Crash \/ Exit \/ Restart
    BY <2>1 DEF Shutdown, Crash, Exit, Stop, Restart, storeVars, providerVars, Unseen
  <2> QED
    BY <1>6, <2>1, AgeUnseen DEF Environment
<1> QED
  BY <1>1, <1>2, <1>3, <1>4, <1>5, <1>6 DEF Next

\* NotificationService and the transactions around it implement Mailbox: every
\* message is stored once, mailed at most once, DELIVERED only after its mail
\* and for good, and EXPIRED only from PENDING.
THEOREM OutboxIsMailbox == Spec => ImplementsMailbox
<1>1. Init => MB!Init
  BY DEF Init, MB!Init, NoRow
<1>2. DeliveryIInv /\ [Next]_vars => [MB!Next]_MB!mailboxVars
  BY OutboxAssumption, NextMaps
<1> QED
  BY <1>1, <1>2, DeliveryInvariant, PTL DEF Spec, MB!Spec, ImplementsMailbox

-----------------------------------------------------------------------------
(***************************************************************************)
(* A settled message that no call is sending stays as it is, but for a     *)
(* failure that a call records late.                                       *)
(***************************************************************************)
Kept(m) == Quiet(m)' /\ mails'[m] = mails[m] /\ (row'[m] = row[m] \/ RecordedLate(m))

\* It is kept by a step that touches neither its row nor its mails, and takes
\* no call of it to the provider or to its UPDATE.
LEMMA KeptIf ==
  ASSUME NEW m \in Messages, Quiet(m), row'[m] = row[m], mails'[m] = mails[m],
         \A s \in Sources : job'[s][m] = job[s][m] \/ job'[s][m] \notin {"send", "mark"}
  PROVE  Kept(m)
BY DEF Kept, Quiet

LEMMA StoreKeeps ==
  ASSUME DeliveryIInv, NEW m \in Messages, Quiet(m), NEW n \in Messages, Store(n)
  PROVE  Kept(m)
<1>0. /\ row \in [Messages -> RowRecord] /\ job \in [Sources -> [Messages -> Steps]]
      /\ DeliveredAfterCommit
  BY DEF DeliveryIInv, TypeOK
<1>1. CASE n = m
  <2>1. row[m].template # None /\ job[Caller][m] # "insert"
    BY <1>0 DEF Quiet, DeliveredAfterCommit
  <2> QED
    BY <1>1, <2>1 DEF Store, CreateOrganization, Invite, ResendInvitation, RequestPasswordReset,
           Insert, CommitInsert, RollbackInsert
<1>2. CASE n # m
  <2>1. row'[m] = row[m] /\ mails' = mails
    BY <1>0, <1>2 DEF Store, CreateOrganization, Invite, ResendInvitation, RequestPasswordReset,
           Insert, CommitInsert, RollbackInsert, storeVars, providerVars
  <2>2. \E step : Advance(Caller, n, step)
    BY DEF Store, CreateOrganization, Invite, ResendInvitation, RequestPasswordReset, Insert,
           CommitInsert, RollbackInsert
  <2>3. \A s \in Sources : job'[s][m] = job[s][m]
    BY <1>0, <1>2, <2>2 DEF Advance
  <2> QED
    BY <2>1, <2>3, KeptIf
<1> QED
  BY <1>1, <1>2

LEMMA CloseKeeps ==
  ASSUME OutboxAssumption, DeliveryIInv, NEW m \in Messages, Quiet(m), Close
  PROVE  Kept(m)
<1>0. /\ job \in [Sources -> [Messages -> Steps]]
      /\ DeliveredAfterCommit /\ ClosingHoldsRows
  BY DEF DeliveryIInv, TypeOK
<1>1. CASE DisableOrganization \/ AcceptInitialOwner
  BY <1>1, KeptIf DEF DisableOrganization, AcceptInitialOwner, storeVars, providerVars
<1>2. CASE RollbackClosing
  BY <1>0, <1>2, KeptIf DEF RollbackClosing, storeVars, providerVars
<1>3. CASE CommitClosing
  <2>1. m \notin closing.rows /\ m # closing.next
    BY <1>0 DEF Quiet, ClosingHoldsRows, DeliveredAfterCommit, Pending, OutboxAssumption
  <2>2. row'[m] = row[m] /\ mails' = mails
    BY <1>3, <2>1 DEF CommitClosing, providerVars
  <2>3. \A s \in Sources : job'[s][m] = job[s][m]
    BY <1>0, <1>3, <2>1 DEF CommitClosing
  <2> QED
    BY <2>2, <2>3, KeptIf
<1> QED
  BY <1>1, <1>2, <1>3 DEF Close

LEMMA DeliverKeeps ==
  ASSUME DeliveryIInv, NEW m \in Messages, Quiet(m),
         NEW s \in Sources, NEW n \in Messages, DeliverStep(s, n) \/ StatementFails(s, n)
  PROVE  Kept(m)
<1>0. /\ job \in [Sources -> [Messages -> Steps]] /\ row \in [Messages -> RowRecord]
      /\ mails \in [Messages -> Nat]
  BY DEF DeliveryIInv, TypeOK
<1>1. CASE n = m
  <2>1. row[m].status # "PENDING" /\ job[s][m] \notin {"send", "mark"}
    BY DEF Quiet
  <2>2. CASE ReadMessage(s, m)
    <3>1. Advance(s, m, "idle") /\ UNCHANGED <<row, mails>>
      BY <2>1, <2>2 DEF ReadMessage, storeVars, providerVars
    <3> QED
      BY <1>0, <3>1, KeptIf DEF Advance
  <2>3. CASE RecordFailure(s, m)
    <3>1. row'[m] = FailureRecorded(row[m]) /\ row'[m].status = row[m].status
      BY <1>0, <1>1, <2>3, FailedRow DEF RecordFailure
    <3>2. /\ job[s][m] = "fail" /\ job'[s][m] = "idle" /\ mails' = mails
          /\ \A r \in Sources \ {s} : job'[r][m] = job[r][m]
      BY <1>0, <1>1, <2>3 DEF RecordFailure, Advance, providerVars
    <3> QED
      BY <3>1, <3>2 DEF Kept, Quiet, RecordedLate
  <2>4. CASE StatementFails(s, m)
    BY <1>0, <2>1, <2>4, KeptIf DEF StatementFails, Advance, storeVars, providerVars
  <2>5. ~Send(s, m) /\ ~MarkDelivered(s, m)
    BY <2>1 DEF Send, ProviderAccepts, ProviderRefuses, MarkDelivered
  <2> QED
    BY <1>1, <2>2, <2>3, <2>4, <2>5 DEF DeliverStep
<1>2. CASE n # m
  <2>1. row'[m] = row[m]
    BY <1>0, <1>2 DEF DeliverStep, Send, StatementFails, ReadMessage, ProviderAccepts,
           ProviderRefuses, MarkDelivered, RecordFailure, storeVars
  <2>2. mails'[m] = mails[m]
    BY <1>0, <1>2 DEF DeliverStep, Send, StatementFails, ReadMessage, ProviderAccepts,
           ProviderRefuses, MarkDelivered, RecordFailure, providerVars
  <2>3. \A r \in Sources : job'[r][m] = job[r][m]
    BY <1>0, <1>2 DEF DeliverStep, Send, StatementFails, ReadMessage, ProviderAccepts,
           ProviderRefuses, MarkDelivered, RecordFailure, Advance
  <2> QED
    BY <2>1, <2>2, <2>3, KeptIf
<1> QED
  BY <1>1, <1>2

LEMMA DispatchKeeps ==
  ASSUME DeliveryIInv, NEW m \in Messages, Quiet(m), NEW t \in Timers, Dispatch(t)
  PROVE  Kept(m)
<1>0. job \in [Sources -> [Messages -> Steps]]
  BY DEF DeliveryIInv, TypeOK
<1>1. CASE BeginDispatch(t) \/ PickFails(t) \/ \E k \in Sweeps : SweepFails(t, k)
  BY <1>1, KeptIf DEF BeginDispatch, PickFails, SweepFails, storeVars, providerVars
<1>2. ASSUME NEW k \in Sweeps, ExpireCredentialEnvelopes(t, k)
      PROVE  Kept(m)
  <2>1. m \notin Expirable(k)
    BY DEF Expirable, Pending, Quiet
  <2> QED
    BY <1>2, <2>1, KeptIf DEF ExpireCredentialEnvelopes, providerVars
<1>3. CASE PickBatch(t)
  <2>1. \A s \in Sources : job'[s][m] = job[s][m] \/ job'[s][m] = "read"
    BY <1>0, <1>3 DEF PickBatch
  <2> QED
    BY <1>3, <2>1, KeptIf DEF PickBatch, storeVars, providerVars
<1> QED
  BY <1>1, <1>2, <1>3 DEF Dispatch

LEMMA EnvironmentKeeps ==
  ASSUME DeliveryIInv, NEW m \in Messages, Quiet(m), Environment
  PROVE  Kept(m)
<1>0. row \in [Messages -> RowRecord]
  BY DEF DeliveryIInv, TypeOK
<1>1. ASSUME NEW n \in Messages, Age(n)
      PROVE  Kept(m)
  <2>1. n # m
    BY <1>1 DEF Age, Pending, Quiet
  <2> QED
    BY <1>0, <1>1, <2>1, KeptIf DEF Age, providerVars
<1>2. CASE Shutdown \/ Restart
  BY <1>2, KeptIf DEF Shutdown, Restart, storeVars, providerVars
<1>3. CASE Stop
  BY <1>3, KeptIf DEF Stop, storeVars, providerVars
<1> QED
  BY <1>1, <1>2, <1>3 DEF Environment, Crash, Exit

\* No tick, restart or closing transaction mails a settled message that no call is
\* sending, or writes its row; a call that has failed may still record its failure
\* there, and nothing else (notification.service.ts:84-90, 121-129, 130-193).
THEOREM SettledStaysFinal == Spec => SettledIsFinal
<1>1. ASSUME DeliveryIInv, Next
      PROVE  \A m \in Messages : Quiet(m) => Kept(m)
  <2> SUFFICES ASSUME NEW m \in Messages, Quiet(m)
               PROVE  Kept(m)
    OBVIOUS
  <2> QED
    BY <1>1, OutboxAssumption, StoreKeeps, CloseKeeps, DeliverKeeps, DispatchKeeps,
       EnvironmentKeeps DEF Next
<1>2. DeliveryIInv /\ [Next]_vars =>
        [\A m \in Messages :
           Quiet(m) => /\ Quiet(m)' /\ mails'[m] = mails[m]
                       /\ row'[m] = row[m] \/ RecordedLate(m)]_vars
  BY <1>1 DEF Kept
<1> QED
  BY <1>2, DeliveryInvariant, PTL DEF Spec, SettledIsFinal
=============================================================================
