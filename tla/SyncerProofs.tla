------------------------------ MODULE SyncerProofs ------------------------------
(***************************************************************************)
(* Theorems about Syncer, for any validators, operators, duties and        *)
(* drafts, any number of epochs, and either backend where not said         *)
(* otherwise.                                                              *)
(*                                                                         *)
(* SyncerInv is what the composition with the API keeps too; EpochInv and  *)
(* LookedOver are about the syncer's own bookkeeping.                      *)
(***************************************************************************)
EXTENDS Syncer, TLAPS

Active == {"lookahead", "validators", "operators", "commit"}

(* What the task holds at each of its awaits.                              *)
PhaseInv ==
    /\ pc # "validators" => entries = {}
    /\ pc \notin {"validators", "operators"} => operators = {}
    /\ pc = "validators" => operators = OperatorsOf(entries)
    /\ \A v \in entries : SourceOperator[v] # NoOperator
    /\ pc \in {"lookahead", "validators", "operators"} => epoch <= transition
    /\ pc \in Active => tx.open
    /\ pc \notin Active => tx = NoTx
    /\ state = "Synced" => pc \in {"start", "subscribe", "stream", "ended"}

(* Every validator the syncer registered has its operator registered, or   *)
(* about to be, on the memory backend, which shows what is halfway.        *)
OperatorsFollow ==
    \A v \in Synced(db) :
        db.registrations[v].operator \in
            db.operators \cup (IF Backend = "memory" THEN operators ELSE {})

(* The same of the rows in an open transaction, which are new to the       *)
(* database.  The memory backend has nothing there.                        *)
TransactionInv ==
    /\ Backend = "memory" => tx \in {NoTx, OpenTx}
    /\ tx.aborted => tx = AbortedTx
    /\ \A v \in TxRegistered(tx) :
         /\ tx.registrations[v].origin = "sync"
         /\ tx.registrations[v].operator \in db.operators \cup tx.operators \cup operators
         /\ db.registrations[v] = NoRegistration

SyncerInv == SyncerTypeOK /\ PhaseInv /\ OperatorsFollow /\ TransactionInv

-------------------------------------------------------------------------------
(* The operators of RegistryDb.                                            *)

(* Rounding a proposal slot to its epoch stays within the bound.           *)
LEMMA EpochOfSlot ==
    ASSUME NEW p \in ProposalSlots
    PROVE  EpochOf(p) \in Epochs
<1> USE SyncerAssumption, MaxEpochAssumption
<1>1. ASSUME NEW x \in Nat, NEW n \in Nat, NEW s \in Nat \ {0}, x + 1 <= (n + 1) * s
      PROVE  x \div s \in Nat /\ x \div s <= n
  BY <1>1, SMT
<1>2. p - 1 \in Nat /\ (p - 1) + 1 <= (MaxEpoch + 1) * SlotsPerEpoch
  BY DEF ProposalSlots
<1> QED
  BY <1>1, <1>2 DEF EpochOf, Epochs

(* What the syncer registers is a batch of registrations.                  *)
LEMMA SyncBatchType ==
    ASSUME NEW vs \in SUBSET Validators, \A v \in vs : SourceOperator[v] # NoOperator
    PROVE  /\ SyncRegistrations(vs) \in [vs -> Registration]
           /\ OperatorsOf(vs) \subseteq Operators
BY SyncerAssumption DEF SyncRegistrations, OperatorsOf, Registration

(* Inserting a batch and removing validators keep the type.                *)
LEMMA InsertType ==
    ASSUME NEW r \in [Validators -> Registration \cup {NoRegistration}],
           NEW vs \in SUBSET Validators, NEW b \in [vs -> Registration]
    PROVE  /\ Insert(r, b) \in [Validators -> Registration \cup {NoRegistration}]
           /\ Remove(r, vs) \in [Validators -> Registration \cup {NoRegistration}]
BY DEF Insert, Remove

(* The starting points of database and transaction are well typed.         *)
LEMMA EmptyTypes ==
    /\ NoTx \in TxState /\ OpenTx \in TxState /\ AbortedTx \in TxState
    /\ FreshDb \in DbState /\ FreshDb.registrations = NoRegistrations
    /\ FreshDb.operators = {}
    /\ FreshDb.syncState = IF Backend = "memory" THEN {0} ELSE {}
    /\ TxRegistered(NoTx) = {} /\ TxRegistered(OpenTx) = {} /\ TxRegistered(AbortedTx) = {}
    /\ OpenTx.open /\ AbortedTx.open /\ ~NoTx.open
    /\ AbortedTx.aborted /\ ~OpenTx.aborted /\ ~NoTx.aborted
    /\ OpenTx.operators = {} /\ NoTx.operators = {} /\ AbortedTx.operators = {}
<1> USE MaxEpochAssumption
<1>1. NoRegistrations \in [Validators -> Registration \cup {NoRegistration}]
  BY DEF NoRegistrations
<1>2. NoTx \in TxState /\ OpenTx \in TxState /\ AbortedTx \in TxState
  BY <1>1 DEF NoTx, OpenTx, AbortedTx, TxState
<1>3. FreshDb \in DbState /\ FreshDb.registrations = NoRegistrations
      /\ FreshDb.operators = {}
      /\ FreshDb.syncState = IF Backend = "memory" THEN {0} ELSE {}
  BY <1>1 DEF FreshDb, EmptyDb, DbState, Epochs
<1> QED
  BY <1>2, <1>3 DEF NoTx, OpenTx, AbortedTx, TxRegistered, NoRegistrations

-------------------------------------------------------------------------------
(* SyncerInv is inductive.                                                 *)

(* The initial states satisfy it.                                          *)
LEMMA InitSyncerInv == SyncerInit => SyncerInv
<1> SUFFICES ASSUME SyncerInit PROVE SyncerInv
  OBVIOUS
<1> USE MaxEpochAssumption, EmptyTypes
<1>1. db \in DbState /\ db.registrations = NoRegistrations
  <2>1. CASE db = FreshDb
    BY <2>1
  <2>2. ASSUME NEW e \in Epochs, db = [FreshDb EXCEPT !.syncState = {e}]
        PROVE  db \in DbState /\ db.registrations = NoRegistrations
    BY <2>2 DEF DbState
  <2> QED
    BY <2>1, <2>2 DEF SyncerInit, StartTask
<1>2. covered \subseteq Epochs
  <2>1. covered = {} \/ \E e \in Epochs : covered = 0 .. e
    BY Zenon DEF SyncerInit
  <2> QED
    BY <2>1 DEF Epochs
<1>3. /\ pc = "start" /\ state = "Synced" /\ last_epoch = 0
      /\ stream = [epoch |-> 0, proposal_slot |-> 0]
      /\ transition = 0 /\ epoch = 0 /\ entries = {} /\ operators = {}
      /\ visited = {} /\ tx = NoTx
  BY DEF SyncerInit, StartTask
<1>4. SyncerTypeOK
  BY <1>1, <1>2, <1>3 DEF SyncerTypeOK, Locations, Epochs
<1>5. Synced(db) = {}
  BY <1>1, NoRegistrationAssumption DEF Synced, Registered, NoRegistrations
<1> QED
  BY <1>3, <1>4, <1>5 DEF SyncerInv, PhaseInv, OperatorsFollow, TransactionInv, Active, AbortedTx

(* Steps that leave the database and the transaction alone.                *)
LEMMA QuietStep ==
    ASSUME SyncerInv,
           \/ LoadSyncState \/ Subscribe \/ NextEpoch \/ StreamEnds
           \/ \E p \in ProposalSlots : SkipEvent(p) \/ OnTransition(p)
           \/ UNCHANGED syncerVars
    PROVE  SyncerInv'
<1> USE DEF SyncerInv
<1>1. SyncerTypeOK'
  <2>1. CASE LoadSyncState
    BY <2>1 DEF LoadSyncState, SyncerTypeOK, loopVars, DbState, Locations
  <2>2. CASE Subscribe
    BY <2>2 DEF Subscribe, SyncerTypeOK, loopVars, Locations
  <2>3. CASE NextEpoch
    BY <2>3, MaxEpochAssumption DEF NextEpoch, SyncerTypeOK, Locations, Epochs
  <2>4. CASE StreamEnds
    BY <2>4 DEF StreamEnds, SyncerTypeOK, loopVars, Locations
  <2>5. ASSUME NEW p \in ProposalSlots, SkipEvent(p)
        PROVE  SyncerTypeOK'
    BY <2>5 DEF SkipEvent, SyncerTypeOK, loopVars
  <2>6. ASSUME NEW p \in ProposalSlots, OnTransition(p)
        PROVE  SyncerTypeOK'
    BY <2>6, EpochOfSlot DEF OnTransition, SyncerTypeOK, Locations, BeginState
  <2>7. CASE UNCHANGED syncerVars
    BY <2>7 DEF syncerVars, SyncerTypeOK
  <2> QED
    BY <2>1, <2>2, <2>3, <2>4, <2>5, <2>6, <2>7
<1>2. PhaseInv'
  <2>1. CASE LoadSyncState
    BY <2>1 DEF LoadSyncState, PhaseInv, loopVars, Active
  <2>2. CASE Subscribe
    BY <2>2 DEF Subscribe, PhaseInv, loopVars, Active
  <2>3. CASE NextEpoch
    BY <2>3, MaxEpochAssumption DEF NextEpoch, PhaseInv, Active, SyncerTypeOK, Epochs
  <2>4. CASE StreamEnds
    BY <2>4 DEF StreamEnds, PhaseInv, loopVars, Active
  <2>5. ASSUME NEW p \in ProposalSlots, SkipEvent(p)
        PROVE  PhaseInv'
    BY <2>5 DEF SkipEvent, PhaseInv, loopVars, Active
  <2>6. ASSUME NEW p \in ProposalSlots, OnTransition(p)
        PROVE  PhaseInv'
    BY <2>6 DEF OnTransition, PhaseInv, Active, BeginState
  <2>7. CASE UNCHANGED syncerVars
    BY <2>7 DEF syncerVars, PhaseInv
  <2> QED
    BY <2>1, <2>2, <2>3, <2>4, <2>5, <2>6, <2>7
<1>3. UNCHANGED <<db, tx, operators>>
  BY DEF LoadSyncState, Subscribe, NextEpoch, StreamEnds, SkipEvent, OnTransition,
         loopVars, syncerVars
<1> QED
  BY <1>1, <1>2, <1>3 DEF OperatorsFollow, TransactionInv

(* begin_sync opens an empty transaction.                                  *)
LEMMA BeginStep ==
    ASSUME SyncerInv, NEW ok \in BOOLEAN, BeginSync(ok)
    PROVE  SyncerInv'
<1> USE EmptyTypes DEF SyncerInv, BeginSync, FirstEpoch
<1>1. SyncerTypeOK'
  BY DEF SyncerTypeOK, Locations
<1>2. PhaseInv'
  BY DEF PhaseInv, Active, SyncerTypeOK
<1>3. OperatorsFollow'
  BY DEF OperatorsFollow
<1>4. TransactionInv'
  BY DEF TransactionInv, PhaseInv, Active
<1> QED
  BY <1>1, <1>2, <1>3, <1>4

(* The queries only choose what is to be registered.                       *)
LEMMA QueryStep ==
    ASSUME SyncerInv, QueryLookahead
    PROVE  SyncerInv'
<1> USE DEF SyncerInv, QueryLookahead
<1>1. PICK vs : entries' = Entries(vs) /\ operators' = OperatorsOf(entries')
  OBVIOUS
<1>2. entries' \subseteq Validators /\ \A v \in entries' : SourceOperator[v] # NoOperator
  BY <1>1, SyncerAssumption DEF Entries, GetValidators
<1>3. operators' \subseteq Operators
  BY <1>1, <1>2, SyncBatchType
<1>4. SyncerTypeOK'
  BY <1>2, <1>3 DEF SyncerTypeOK, Locations
<1>5. PhaseInv'
  BY <1>1, <1>2 DEF PhaseInv, Active
<1>6. operators = {}
  BY DEF PhaseInv
<1>7. OperatorsFollow' /\ TransactionInv'
  BY <1>6 DEF OperatorsFollow, TransactionInv
<1> QED
  BY <1>4, <1>5, <1>7

(* A registration of validators leaves their operators to be registered.   *)
LEMMA RegisterValidatorsStep ==
    ASSUME SyncerInv, NEW ok \in BOOLEAN, RegisterValidators(ok)
    PROVE  SyncerInv'
<1> DEFINE batch == SyncRegistrations(entries)
<1> USE DEF SyncerInv, RegisterValidators
<1>1. /\ entries \subseteq Validators /\ batch \in [entries -> Registration]
      /\ \A v \in entries : batch[v].origin = "sync" /\ batch[v].operator \in operators
  BY SyncBatchType DEF PhaseInv, SyncerTypeOK, OperatorsOf, SyncRegistrations
<1> HIDE DEF batch
<1>2. SyncerTypeOK'
  <2>1. MemoryTxRegister(db, batch) \in DbState
    BY <1>1, InsertType DEF MemoryTxRegister, DbState, SyncerTypeOK
  <2>2. SqlTxInsert(tx, batch, ok) \in TxState
    BY <1>1, InsertType, EmptyTypes DEF SqlTxInsert, TxState, SyncerTypeOK
  <2> QED
    BY <2>1, <2>2 DEF SyncerTypeOK, Locations, batch
<1>3. PhaseInv'
  <2>1. tx'.open
    BY EmptyTypes DEF PhaseInv, Active, SqlTxInsert, SyncerTypeOK, TxState
  <2> QED
    BY <2>1 DEF PhaseInv, Active
<1>4. OperatorsFollow' /\ TransactionInv'
  <2>1. CASE Backend = "memory"
    <3>1. db' = MemoryTxRegister(db, batch) /\ UNCHANGED <<tx, operators>>
      BY <2>1 DEF batch
    <3>2. db'.operators = db.operators /\ db'.registrations = Insert(db.registrations, batch)
      BY <3>1 DEF MemoryTxRegister, SyncerTypeOK, DbState
    <3>3. OperatorsFollow'
      BY <1>1, <2>1, <3>1, <3>2 DEF OperatorsFollow, Synced, Registered, Insert
    <3>4. TransactionInv'
      BY <2>1, <3>1, EmptyTypes DEF TransactionInv
    <3> QED
      BY <3>3, <3>4
  <2>2. CASE Backend # "memory"
    <3>1. tx' = SqlTxInsert(tx, batch, ok) /\ UNCHANGED <<db, operators>>
      BY <2>2 DEF batch
    <3>2. OperatorsFollow'
      BY <2>2, <3>1 DEF OperatorsFollow
    <3>3. CASE ~ok
      <4>1. tx' = AbortedTx
        BY <3>1, <3>3 DEF SqlTxInsert
      <4>2. TxRegistered(tx)' = {}
        BY <4>1, EmptyTypes DEF TxRegistered
      <4> QED
        BY <2>2, <4>1, <4>2, <3>2 DEF TransactionInv
    <3>4. CASE ok
      <4>1. ~tx.aborted /\ \A v \in entries : db.registrations[v] = NoRegistration
        BY <1>1, <2>2, <3>4 DEF Outcome, TxInsertFails, RegistrationConflict, batch
      <4>2. /\ tx'.registrations = Insert(tx.registrations, batch)
            /\ tx'.operators = tx.operators /\ ~tx'.aborted
        BY <3>1, <3>4, <4>1 DEF SqlTxInsert, SyncerTypeOK, TxState
      <4>3. \A v \in Validators : tx'.registrations[v] =
                IF v \in entries THEN batch[v] ELSE tx.registrations[v]
        BY <1>1, <4>2 DEF Insert
      <4>4. ASSUME NEW v \in TxRegistered(tx)'
            PROVE  /\ tx'.registrations[v].origin = "sync"
                   /\ tx'.registrations[v].operator \in db.operators \cup tx.operators \cup operators
                   /\ db.registrations[v] = NoRegistration
        BY <1>1, <4>1, <4>3 DEF TransactionInv, TxRegistered
      <4>5. TransactionInv'
        BY <2>2, <3>1, <4>2, <4>4 DEF TransactionInv
      <4> QED
        BY <3>2, <4>5
    <3> QED
      BY <3>2, <3>3, <3>4
  <2> QED
    BY <2>1, <2>2
<1> QED
  BY <1>2, <1>3, <1>4

(* An operator moves from those to register to those registered.           *)
LEMMA RegisterOperatorStep ==
    ASSUME SyncerInv, NEW o \in Operators, NEW ok \in BOOLEAN, RegisterOperator(o, ok)
    PROVE  SyncerInv'
<1> USE DEF SyncerInv, RegisterOperator
<1>1. SyncerTypeOK'
  <2>1. MemoryTxRegisterOperator(db, o) \in DbState
    BY DEF MemoryTxRegisterOperator, DbState, SyncerTypeOK
  <2>2. SqlTxInsertOperator(tx, o, ok) \in TxState
    BY EmptyTypes DEF SqlTxInsertOperator, TxState, SyncerTypeOK
  <2> QED
    BY <2>1, <2>2 DEF SyncerTypeOK
<1>2. PhaseInv'
  <2>1. tx'.open
    BY EmptyTypes DEF PhaseInv, Active, SqlTxInsertOperator, SyncerTypeOK, TxState
  <2> QED
    BY <2>1 DEF PhaseInv, Active
<1>3. OperatorsFollow' /\ TransactionInv'
  <2>1. CASE Backend = "memory"
    <3>1. /\ db'.registrations = db.registrations
          /\ db'.operators = db.operators \cup {o}
          /\ tx' = tx
      BY <2>1 DEF MemoryTxRegisterOperator, SyncerTypeOK, DbState
    <3>2. OperatorsFollow'
      BY <2>1, <3>1 DEF OperatorsFollow, Synced, Registered
    <3>3. TransactionInv'
      BY <2>1, <3>1, EmptyTypes DEF TransactionInv
    <3> QED
      BY <3>2, <3>3
  <2>2. CASE Backend # "memory"
    <3>1. tx' = SqlTxInsertOperator(tx, o, ok) /\ UNCHANGED db
      BY <2>2
    <3>2. OperatorsFollow'
      BY <2>2, <3>1 DEF OperatorsFollow
    <3>3. CASE ~ok
      <4>1. tx' = AbortedTx
        BY <3>1, <3>3 DEF SqlTxInsertOperator
      <4>2. TxRegistered(tx)' = {}
        BY <4>1, EmptyTypes DEF TxRegistered
      <4> QED
        BY <2>2, <4>1, <4>2, <3>2 DEF TransactionInv
    <3>4. CASE ok
      <4>1. ~tx.aborted
        BY <2>2, <3>4 DEF Outcome, TxInsertOperatorFails
      <4>2. /\ tx'.registrations = tx.registrations
            /\ tx'.operators = tx.operators \cup {o} /\ ~tx'.aborted
        BY <3>1, <3>4, <4>1 DEF SqlTxInsertOperator, SyncerTypeOK, TxState
      <4>3. TxRegistered(tx)' = TxRegistered(tx)
        BY <4>2 DEF TxRegistered
      <4>4. TransactionInv'
        BY <2>2, <3>1, <4>2, <4>3 DEF TransactionInv
      <4> QED
        BY <3>2, <4>4
    <3> QED
      BY <3>2, <3>3, <3>4
  <2> QED
    BY <2>1, <2>2
<1> QED
  BY <1>1, <1>2, <1>3

(* What a commit may save holds its epoch.                                 *)
LEMMA SavedStateType ==
    ASSUME SyncerTypeOK, NEW saved \in SavedStates(db, transition)
    PROVE  saved \subseteq Epochs /\ transition \in saved
<1>1. db.syncState \subseteq Epochs /\ transition \in Epochs
  BY DEF SyncerTypeOK, DbState
<1> QED
  BY <1>1 DEF SavedStates

(* How a commit can end: it had no effect, and failed, or it had all of    *)
(* its effect, whatever it answered.                                       *)
LEMMA CommitOutcomes ==
    ASSUME SyncerTypeOK, NEW ok \in BOOLEAN, CommitSync(ok)
    PROVE  \/ ~ok /\ UNCHANGED <<db, covered>>
           \/ /\ Backend = "memory" /\ covered' = covered \cup visited
              /\ db' = MemoryCommit(db, transition)
           \/ /\ Backend # "memory" /\ covered' = covered \cup visited
              /\ \E saved \in SavedStates(db, transition) : db' = SqlCommit(db, tx, saved)
<1>1. PICK done \in TakesEffect(ok, tx.aborted) :
         IF done
           THEN /\ covered' = covered \cup visited
                /\ IF Backend = "memory"
                     THEN db' = MemoryCommit(db, transition)
                     ELSE \E saved \in SavedStates(db, transition) :
                              db' = SqlCommit(db, tx, saved)
           ELSE UNCHANGED <<db, covered>>
  BY DEF CommitSync
<1>2. CASE done
  BY <1>1, <1>2
<1>3. CASE ~done
  <2>1. ~ok
    BY <1>3 DEF TakesEffect
  <2> QED
    BY <1>1, <1>3, <2>1
<1> QED
  BY <1>2, <1>3

(* On the SQL backend the rows of the transaction are taken over.          *)
LEMMA SqlCommitFacts ==
    ASSUME SyncerTypeOK, NEW saved \in SavedStates(db, transition)
    PROVE  LET new == SqlCommit(db, tx, saved) IN
           /\ new \in DbState
           /\ new.registrations =
                 Insert(db.registrations, [v \in TxRegistered(tx) |-> tx.registrations[v]])
           /\ new.operators = db.operators \cup tx.operators
           /\ new.syncState = saved
<1>1. TxRegistered(tx) \subseteq Validators
      /\ [v \in TxRegistered(tx) |-> tx.registrations[v]] \in [TxRegistered(tx) -> Registration]
  BY DEF TxRegistered, TxState, SyncerTypeOK
<1>2. Insert(db.registrations, [v \in TxRegistered(tx) |-> tx.registrations[v]])
        \in [Validators -> Registration \cup {NoRegistration}]
  BY <1>1, InsertType DEF DbState, SyncerTypeOK
<1>3. saved \subseteq Epochs
  BY SavedStateType
<1> QED
  BY <1>1, <1>2, <1>3 DEF SqlCommit, DbState, TxState, SyncerTypeOK

(* A commit takes the rows of the transaction over, with their operators,  *)
(* or nothing.                                                             *)
LEMMA CommitStep ==
    ASSUME SyncerInv, NEW ok \in BOOLEAN, CommitSync(ok)
    PROVE  SyncerInv'
<1> USE EmptyTypes DEF SyncerInv
<1>1. /\ pc = "commit" /\ pc' = "stream" /\ tx' = NoTx /\ last_epoch' = transition
      /\ UNCHANGED <<stream, transition, epoch, entries, operators, visited>>
      /\ operators = {} /\ entries = {} /\ state = "Syncing"
  BY DEF CommitSync, PhaseInv, SyncerTypeOK
<1>2. db' \in DbState
  <2>1. MemoryCommit(db, transition) \in DbState
    BY DEF MemoryCommit, DbState, SyncerTypeOK
  <2> QED
    BY <2>1, CommitOutcomes, SqlCommitFacts DEF SyncerTypeOK
<1>3. SyncerTypeOK'
  <2>1. covered' \subseteq Epochs
    BY CommitOutcomes DEF SyncerTypeOK
  <2> QED
    BY <1>1, <1>2, <2>1 DEF CommitSync, SyncerTypeOK, Locations, EndState
<1>4. PhaseInv'
  BY <1>1 DEF PhaseInv, Active
<1>5. TransactionInv'
  BY <1>1 DEF TransactionInv
<1>6. OperatorsFollow'
  <2>1. CASE UNCHANGED db
    BY <1>1, <2>1 DEF OperatorsFollow
  <2>2. CASE db' = MemoryCommit(db, transition)
    <3>1. db'.registrations = db.registrations /\ db'.operators = db.operators
      BY <2>2 DEF MemoryCommit, SyncerTypeOK, DbState
    <3> QED
      BY <1>1, <3>1 DEF OperatorsFollow, Synced, Registered
  <2>3. ASSUME Backend # "memory", NEW saved \in SavedStates(db, transition),
               db' = SqlCommit(db, tx, saved)
        PROVE  OperatorsFollow'
    <3>1. /\ db'.registrations =
                Insert(db.registrations, [v \in TxRegistered(tx) |-> tx.registrations[v]])
          /\ db'.operators = db.operators \cup tx.operators
      BY <2>3, SqlCommitFacts
    <3>2. \A v \in Validators : db'.registrations[v] =
              IF v \in TxRegistered(tx) THEN tx.registrations[v] ELSE db.registrations[v]
      BY <3>1 DEF Insert, TxRegistered
    <3> QED
      BY <1>1, <2>3, <3>1, <3>2 DEF OperatorsFollow, TransactionInv, Synced, Registered
  <2> QED
    BY <2>1, <2>2, <2>3, CommitOutcomes
<1> QED
  BY <1>3, <1>4, <1>5, <1>6

(* A restart starts from what was committed, on the SQL backend, or from   *)
(* nothing.                                                                *)
LEMMA CrashStep ==
    ASSUME SyncerInv, CrashRestart
    PROVE  SyncerInv'
<1> USE EmptyTypes, MaxEpochAssumption DEF SyncerInv, CrashRestart
<1>1. db' \in DbState /\ covered' \subseteq Epochs
  BY DEF SyncerTypeOK
<1>2. SyncerTypeOK'
  BY <1>1 DEF SyncerTypeOK, Locations, Epochs
<1>3. PhaseInv' /\ TransactionInv'
  BY DEF PhaseInv, TransactionInv, Active
<1>4. OperatorsFollow'
  <2>1. CASE Backend = "memory"
    <3>1. Synced(db)' = {}
      BY <2>1 DEF Synced, Registered, NoRegistrations
    <3> QED
      BY <3>1 DEF OperatorsFollow
  <2>2. CASE Backend # "memory"
    BY <2>2 DEF OperatorsFollow
  <2> QED
    BY <2>1, <2>2
<1> QED
  BY <1>2, <1>3, <1>4

(* Every step of the task, of the beacon node or of the world keeps it.    *)
LEMMA SyncerInvStep == SyncerInv /\ [SyncerNext]_syncerVars => SyncerInv'
<1> SUFFICES ASSUME SyncerInv, [SyncerNext]_syncerVars PROVE SyncerInv'
  OBVIOUS
<1>1. CASE LoadSyncState \/ Subscribe \/ NextEpoch \/ BeaconEvent \/ UNCHANGED syncerVars
  BY <1>1, QuietStep DEF BeaconEvent
<1>2. ASSUME NEW ok \in BOOLEAN, BeginSync(ok) PROVE SyncerInv'
  BY <1>2, BeginStep
<1>3. CASE QueryLookahead
  BY <1>3, QueryStep
<1>4. ASSUME NEW ok \in BOOLEAN, RegisterValidators(ok) PROVE SyncerInv'
  BY <1>4, RegisterValidatorsStep
<1>5. ASSUME NEW o \in Operators, NEW ok \in BOOLEAN, RegisterOperator(o, ok)
      PROVE  SyncerInv'
  BY <1>5, RegisterOperatorStep
<1>6. ASSUME NEW ok \in BOOLEAN, CommitSync(ok) PROVE SyncerInv'
  BY <1>6, CommitStep
<1>7. CASE CrashRestart
  BY <1>7, CrashStep
<1> QED
  BY <1>1, <1>2, <1>3, <1>4, <1>5, <1>6, <1>7 DEF SyncerNext, SyncerStep

(* The invariant holds in every reachable state of the syncer.             *)
THEOREM SyncerInvariant == SyncerSpec => []SyncerInv
BY InitSyncerInv, SyncerInvStep, PTL DEF SyncerSpec

(* Types: the syncer's variables stay in their sets (SyncerTypeOK).        *)
THEOREM SyncerTypeCorrect == SyncerSpec => []SyncerTypeOK
<1>1. SyncerInv => SyncerTypeOK
  BY DEF SyncerInv
<1> QED
  BY <1>1, SyncerInvariant, PTL

(* Readers are let in only when no sync is halfway and every validator the *)
(* syncer registered has its operator (the watch channel of SyncHandle     *)
(* against what register_validators and register_operator have written).   *)
LEMMA InvImpliesSettled == SyncerInv => SyncedMeansSettled
<1> SUFFICES ASSUME SyncerInv, state = "Synced" PROVE
        /\ ~tx.open
        /\ pc \in {"start", "subscribe", "stream", "ended"}
        /\ Synced(db) \subseteq MemoryListValidators(db)
  BY DEF SyncedMeansSettled
<1>1. pc \in {"start", "subscribe", "stream", "ended"} /\ tx = NoTx /\ operators = {}
  BY DEF SyncerInv, PhaseInv, Active
<1> QED
  BY <1>1, EmptyTypes DEF SyncerInv, OperatorsFollow, MemoryListValidators, Synced

THEOREM ReadersSeeSettledState == SyncerSpec => []SyncedMeansSettled
BY InvImpliesSettled, SyncerInvariant, PTL

-------------------------------------------------------------------------------
(* Epochs, on the memory backend, where every sync commits.                *)

(* The saved sync state is last_epoch, everything up to it was looked over *)
(* and so was, in the running sync, everything from it to the loop         *)
(* variable; the stream is never behind.                                   *)
EpochInv ==
    /\ db.syncState = {last_epoch}
    /\ last_epoch # 0 => 0 .. last_epoch \subseteq covered
    /\ last_epoch <= stream.epoch
    /\ pc \in {"begin"} \cup Active => transition = stream.epoch
    /\ pc = "lookahead" => last_epoch .. epoch - 1 \subseteq visited
    /\ pc \in {"validators", "operators"} => last_epoch .. epoch \subseteq visited
    /\ pc = "commit" => last_epoch .. transition \subseteq visited
    /\ pc \in {"start", "subscribe", "stream"} => state = "Synced"

(* The initial state satisfies it.                                         *)
LEMMA InitEpochInv == ASSUME Backend = "memory" PROVE SyncerInit => EpochInv
<1> SUFFICES ASSUME SyncerInit PROVE EpochInv
  OBVIOUS
<1>1. StartTask(FreshDb)
  BY Zenon DEF SyncerInit
<1>2. db.syncState = {0}
  BY <1>1, EmptyTypes DEF StartTask
<1> QED
  BY <1>1, <1>2 DEF StartTask, EpochInv, Active

(* Every step preserves it.                                                *)
LEMMA EpochInvStep ==
    ASSUME Backend = "memory", SyncerInv, EpochInv, [SyncerNext]_syncerVars
    PROVE  EpochInv'
<1> USE DEF SyncerInv, SyncerTypeOK, EpochInv, Active, Epochs, loopVars
<1> USE MaxEpochAssumption
<1>1. CASE LoadSyncState
  BY <1>1 DEF LoadSyncState, Outcome
<1>2. CASE Subscribe
  BY <1>2 DEF Subscribe
<1>3. ASSUME NEW ok \in BOOLEAN, BeginSync(ok) PROVE EpochInv'
  <2>1. ok
    BY <1>3 DEF BeginSync, Outcome
  <2> QED
    BY <1>3, <2>1 DEF BeginSync, FirstEpoch
<1>4. CASE QueryLookahead
  BY <1>4 DEF QueryLookahead
<1>5. ASSUME NEW ok \in BOOLEAN, RegisterValidators(ok) PROVE EpochInv'
  <2>1. db'.syncState = db.syncState
    BY <1>5 DEF RegisterValidators, MemoryTxRegister, DbState
  <2> QED
    BY <1>5, <2>1 DEF RegisterValidators
<1>6. ASSUME NEW o \in Operators, NEW ok \in BOOLEAN, RegisterOperator(o, ok)
      PROVE  EpochInv'
  <2>1. db'.syncState = db.syncState
    BY <1>6 DEF RegisterOperator, MemoryTxRegisterOperator, DbState
  <2> QED
    BY <1>6, <2>1 DEF RegisterOperator
<1>7. CASE NextEpoch
  BY <1>7 DEF NextEpoch, PhaseInv
<1>8. ASSUME NEW ok \in BOOLEAN, CommitSync(ok) PROVE EpochInv'
  <2>1. ok
    BY <1>8 DEF CommitSync, Outcome
  <2>2. db' = MemoryCommit(db, transition) /\ covered' = covered \cup visited
    BY <1>8, <2>1, CommitOutcomes
  <2>3. db'.syncState = {transition} /\ last_epoch' = transition
    BY <1>8, <2>2 DEF CommitSync, MemoryCommit, SyncerInv, SyncerTypeOK, DbState
  <2>4. 0 .. transition \subseteq covered'
    BY <1>8, <2>2 DEF CommitSync
  <2> QED
    BY <1>8, <2>1, <2>2, <2>3, <2>4 DEF CommitSync, EndState
<1>9. ASSUME NEW p \in ProposalSlots, SkipEvent(p) PROVE EpochInv'
  BY <1>9 DEF SkipEvent
<1>10. ASSUME NEW p \in ProposalSlots, OnTransition(p) PROVE EpochInv'
  BY <1>10, EpochOfSlot DEF OnTransition, IsTransition
<1>11. CASE StreamEnds
  BY <1>11 DEF StreamEnds
<1>12. CASE CrashRestart
  BY <1>12, EmptyTypes DEF CrashRestart
<1>13. CASE UNCHANGED syncerVars
  BY <1>13 DEF syncerVars
<1> QED
  BY <1>1, <1>2, <1>3, <1>4, <1>5, <1>6, <1>7, <1>8, <1>9, <1>10, <1>11, <1>12, <1>13
  DEF SyncerNext, SyncerStep, BeaconEvent

(* The epochs' invariant holds in every reachable state on memory.         *)
LEMMA EpochInvariant == ASSUME Backend = "memory" PROVE SyncerSpec => []EpochInv
<1>1. SyncerInit => EpochInv
  BY InitEpochInv
<1>2. SyncerInv /\ EpochInv /\ [SyncerNext]_syncerVars => EpochInv'
  BY EpochInvStep
<1> QED
  BY <1>1, <1>2, SyncerInvariant, PTL DEF SyncerSpec

(* On the memory backend every epoch up to the saved sync state was looked *)
(* over, however events were repeated, late or missing (last_epoch and the *)
(* loop of on_transition).                                                 *)
THEOREM MemorySkipsNoEpoch == ASSUME Backend = "memory" PROVE SyncerSpec => []NoEpochSkipped
<1>1. EpochInv => NoEpochSkipped
  BY DEF EpochInv, NoEpochSkipped
<1> QED
  BY <1>1, EpochInvariant, PTL

(* On the memory backend an idle syncer lets readers in: none waits for an *)
(* event of the beacon node (finalize_sync always sends Synced).           *)
THEOREM MemoryIdlesSynced == ASSUME Backend = "memory" PROVE SyncerSpec => []IdleMeansSynced
<1>1. EpochInv => IdleMeansSynced
  BY DEF EpochInv, IdleMeansSynced
<1> QED
  BY <1>1, EpochInvariant, PTL

(* A commit takes last_epoch from the transition, which is not behind it.   *)
LEMMA AscendStep ==
    ASSUME SyncerInv, EpochInv, [SyncerNext]_syncerVars, pc # "start", pc' # "start"
    PROVE  last_epoch' >= last_epoch
<1>1. last_epoch \in Nat /\ transition \in Nat
  BY MaxEpochAssumption DEF SyncerInv, SyncerTypeOK, Epochs
<1>2. ASSUME NEW ok \in BOOLEAN, CommitSync(ok) PROVE last_epoch' >= last_epoch
  BY <1>1, <1>2 DEF CommitSync, EpochInv, Active
<1>3. CASE UNCHANGED last_epoch
  BY <1>1, <1>3
<1> QED
  BY <1>2, <1>3 DEF SyncerNext, SyncerStep, BeaconEvent, LoadSyncState, Subscribe, BeginSync,
      QueryLookahead, RegisterValidators, RegisterOperator, NextEpoch, SkipEvent,
      OnTransition, StreamEnds, CrashRestart, syncerVars

(* On the memory backend last_epoch moves forward only, while the process  *)
(* runs (finalize_sync takes it from the transition).                      *)
THEOREM MemorySyncStateAscends ==
    ASSUME Backend = "memory" PROVE SyncerSpec => SyncStateAscends
<1>1. SyncerInv /\ EpochInv /\ [SyncerNext]_syncerVars =>
        [pc # "start" /\ pc' # "start" => last_epoch' >= last_epoch]_syncerVars
  BY AscendStep
<1> QED
  BY <1>1, SyncerInvariant, EpochInvariant, PTL DEF SyncerSpec, SyncStateAscends

-------------------------------------------------------------------------------
(* What a sync has looked over, on either backend.                         *)

(* The registrations that a commit will leave in the database.             *)
Kept(v) ==
    IF Backend = "memory" THEN db.registrations[v] # NoRegistration
                          ELSE tx.registrations[v] # NoRegistration

(* The validators that must be in the database when epoch e was synced.    *)
Proposers(e) == {v \in Duties[e] \cap ActiveValidators : SourceOperator[v] # NoOperator}

(* Unless the transaction aborted, the proposers of the epochs looked over *)
(* are kept, or about to be, and so are their operators.                   *)
LookedOver ==
    /\ pc \in Active => \A e \in visited : e <= transition
    /\ pc \in Active /\ ~tx.aborted =>
         \A e \in visited : \A v \in Proposers(e) :
           /\ Kept(v) \/ v \in entries
           /\ SourceOperator[v] \in db.operators \cup tx.operators \cup operators

(* Every step preserves it.                                                *)
LEMMA LookedOverStep ==
    ASSUME SyncerInv, LookedOver, [SyncerNext]_syncerVars
    PROVE  LookedOver'
<1> USE DEF SyncerInv, LookedOver, Active, loopVars, Kept
<1>1. CASE UNCHANGED syncerVars
  BY <1>1 DEF syncerVars
<1>2. CASE pc' \notin Active
  BY <1>2
<1>3. ASSUME NEW ok \in BOOLEAN, BeginSync(ok) PROVE LookedOver'
  BY <1>3 DEF BeginSync
<1>4. CASE QueryLookahead
  <2>1. PICK duties \in DutyAnswers(epoch), next_duties \in DutyAnswers(epoch + 1) :
          entries' = Entries(duties \cup next_duties) /\ operators' = OperatorsOf(entries')
    BY <1>4 DEF QueryLookahead
  <2>2. epoch \in Nat /\ transition \in Nat /\ epoch <= transition
    BY <1>4, MaxEpochAssumption DEF QueryLookahead, PhaseInv, SyncerTypeOK, Epochs
  <2>3. duties = Duties[epoch]
    BY <2>1, <2>2 DEF DutyAnswers
  <2>4. Proposers(epoch) \subseteq entries'
    BY <2>1, <2>3, SyncerAssumption, <2>2 DEF Proposers, Entries, GetValidators, SyncerTypeOK, Epochs
  <2>5. \A v \in Proposers(epoch) : SourceOperator[v] \in operators'
    BY <2>1, <2>4 DEF OperatorsOf
  <2>6. entries = {} /\ operators = {}
    BY <1>4 DEF QueryLookahead, PhaseInv
  <2>7. UNCHANGED <<db, tx, transition>> /\ visited' = visited \cup {epoch}
    BY <1>4 DEF QueryLookahead
  <2>8. pc \in Active
    BY <1>4 DEF QueryLookahead
  <2> QED
    BY <2>2, <2>4, <2>5, <2>6, <2>7, <2>8
<1>5. ASSUME NEW ok \in BOOLEAN, RegisterValidators(ok) PROVE LookedOver'
  <2> DEFINE batch == SyncRegistrations(entries)
  <2>1. batch \in [entries -> Registration] /\ entries \subseteq Validators
        /\ \A v \in entries : batch[v] # NoRegistration
    <3>1. batch \in [entries -> Registration] /\ entries \subseteq Validators
      BY SyncBatchType DEF PhaseInv, SyncerTypeOK
    <3> QED
      BY <3>1, NoRegistrationAssumption
  <2> HIDE DEF batch
  <2>2. CASE Backend = "memory"
    <3>1. /\ db'.registrations = Insert(db.registrations, batch)
          /\ db'.operators = db.operators /\ tx' = tx
      BY <1>5, <2>2 DEF RegisterValidators, MemoryTxRegister, SyncerTypeOK, DbState, batch
    <3>2. \A v \in Validators : (v \in entries \/ Kept(v)) => Kept(v)'
      BY <2>1, <2>2, <3>1 DEF Insert
    <3>3. \A e \in visited : Proposers(e) \subseteq Validators
      BY SyncerAssumption, MaxEpochAssumption DEF Proposers, SyncerTypeOK, Epochs
    <3> QED
      BY <1>5, <3>1, <3>2, <3>3 DEF RegisterValidators
  <2>3. CASE Backend # "memory" /\ ok
    <3>1. ~tx.aborted
      BY <1>5, <2>3 DEF RegisterValidators, Outcome, TxInsertFails
    <3>2. /\ tx'.registrations = Insert(tx.registrations, batch)
          /\ tx'.operators = tx.operators /\ db' = db
      BY <1>5, <2>3 DEF RegisterValidators, SqlTxInsert, SyncerTypeOK, TxState, batch
    <3>3. \A v \in Validators : (v \in entries \/ Kept(v)) => Kept(v)'
      BY <2>1, <2>3, <3>2 DEF Insert
    <3>4. \A e \in visited : Proposers(e) \subseteq Validators
      BY SyncerAssumption, MaxEpochAssumption DEF Proposers, SyncerTypeOK, Epochs
    <3> QED
      BY <1>5, <3>1, <3>2, <3>3, <3>4 DEF RegisterValidators
  <2>4. CASE Backend # "memory" /\ ~ok
    <3>1. tx'.aborted
      BY <1>5, <2>4, EmptyTypes DEF RegisterValidators, SqlTxInsert
    <3> QED
      BY <1>5, <3>1 DEF RegisterValidators
  <2> QED
    BY <2>2, <2>3, <2>4
<1>6. ASSUME NEW o \in Operators, NEW ok \in BOOLEAN, RegisterOperator(o, ok)
      PROVE  LookedOver'
  <2>1. CASE Backend = "memory"
    <3>1. /\ db'.registrations = db.registrations
          /\ db'.operators = db.operators \cup {o} /\ tx' = tx
      BY <1>6, <2>1 DEF RegisterOperator, MemoryTxRegisterOperator, SyncerTypeOK, DbState
    <3> QED
      BY <1>6, <2>1, <3>1 DEF RegisterOperator
  <2>2. CASE Backend # "memory" /\ ok
    <3>1. ~tx.aborted
      BY <1>6, <2>2 DEF RegisterOperator, Outcome, TxInsertOperatorFails
    <3>2. /\ tx'.registrations = tx.registrations
          /\ tx'.operators = tx.operators \cup {o} /\ db' = db
      BY <1>6, <2>2 DEF RegisterOperator, SqlTxInsertOperator, SyncerTypeOK, TxState
    <3> QED
      BY <1>6, <2>2, <3>1, <3>2 DEF RegisterOperator
  <2>3. CASE Backend # "memory" /\ ~ok
    <3>1. tx'.aborted
      BY <1>6, <2>3, EmptyTypes DEF RegisterOperator, SqlTxInsertOperator
    <3> QED
      BY <1>6, <3>1 DEF RegisterOperator
  <2> QED
    BY <2>1, <2>2, <2>3
<1>7. CASE NextEpoch
  BY <1>7 DEF NextEpoch
<1> QED
  <2>1. CASE LoadSyncState \/ Subscribe \/ BeaconEvent \/ CrashRestart
    <3>1. pc' \notin Active
      BY <2>1 DEF LoadSyncState, Subscribe, BeaconEvent, SkipEvent, OnTransition,
                  StreamEnds, CrashRestart
    <3> QED
      BY <3>1, <1>2
  <2>2. ASSUME NEW ok \in BOOLEAN, CommitSync(ok) PROVE LookedOver'
    <3>1. pc' \notin Active
      BY <2>2 DEF CommitSync
    <3> QED
      BY <3>1, <1>2
  <2> QED
    BY <1>1, <1>3, <1>4, <1>5, <1>6, <1>7, <2>1, <2>2 DEF SyncerNext, SyncerStep

(* A commit that declares the sync done leaves all of that in the database.*)
LEMMA CommitIsComplete ==
    ASSUME SyncerInv, LookedOver, SyncerNext,
           pc = "commit", pc' = "stream", state' = "Synced"
    PROVE  /\ transition \in db'.syncState
           /\ \A e \in visited : \A v \in Proposers(e) :
                /\ db'.registrations[v] # NoRegistration
                /\ SourceOperator[v] \in db'.operators
<1>1. state = "Syncing" /\ entries = {} /\ operators = {}
  BY DEF SyncerInv, PhaseInv, SyncerTypeOK
<1>2. PICK ok \in BOOLEAN : CommitSync(ok)
  BY DEF SyncerNext, SyncerStep, BeaconEvent, LoadSyncState, Subscribe, BeginSync,
      QueryLookahead, RegisterValidators, RegisterOperator, NextEpoch, SkipEvent,
      OnTransition, StreamEnds, CrashRestart
<1>3. ok /\ ~tx.aborted
  <2>1. ok
    BY <1>1, <1>2 DEF CommitSync
  <2>2. Backend = "memory" => ~tx.aborted
    BY EmptyTypes DEF SyncerInv, TransactionInv
  <2> QED
    BY <1>2, <2>1, <2>2 DEF CommitSync, Outcome
<1>4. \A e \in visited : \A v \in Proposers(e) :
        v \in Validators /\ Kept(v) /\ SourceOperator[v] \in db.operators \cup tx.operators
  <2>1. \A e \in visited : Proposers(e) \subseteq Validators
    BY SyncerAssumption, MaxEpochAssumption DEF Proposers, SyncerInv, SyncerTypeOK, Epochs
  <2> QED
    BY <1>1, <1>3, <2>1 DEF LookedOver, Active
<1>5. CASE Backend = "memory"
  <2>1. db'.syncState = {transition} /\ db'.registrations = db.registrations
        /\ db'.operators = db.operators /\ tx.operators = {}
    <3>1. db' = MemoryCommit(db, transition)
      BY <1>2, <1>3, <1>5, CommitOutcomes DEF SyncerInv
    <3> QED
      BY <1>5, <3>1, EmptyTypes
      DEF MemoryCommit, SyncerInv, SyncerTypeOK, DbState, TransactionInv
  <2> QED
    BY <1>4, <1>5, <2>1 DEF Kept
<1>6. CASE Backend # "memory"
  <2>1. /\ transition \in db'.syncState
        /\ db'.registrations =
              Insert(db.registrations, [v \in TxRegistered(tx) |-> tx.registrations[v]])
        /\ db'.operators = db.operators \cup tx.operators
    <3>1. PICK saved \in SavedStates(db, transition) : db' = SqlCommit(db, tx, saved)
      BY <1>2, <1>3, <1>6, CommitOutcomes DEF SyncerInv
    <3> QED
      BY <3>1, SqlCommitFacts, SavedStateType DEF SyncerInv
  <2>2. \A v \in Validators : Kept(v) => db'.registrations[v] # NoRegistration
    BY <1>6, <2>1 DEF Kept, Insert, TxRegistered
  <2> QED
    BY <1>4, <2>1, <2>2
<1> QED
  BY <1>5, <1>6

LEMMA InitLookedOver == SyncerInit => LookedOver
BY DEF SyncerInit, StartTask, LookedOver, Active

(* A sync declared done has registered the proposers of every epoch it     *)
(* looked over, with their operators, whatever a draft said and whatever   *)
(* was logged on the way (on_transition, sync_lookahead, finalize_sync).   *)
THEOREM DeclaredSyncIsComplete == SyncerSpec => SyncedWasRegistered
<1> DEFINE Complete ==
      pc = "commit" /\ pc' = "stream" /\ state' = "Synced" =>
         /\ transition \in db'.syncState
         /\ \A e \in visited :
              \A v \in Duties[e] \cap ActiveValidators :
                SourceOperator[v] # NoOperator =>
                  /\ db'.registrations[v] # NoRegistration
                  /\ SourceOperator[v] \in db'.operators
<1>1. SyncerInv /\ LookedOver /\ [SyncerNext]_syncerVars => LookedOver'
  BY LookedOverStep
<1>2. SyncerInv /\ LookedOver /\ [SyncerNext]_syncerVars => [Complete]_syncerVars
  BY CommitIsComplete DEF Proposers
<1>3. SyncerSpec => [][Complete]_syncerVars
  BY <1>1, <1>2, InitLookedOver, SyncerInvariant, PTL DEF SyncerSpec
<1> QED
  BY <1>3 DEF SyncedWasRegistered

-------------------------------------------------------------------------------
(* Why a sync ends.  Its steps go through the epochs up to the transition, *)
(* and in each epoch through these phases.                                 *)
Phase(p) ==
    CASE p = "lookahead"  -> 1
      [] p = "validators" -> 2
      [] p = "operators"  -> 3
      [] p = "commit"     -> 4
      [] OTHER            -> 5

(* A later epoch, never beyond the transition, or else a later phase, or   *)
(* else fewer operators still to register.                                 *)
Advances ==
    /\ transition' = transition
    /\ \/ epoch' > epoch /\ epoch' <= transition'
       \/ epoch' = epoch /\ Phase(pc') > Phase(pc)
       \/ /\ epoch' = epoch /\ pc' = pc
          /\ operators' \subseteq operators /\ operators' # operators

SyncStepAdvances == pc \in Active /\ SyncerStep => Advances

(* Whatever fails on the way, every step of a sync brings it nearer to its *)
(* end, in a lexicographic order that has no infinite descent when the     *)
(* operators are finitely many: the loop of on_transition and that of      *)
(* sync_lookahead go nowhere twice.                                        *)
THEOREM EverySyncStepAdvances == SyncerSpec => [][SyncStepAdvances]_syncerVars
<1>1. SyncerInv /\ [SyncerNext]_syncerVars => [SyncStepAdvances]_syncerVars
  <2> SUFFICES ASSUME SyncerInv, pc \in Active, SyncerStep
               PROVE  Advances
    BY DEF SyncStepAdvances
  <2> USE DEF Advances, Phase, loopVars
  <2>1. epoch \in Nat /\ transition \in Nat
    BY MaxEpochAssumption DEF SyncerInv, SyncerTypeOK, Epochs
  <2>2. CASE QueryLookahead
    BY <2>2 DEF QueryLookahead
  <2>3. ASSUME NEW ok \in BOOLEAN, RegisterValidators(ok)
        PROVE  Advances
    BY <2>3 DEF RegisterValidators
  <2>4. ASSUME NEW o \in Operators, NEW ok \in BOOLEAN, RegisterOperator(o, ok)
        PROVE  Advances
    BY <2>4 DEF RegisterOperator
  <2>5. CASE NextEpoch
    BY <2>1, <2>5 DEF NextEpoch
  <2>6. ASSUME NEW ok \in BOOLEAN, CommitSync(ok)
        PROVE  Advances
    BY <2>6 DEF CommitSync
  <2> QED
    BY <2>2, <2>3, <2>4, <2>5, <2>6 DEF SyncerStep, Active, LoadSyncState, Subscribe, BeginSync
<1> QED
  BY <1>1, SyncerInvariant, PTL DEF SyncerSpec
===============================================================================
