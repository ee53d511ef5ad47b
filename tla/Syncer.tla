--------------------------------- MODULE Syncer ---------------------------------
(***************************************************************************)
(* The syncer task (sync/mod.rs) and the epoch transition stream it polls  *)
(* (sync/chain.rs), over one of the database backends of RegistryDb.       *)
(*                                                                         *)
(* One action per stretch of code between two awaits.  A call that is      *)
(* retried until it answers (the beacon client's duties and summaries, the *)
(* keys API) is an action that waits for the answer.                       *)
(***************************************************************************)
EXTENDS RegistryDb, Sequences

CONSTANTS
    SlotsPerEpoch,   \* 32 in the code
    Duties,          \* epoch -> the validators that propose in it
    Drafts,          \* epoch -> what its duties may seem to be before it starts
    SourceOperator,  \* what the external source answers: validator -> operator
    NoOperator,      \* it knows no operator for the validator
    ActiveValidators,\* what get_active_validator_summaries keeps
    ServedEpochs,    \* the epochs whose duties the beacon node answers for
    CrashesAllowed   \* may the process crash and restart?

ASSUME SyncerAssumption ==
    /\ SlotsPerEpoch \in Nat \ {0}
    /\ Duties \in [0 .. MaxEpoch + 1 -> SUBSET Validators]
    /\ Drafts \in [0 .. MaxEpoch + 1 -> SUBSET SUBSET Validators]
    /\ SourceOperator \in [Validators -> Operators \cup {NoOperator}]
    /\ NoOperator \notin Operators
    /\ ActiveValidators \subseteq Validators
    /\ ServedEpochs \subseteq Nat
    /\ CrashesAllowed \in BOOLEAN

VARIABLES
    db,              \* the stored state
    tx,              \* the open sync transaction
    pc,              \* where the syncer task is
    state,           \* the watch channel of SyncHandle
    last_epoch,
    stream,          \* EpochTransitionStream: epoch and proposal_slot
    transition,      \* epoch of the transition being handled
    epoch,           \* the loop variable of on_transition
    entries,         \* validators to register for it, with their operators
    operators,       \* operators still to register for it
    visited,         \* history: epochs looped over in this transition
    covered          \* history: epochs looped over in committed transitions

streamVars == <<stream>>
loopVars == <<transition, epoch, entries, operators, visited>>
syncerVars == <<db, tx, pc, state, last_epoch, stream, transition, epoch,
                entries, operators, visited, covered>>

Locations == {"start", "subscribe", "stream", "begin", "lookahead", "validators",
              "operators", "commit", "ended"}

ProposalSlots == 1 .. (MaxEpoch + 1) * SlotsPerEpoch

SyncerTypeOK ==
    /\ db \in DbState
    /\ tx \in TxState
    /\ pc \in Locations
    /\ state \in {"Syncing", "Synced"}
    /\ last_epoch \in Epochs
    /\ stream \in [epoch : Epochs, proposal_slot : ProposalSlots \cup {0}]
    /\ transition \in Epochs
    /\ epoch \in Epochs
    /\ entries \subseteq Validators
    /\ operators \subseteq Operators
    /\ visited \subseteq Epochs
    /\ covered \subseteq Epochs

-------------------------------------------------------------------------------
(* The duties of an epoch are settled when it starts; those of the next    *)
(* one, which get_lookahead asks for as well (extended = true), may change.*)
DutyAnswers(e) == {Duties[e]} \cup (IF e > transition THEN Drafts[e] ELSE {})

(* What the keys API returns of the validators it is asked for.            *)
GetValidators(vs) == {v \in vs : SourceOperator[v] # NoOperator}

(* sync_lookahead keeps those the beacon chain says are active.            *)
Entries(lookahead) == GetValidators(lookahead) \cap ActiveValidators

SyncRegistrations(vs) ==
    [v \in vs |-> [operator |-> SourceOperator[v], origin |-> "sync"]]

OperatorsOf(vs) == {SourceOperator[v] : v \in vs}

(* A memory database starts with the default sync state, epoch 0.  Nothing *)
(* in the code writes the first row of a SQL database: someone else did,   *)
(* or there is none.                                                       *)
FreshDb == [EmptyDb EXCEPT !.syncState = IF Backend = "memory" THEN {0} ELSE {}]

StartTask(d) ==
    /\ pc = "start" /\ state = "Synced" /\ last_epoch = 0
    /\ stream = [epoch |-> 0, proposal_slot |-> 0]
    /\ transition = 0 /\ epoch = 0 /\ entries = {} /\ operators = {}
    /\ visited = {} /\ tx = NoTx /\ db = d

SyncerInit ==
    \/ StartTask(FreshDb) /\ covered = {}
    \/ \E e \in Epochs :
         /\ Backend = "sql"
         /\ StartTask([FreshDb EXCEPT !.syncState = {e}])
         /\ covered = 0 .. e

-------------------------------------------------------------------------------
(* Plausible bugs, one operator each.                                      *)
Mut_FirstEpoch == last_epoch + 1

Mut_BeginState == state

Mut_EndState == "Syncing"

Mut_OnTransition(p) ==
    /\ pc = "stream" /\ p > stream.proposal_slot
    /\ (p - 1) \div SlotsPerEpoch > stream.epoch
    /\ transition' = (p - 1) \div SlotsPerEpoch
    /\ pc' = "begin" /\ state' = "Syncing"
    /\ UNCHANGED <<db, tx, last_epoch, stream, epoch, entries, operators, visited, covered>>

Mut_NextEpoch ==
    /\ pc = "operators" /\ operators = {}
    /\ IF epoch <= transition
         THEN epoch' = epoch + 1 /\ pc' = "lookahead"
         ELSE pc' = "commit" /\ UNCHANGED epoch
    /\ UNCHANGED <<db, tx, state, last_epoch, stream, transition, entries,
                   operators, visited, covered>>

Mut_RegisterValidators(ok) ==
    /\ pc = "validators"
    /\ ok => ~RegistrationConflict(db, tx, [v \in entries |->
                    [operator |-> SourceOperator[v], origin |-> "sync"]])
    /\ db' = IF ok THEN SqlRegister(db, [v \in entries |->
                    [operator |-> SourceOperator[v], origin |-> "sync"]]) ELSE db
    /\ entries' = {} /\ pc' = "operators"
    /\ UNCHANGED <<tx, state, last_epoch, stream, transition, epoch, operators,
                   visited, covered>>

-------------------------------------------------------------------------------
(* The top of spawn: the saved sync state, or the end of the task if there *)
(* is none.  Which row fetch_one returns is up to the database.            *)
LoadSyncState ==
    /\ pc = "start"
    /\ \/ Outcome(TRUE, db.syncState = {})
          /\ \E e \in db.syncState : last_epoch' = e /\ pc' = "subscribe"
       \/ Outcome(FALSE, db.syncState = {})
          /\ pc' = "ended" /\ UNCHANGED last_epoch
    /\ UNCHANGED <<db, tx, state, stream, loopVars, covered>>

(* subscribe_payload_attributes, retried until the beacon node accepts it. *)
Subscribe ==
    /\ pc = "subscribe"
    /\ pc' = "stream"
    /\ UNCHANGED <<db, tx, state, last_epoch, stream, loopVars, covered>>

EpochOf(p) == (p - 1) \div SlotsPerEpoch

(* poll_next: the events of one proposal slot count once, and one of a     *)
(* later epoch than any seen is a transition.                              *)
IsNewSlot(p) == p > stream.proposal_slot

IsTransition(p) == EpochOf(p) > stream.epoch

SkipEvent(p) ==
    /\ pc = "stream"
    /\ IsNewSlot(p) /\ ~IsTransition(p)
    /\ stream' = [stream EXCEPT !.proposal_slot = p]
    /\ UNCHANGED <<db, tx, pc, state, last_epoch, loopVars, covered>>

(* What on_transition sends on the channel before it begins.               *)
BeginState == "Syncing"

(* poll_next returns a transition and on_transition runs up to begin_sync. *)
(* epoch - last_epoch, which is only logged, panics below zero in a build  *)
(* with overflow checks and wraps in one without: either build is meant.   *)
OnTransition(p) ==
    /\ pc = "stream"
    /\ IsNewSlot(p) /\ IsTransition(p)
    /\ stream' = [epoch |-> EpochOf(p), proposal_slot |-> p]
    /\ transition' = EpochOf(p)
    /\ \/ EpochOf(p) < last_epoch /\ pc' = "ended" /\ UNCHANGED state
       \/ pc' = "begin" /\ state' = BeginState
    /\ UNCHANGED <<db, tx, last_epoch, epoch, entries, operators, visited, covered>>

(* The event stream closes: the loop of spawn ends and the task with it.   *)
StreamEnds ==
    /\ pc = "stream"
    /\ pc' = "ended"
    /\ UNCHANGED <<db, tx, state, last_epoch, stream, loopVars, covered>>

FirstEpoch == last_epoch

(* begin_sync, and sync_contract_events, which does nothing yet.  When     *)
(* begin_sync fails, the task waits for the next transition.               *)
BeginSync(ok) ==
    /\ pc = "begin"
    /\ Outcome(ok, FALSE)
    /\ IF ok
         THEN /\ tx' = OpenTx /\ epoch' = FirstEpoch /\ visited' = {}
              /\ pc' = IF FirstEpoch <= transition THEN "lookahead" ELSE "commit"
         ELSE pc' = "stream" /\ UNCHANGED <<tx, epoch, visited>>
    /\ UNCHANGED <<db, state, last_epoch, stream, transition, entries, operators, covered>>

(* get_lookahead, get_validators and get_active_validator_summaries, each  *)
(* retried until it answers.                                               *)
QueryLookahead ==
    /\ pc = "lookahead"
    /\ {epoch, epoch + 1} \subseteq ServedEpochs
    /\ \E duties \in DutyAnswers(epoch), next_duties \in DutyAnswers(epoch + 1) :
         /\ entries' = Entries(duties \cup next_duties)
         /\ operators' = OperatorsOf(entries')
    /\ visited' = visited \cup {epoch}
    /\ pc' = "validators"
    /\ UNCHANGED <<db, tx, state, last_epoch, stream, transition, epoch, covered>>

(* An error is logged and the loop goes on.                                *)
RegisterValidators(ok) ==
    /\ pc = "validators"
    /\ Outcome(ok, TxInsertFails(db, tx, SyncRegistrations(entries)))
    /\ IF Backend = "memory"
         THEN db' = MemoryTxRegister(db, SyncRegistrations(entries)) /\ UNCHANGED tx
         ELSE tx' = SqlTxInsert(tx, SyncRegistrations(entries), ok) /\ UNCHANGED db
    /\ entries' = {}
    /\ pc' = "operators"
    /\ UNCHANGED <<state, last_epoch, stream, transition, epoch, operators,
                   visited, covered>>

RegisterOperator(o, ok) ==
    /\ pc = "operators" /\ o \in operators
    /\ Outcome(ok, TxInsertOperatorFails(db, tx, o))
    /\ IF Backend = "memory"
         THEN db' = MemoryTxRegisterOperator(db, o) /\ UNCHANGED tx
         ELSE tx' = SqlTxInsertOperator(tx, o, ok) /\ UNCHANGED db
    /\ operators' = operators \ {o}
    /\ UNCHANGED <<pc, state, last_epoch, stream, transition, epoch, entries,
                   visited, covered>>

NextEpoch ==
    /\ pc = "operators" /\ operators = {}
    /\ IF epoch < transition
         THEN epoch' = epoch + 1 /\ pc' = "lookahead"
         ELSE pc' = "commit" /\ UNCHANGED epoch
    /\ UNCHANGED <<db, tx, state, last_epoch, stream, transition, entries,
                   operators, visited, covered>>

EndState == "Synced"

(* finalize_sync: last_epoch is set before the commit is tried.  A         *)
(* transaction that does not commit is rolled back when it is dropped; one *)
(* that does may fail all the same, for want of an answer.                 *)
CommitSync(ok) ==
    /\ pc = "commit"
    /\ Outcome(ok, tx.aborted)
    /\ last_epoch' = transition
    /\ \E done \in TakesEffect(ok, tx.aborted) :
         IF done
           THEN /\ covered' = covered \cup visited
                /\ IF Backend = "memory"
                     THEN db' = MemoryCommit(db, transition)
                     ELSE \E saved \in SavedStates(db, transition) :
                              db' = SqlCommit(db, tx, saved)
           ELSE UNCHANGED <<db, covered>>
    /\ state' = IF ok THEN EndState ELSE state
    /\ tx' = NoTx
    /\ pc' = "stream"
    /\ UNCHANGED <<stream, transition, epoch, entries, operators, visited>>

(* The process dies and starts again: a memory database is empty, a SQL    *)
(* database holds what was committed.                                      *)
CrashRestart ==
    /\ CrashesAllowed
    /\ pc' = "start" /\ state' = "Synced" /\ last_epoch' = 0
    /\ stream' = [epoch |-> 0, proposal_slot |-> 0]
    /\ transition' = 0 /\ epoch' = 0 /\ entries' = {} /\ operators' = {}
    /\ visited' = {} /\ tx' = NoTx
    /\ IF Backend = "memory" THEN db' = FreshDb /\ covered' = {}
                             ELSE UNCHANGED <<db, covered>>

SyncerStep ==
    \/ LoadSyncState
    \/ Subscribe
    \/ \E ok \in BOOLEAN : BeginSync(ok)
    \/ QueryLookahead
    \/ \E ok \in BOOLEAN : RegisterValidators(ok)
    \/ \E o \in Operators, ok \in BOOLEAN : RegisterOperator(o, ok)
    \/ NextEpoch
    \/ \E ok \in BOOLEAN : CommitSync(ok)

BeaconEvent ==
    \/ \E p \in ProposalSlots : SkipEvent(p) \/ OnTransition(p)
    \/ StreamEnds

SyncerNext == SyncerStep \/ BeaconEvent \/ CrashRestart

(* Every call the task awaits is retried or returns, so the task goes on   *)
(* from any await; the beacon chain owes it no event.                      *)
SyncerFairness == WF_syncerVars(SyncerStep)

SyncerSpec == SyncerInit /\ [][SyncerNext]_syncerVars

FairSyncerSpec == SyncerSpec /\ SyncerFairness

-------------------------------------------------------------------------------
(* The sync state saved in the database is a promise: every epoch up to it *)
(* was looked over, by transactions that committed.  (Epoch 0 is the state *)
(* of a database that was never synced.)                                   *)
NoEpochSkipped ==
    \A e \in db.syncState : e # 0 => 0 .. e \subseteq covered

(* A sync is only declared done when the proposers of every epoch it       *)
(* looped over, as they turned out in the end, are in the database: no     *)
(* error in the middle, which is only logged, is committed over, and no    *)
(* draft of an epoch stands for its duties.                                *)
SyncedWasRegistered ==
    [][pc = "commit" /\ pc' = "stream" /\ state' = "Synced" =>
         /\ transition \in db'.syncState
         /\ \A e \in visited :
              \A v \in Duties[e] \cap ActiveValidators :
                SourceOperator[v] # NoOperator =>
                  /\ db'.registrations[v] # NoRegistration
                  /\ SourceOperator[v] \in db'.operators]_syncerVars

(* While readers are let in, no sync is halfway: every validator the       *)
(* syncer registered has its operator registered too, or reads would leave *)
(* it out (memory) or fail (sql).                                          *)
SyncedMeansSettled ==
    state = "Synced" =>
        /\ ~tx.open
        /\ pc \in {"start", "subscribe", "stream", "ended"}
        /\ Synced(db) \subseteq MemoryListValidators(db)

(* When the task is idle, readers are let in.                              *)
IdleMeansSynced == pc = "stream" => state = "Synced"

(* The sync state never moves back while the process runs.                 *)
SyncStateAscends ==
    [][pc # "start" /\ pc' # "start" => last_epoch' >= last_epoch]_syncerVars

(* A sync that began ends, so that readers are let in again.               *)
SyncingEnds == (state = "Syncing") ~> (state = "Synced")

-------------------------------------------------------------------------------
(* Claims of the code's comments that the code does not keep.              *)

(* db/mod.rs:93, "Get a batch of validators from the database, by their    *)
(* beacon chain indices": the ones list_validators shows.                  *)
IndexFindsValidators ==
    state = "Synced" =>
        MemoryValidatorsByIndex(db, Validators) = MemoryListValidators(db)
===============================================================================
