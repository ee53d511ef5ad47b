------------------------------- MODULE RegistryDb -------------------------------
(***************************************************************************)
(* The two backends behind the RegistryDb and SyncTransaction traits, as   *)
(* operators on the stored state and on the open sync transaction.         *)
(*                                                                         *)
(*   memory  InMemoryDb: maps behind locks.  A sync transaction holds the  *)
(*           same maps, so what it writes is visible at once, nothing      *)
(*           fails and nothing can be undone.                              *)
(*   sql     SQLDb: a sync transaction is a Postgres transaction.  Any     *)
(*           statement may fail, one that inserts a primary key twice      *)
(*           does; a failed statement aborts the transaction it is in.     *)
(*           The tables are those the statements are written for (the      *)
(*           README says where pg_ddl.sql differs).                        *)
(*                                                                         *)
(* A registration keeps what tells its writers apart: its operator, and    *)
(* whether the API wrote it (with the signature, gas limit and expiry of   *)
(* the request) or the syncer (with no signature and fixed values).        *)
(***************************************************************************)
EXTENDS Integers, FiniteSets

CONSTANTS
    Validators,      \* BLS public keys; a validator stands for its index too
    Operators,       \* signer addresses
    NoRegistration,
    MaxEpoch,        \* bound on epochs, for TLC
    Backend,         \* "memory" or "sql"
    FaultsAllowed    \* may SQL fail for reasons of its own?

ASSUME BackendAssumption ==
    /\ Backend \in {"memory", "sql"}
    /\ FaultsAllowed \in BOOLEAN

ASSUME MaxEpochAssumption == MaxEpoch \in Nat

Epochs == 0 .. MaxEpoch

Registration == [operator : Operators, origin : {"api", "sync"}]

ASSUME NoRegistrationAssumption == NoRegistration \notin Registration

(* "indexed" is index_to_pubkey (memory) or the index column (sql);        *)
(* "syncState" is the single value (memory) or the epochs of the table's   *)
(* rows (sql), which is keyed by block number.                             *)
DbState == [registrations : [Validators -> Registration \cup {NoRegistration}],
            operators     : SUBSET Operators,
            indexed       : SUBSET Validators,
            syncState     : SUBSET Epochs]

(* Under memory only "open" is used.                                       *)
TxState == [open          : BOOLEAN,
            aborted       : BOOLEAN,
            registrations : [Validators -> Registration \cup {NoRegistration}],
            operators     : SUBSET Operators]

NoRegistrations == [v \in Validators |-> NoRegistration]

NoTx == [open |-> FALSE, aborted |-> FALSE,
         registrations |-> NoRegistrations, operators |-> {}]

OpenTx == [NoTx EXCEPT !.open = TRUE]

(* Postgres undoes a transaction at its first failed statement.            *)
AbortedTx == [OpenTx EXCEPT !.aborted = TRUE]

EmptyDb == [registrations |-> NoRegistrations, operators |-> {},
            indexed |-> {}, syncState |-> {}]

Registered(d) == {v \in Validators : d.registrations[v] # NoRegistration}

(* The validators whose registration the syncer wrote.                     *)
Synced(d) == {v \in Registered(d) : d.registrations[v].origin = "sync"}

(* A batch maps some validators to registrations.                          *)
Insert(registrations, batch) ==
    [v \in Validators |-> IF v \in DOMAIN batch THEN batch[v] ELSE registrations[v]]

Remove(registrations, vs) ==
    [v \in Validators |-> IF v \in vs THEN NoRegistration ELSE registrations[v]]

-------------------------------------------------------------------------------
(* Plausible bugs, one operator each.                                      *)
Mut_MemoryDeregister(d, vs) == d

Mut_SqlRegister(d, batch) == d

Mut_SqlCommit(d, t, saved) ==
    [d EXCEPT !.operators = @ \cup t.operators, !.syncState = saved]

Mut_MemoryTxRegisterOperator(d, o) == d

-------------------------------------------------------------------------------
(* memory                                                                  *)

MemoryRegister(d, batch) ==
    [d EXCEPT !.registrations = Insert(@, batch),
              !.indexed = @ \cup DOMAIN batch]

(* index_to_pubkey keeps the entries of what is removed.                   *)
MemoryDeregister(d, vs) == [d EXCEPT !.registrations = Remove(@, vs)]

(* The sync transaction does not hold index_to_pubkey.                     *)
MemoryTxRegister(d, batch) == [d EXCEPT !.registrations = Insert(@, batch)]

MemoryTxRegisterOperator(d, o) == [d EXCEPT !.operators = @ \cup {o}]

MemoryCommit(d, epoch) == [d EXCEPT !.syncState = {epoch}]

-------------------------------------------------------------------------------
(* sql                                                                     *)

(* The INSERTs have no ON CONFLICT clause, and pubkey is the primary key.  *)
RegistrationConflict(d, t, batch) ==
    \E v \in DOMAIN batch :
        d.registrations[v] # NoRegistration \/ t.registrations[v] # NoRegistration

(* A statement of an aborted transaction fails too.                        *)
TxInsertFails(d, t, batch) == t.aborted \/ RegistrationConflict(d, t, batch)

TxInsertOperatorFails(d, t, o) == t.aborted \/ o \in d.operators \cup t.operators

(* May a call end this way, if "fails" says that SQL makes it fail?        *)
Outcome(ok, fails) ==
    IF Backend = "memory" THEN ok
    ELSE IF ok THEN ~fails ELSE fails \/ FaultsAllowed

(* Has a statement or a commit that ended this way taken effect?  When the *)
(* connection breaks, its answer may be what was lost.                     *)
TakesEffect(ok, fails) ==
    IF ok THEN {TRUE} ELSE IF fails THEN {FALSE} ELSE BOOLEAN

SqlRegister(d, batch) ==
    [d EXCEPT !.registrations = Insert(@, batch),
              !.indexed = @ \cup DOMAIN batch]

SqlDeregister(d, vs) ==
    [d EXCEPT !.registrations = Remove(@, vs), !.indexed = @ \ vs]

SqlTxInsert(t, batch, ok) ==
    IF ok THEN [t EXCEPT !.registrations = Insert(@, batch)] ELSE AbortedTx

SqlTxInsertOperator(t, o, ok) ==
    IF ok THEN [t EXCEPT !.operators = @ \cup {o}] ELSE AbortedTx

TxRegistered(t) == {v \in Validators : t.registrations[v] # NoRegistration}

(* What a commit may make of the table of sync states: a row of its own,   *)
(* or one in place of an earlier row with the same block number, which a   *)
(* transition has too when no block was proposed since.                    *)
SavedStates(d, epoch) ==
    {d.syncState \cup {epoch}}
        \cup {(d.syncState \ {e}) \cup {epoch} : e \in d.syncState}

SqlCommit(d, t, saved) ==
    [d EXCEPT
       !.registrations = Insert(@, [v \in TxRegistered(t) |-> t.registrations[v]]),
       !.operators = @ \cup t.operators,
       !.indexed   = @ \cup TxRegistered(t),
       !.syncState = saved]

-------------------------------------------------------------------------------
(* Reads.  A registry entry needs the operator's RPC endpoint, so the      *)
(* memory backend leaves out the validators of operators it does not know. *)

MemoryListValidators(d) ==
    {v \in Registered(d) : d.registrations[v].operator \in d.operators}

MemoryValidatorsByPubkey(d, vs) == vs \cap MemoryListValidators(d)

MemoryValidatorsByIndex(d, vs) == vs \cap MemoryListValidators(d) \cap d.indexed

(* list_registrations reads rows into a struct whose rpc column it does    *)
(* not select: any row fails it.                                           *)
SqlRegistrationsFail(d) == Registered(d) # {}

(* A row without an operator fails the query's whole conversion.           *)
SqlListFails(d, vs) ==
    \E v \in vs \cap Registered(d) : d.registrations[v].operator \notin d.operators

SqlValidators(d, vs) == vs \cap Registered(d)
===============================================================================
