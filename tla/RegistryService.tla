---------------------------- MODULE RegistryService ----------------------------
(***************************************************************************)
(* The registry process: HTTP handlers (api/mod.rs) that put actions on a  *)
(* bounded channel (api/actions.rs), the actor that takes them off one at  *)
(* a time (registry.rs), and the syncer, which shares the database and the *)
(* watch channel with the actor.                                           *)
(*                                                                         *)
(* A handler waits for room in the channel, then for its answer; a         *)
(* timeout layer may drop it at either point.  Every stretch of the        *)
(* actor's code between two awaits is an action, so that the syncer may    *)
(* move between the actor's check of the sync state and its database call. *)
(***************************************************************************)
EXTENDS Syncer

CONSTANTS
    Requests,        \* the HTTP requests of a behaviour
    Calls,           \* what a request may ask
    NoCall,
    NoRequest,
    ActionBuffer     \* capacity of the channel, 256 in the code

Writes == {"register", "deregister"}

Kinds == Writes \cup {"registrations", "validators", "by_pubkeys", "by_indices",
                      "validator", "operators", "operator", "lookahead"}

(* A call has the fields of every kind and uses those of its own.          *)
Call == [kind : Kinds, pubkeys : Seq(Validators), signatures : Nat,
         operator : Operators, epoch : Nat]

ASSUME ServiceAssumption ==
    /\ Calls \subseteq Call
    /\ NoCall \notin Call
    /\ NoRequest \notin Requests
    /\ ActionBuffer \in Nat \ {0}

VARIABLES
    call,            \* what each request asks
    client,          \* where its handler is, or how it ended
    queue,           \* the channel
    current,         \* the request of the action the actor is executing
    at,              \* where the actor is
    reply,           \* what the last successful read returned
    applied,         \* history: requests whose database write was executed
    served,          \* history: requests the actor has answered
    acked            \* history: what answered writes say of each validator

serviceVars == <<call, client, queue, current, at, reply, applied, served, acked>>
vars == <<syncerVars, serviceVars>>

InFlight == {"sending", "waiting"}

Refusals == {"buffer_full", "bad_request", "beacon_error"}

Answers == {"ok", "not_found", "bad_request", "beacon_error", "db_error"}

ServiceTypeOK ==
    /\ SyncerTypeOK
    /\ call \in [Requests -> Calls \cup {NoCall}]
    /\ client \in [Requests -> {"idle"} \cup InFlight \cup Answers
                               \cup {"buffer_full", "timeout", "reset"}]
    /\ queue \in Seq(Requests) /\ Len(queue) <= ActionBuffer
    /\ current \in Requests \cup {NoRequest}
    /\ at \in {"boot", "idle", "beacon", "wait", "db", "down"}
    /\ reply \subseteq Validators \cup Operators
    /\ applied \subseteq Requests
    /\ served \subseteq Requests
    /\ acked \in [Validators -> {"in", "out", "unknown"}]

ServiceInit ==
    /\ SyncerInit
    /\ call = [r \in Requests |-> NoCall]
    /\ client = [r \in Requests |-> "idle"]
    /\ queue = <<>> /\ current = NoRequest /\ at = "boot" /\ reply = {}
    /\ applied = {} /\ served = {}
    /\ acked = [v \in Validators |-> "unknown"]

-------------------------------------------------------------------------------
(* into_items: the public keys zipped with the signatures, so that the     *)
(* shorter list decides.                                                   *)
Items(c) == {c.pubkeys[i] : i \in {j \in DOMAIN c.pubkeys : j <= c.signatures}}

Pubkeys(c) == {c.pubkeys[i] : i \in DOMAIN c.pubkeys}

ApiBatch(c) == [v \in Items(c) |-> [operator |-> c.operator, origin |-> "api"]]

(* Requests whose write may still be executed, their handler's fate apart. *)
Pending ==
    {current} \cup {queue[i] : i \in DOMAIN queue}
        \cup {r \in Requests : client[r] = "sending"}

(* What the clients know after request r's write was answered: something,  *)
(* unless another write to the same validator may come before or after.    *)
Acknowledge(r) ==
    LET contended == UNION {Pubkeys(call[q]) : q \in {p \in Pending \cap Requests :
                                p # r /\ call[p].kind \in Writes}}
        new == IF call[r].kind = "register" THEN "in" ELSE "out"
    IN  [v \in Validators |-> IF v \in Items(call[r]) \ contended THEN new ELSE acked[v]]

-------------------------------------------------------------------------------
(* Plausible bugs, one operator each.                                      *)
Mut_SendTimeout(r) ==
    /\ client[r] = "sending" /\ Len(queue) <= ActionBuffer
    /\ client' = [client EXCEPT ![r] = "buffer_full"]
    /\ UNCHANGED <<syncerVars, call, current, at, reply, applied, served, acked>>
    /\ queue' = IF Len(queue) < ActionBuffer THEN Append(queue, r) ELSE queue

Mut_Enqueue(r) ==
    /\ client[r] = "sending"
    /\ queue' = Append(queue, r)
    /\ client' = [client EXCEPT ![r] = "waiting"]
    /\ UNCHANGED <<syncerVars, call, current, at, reply, applied, served, acked>>

(* A channel that makes room by dropping its oldest action.                *)
Mut_LossyEnqueue(r) ==
    /\ client[r] = "sending"
    /\ queue' = Append(IF Len(queue) < ActionBuffer THEN queue ELSE Tail(queue), r)
    /\ client' = [client EXCEPT ![r] = "waiting"]
    /\ UNCHANGED <<syncerVars, call, current, at, reply, applied, served, acked>>

-------------------------------------------------------------------------------
(* main                                                                    *)

ResetClients == [r \in Requests |-> IF client[r] \in InFlight THEN "reset" ELSE client[r]]

(* The API accepts requests before main connects to the database and       *)
(* spawns the syncer and the actor.  If it cannot, the process ends.       *)
Boot(ok) ==
    /\ at = "boot"
    /\ Outcome(ok, FALSE)
    /\ IF ok THEN at' = "idle" /\ UNCHANGED <<client, queue>>
             ELSE at' = "down" /\ client' = ResetClients /\ queue' = <<>>
    /\ UNCHANGED <<syncerVars, call, current, reply, applied, served, acked>>

-------------------------------------------------------------------------------
(* Handlers                                                                *)

(* A request arrives; its handler makes an action and starts to send it.   *)
Send(r, c) ==
    /\ client[r] = "idle" /\ at # "down"
    /\ client' = [client EXCEPT ![r] = "sending"]
    /\ call' = [call EXCEPT ![r] = c]
    /\ acked' = IF c.kind \in Writes
                  THEN [v \in Validators |-> IF v \in Pubkeys(c) THEN "unknown" ELSE acked[v]]
                  ELSE acked
    /\ UNCHANGED <<syncerVars, queue, current, at, reply, applied, served>>

Enqueue(r) ==
    /\ client[r] = "sending" /\ Len(queue) < ActionBuffer
    /\ queue' = Append(queue, r)
    /\ client' = [client EXCEPT ![r] = "waiting"]
    /\ UNCHANGED <<syncerVars, call, current, at, reply, applied, served, acked>>

(* send_timeout gives the action back: it was never on the channel.        *)
SendTimeout(r) ==
    /\ client[r] = "sending" /\ Len(queue) = ActionBuffer
    /\ client' = [client EXCEPT ![r] = "buffer_full"]
    /\ UNCHANGED <<syncerVars, call, queue, current, at, reply, applied, served, acked>>

(* The timeout layer drops the handler.  An action that is on the channel  *)
(* or with the actor stays there.                                          *)
RequestTimeout(r) ==
    /\ client[r] \in InFlight
    /\ client' = [client EXCEPT ![r] = "timeout"]
    /\ UNCHANGED <<syncerVars, call, queue, current, at, reply, applied, served, acked>>

-------------------------------------------------------------------------------
(* The actor                                                               *)

Receive ==
    /\ at = "idle" /\ queue # <<>>
    /\ current' = Head(queue)
    /\ queue' = Tail(queue)
    /\ at' = IF call[Head(queue)].kind \in {"register", "lookahead"} THEN "beacon" ELSE "wait"
    /\ reply' = {}
    /\ UNCHANGED <<syncerVars, call, client, applied, served, acked>>

(* The answer is sent on the oneshot channel; nobody may be listening.     *)
Respond(status) ==
    /\ at' = "idle" /\ current' = NoRequest
    /\ client' = IF client[current] = "waiting"
                   THEN [client EXCEPT ![current] = status] ELSE client
    /\ served' = served \cup {current}
    /\ acked' = IF status = "ok" /\ call[current].kind \in Writes /\ client[current] = "waiting"
                  THEN Acknowledge(current) ELSE acked
    /\ UNCHANGED <<call, queue>>

(* The active validators are as many as the public keys of the batch.      *)
AllActive(c) ==
    Cardinality(Pubkeys(c) \cap ActiveValidators) = Len(c.pubkeys)

(* get_active_validators_by_pubkey, which is not retried, and the check of *)
(* its answer.                                                             *)
CheckValidators ==
    /\ at = "beacon" /\ call[current].kind = "register"
    /\ \/ AllActive(call[current]) /\ at' = "wait"
          /\ UNCHANGED <<call, client, queue, current, served, acked>>
       \/ ~AllActive(call[current]) /\ Respond("bad_request")
       \/ Respond("beacon_error")
    /\ UNCHANGED <<syncerVars, reply, applied>>

(* get_lookahead is retried until the beacon node answers.                 *)
FetchDuties ==
    /\ at = "beacon" /\ call[current].kind = "lookahead"
    /\ call[current].epoch \in ServedEpochs
    /\ at' = "wait"
    /\ UNCHANGED <<syncerVars, call, client, queue, current, reply, applied, served, acked>>

WaitForSync ==
    /\ at = "wait" /\ state = "Synced"
    /\ at' = "db"
    /\ UNCHANGED <<syncerVars, call, client, queue, current, reply, applied, served, acked>>

(* The watch channel's sender is gone and its last value is Syncing:       *)
(* wait_for_sync panics in the main task and the process ends.             *)
SyncerDropped ==
    /\ at = "wait" /\ state = "Syncing" /\ pc = "ended"
    /\ at' = "down" /\ current' = NoRequest /\ queue' = <<>>
    /\ client' = ResetClients
    /\ UNCHANGED <<syncerVars, call, reply, applied, served, acked>>

(* What a write makes of the database.                                     *)
WriteResult(c) ==
    CASE Backend = "memory" /\ c.kind = "register"   -> MemoryRegister(db, ApiBatch(c))
      [] Backend = "memory" /\ c.kind = "deregister" -> MemoryDeregister(db, Items(c))
      [] Backend = "sql" /\ c.kind = "register"   -> SqlRegister(db, ApiBatch(c))
      [] Backend = "sql" /\ c.kind = "deregister" -> SqlDeregister(db, Items(c))
      [] OTHER -> db

(* The sql backend refuses a public key that is already registered.        *)
WriteFails(c) == c.kind = "register" /\ RegistrationConflict(db, tx, ApiBatch(c))

(* An INSERT of a key that an open transaction has inserted blocks until   *)
(* that transaction ends.                                                  *)
WaitsForSync(t, batch) == DOMAIN batch \cap TxRegistered(t) # {}

DbWrite(ok) ==
    /\ at = "db" /\ call[current].kind \in Writes
    /\ call[current].kind = "register" =>
           ~WaitsForSync(tx, ApiBatch(call[current]))
    /\ Outcome(ok, WriteFails(call[current]))
    /\ \E done \in TakesEffect(ok, WriteFails(call[current])) :
         db' = IF done THEN WriteResult(call[current]) ELSE db
    /\ applied' = applied \cup {current}
    /\ Respond(IF ok THEN "ok" ELSE "db_error")
    /\ UNCHANGED <<tx, pc, state, last_epoch, stream, loopVars, covered, reply>>

(* The validators a read looks for, when it does not look for all.         *)
Wanted(c) ==
    CASE c.kind \in {"by_pubkeys", "by_indices"} -> Pubkeys(c)
      [] c.kind = "validator" -> {c.pubkeys[1]}
      [] c.kind = "lookahead" -> Duties[c.epoch]
      [] OTHER -> Validators

ReadResult(c) ==
    CASE c.kind = "registrations" -> Registered(db)
      [] c.kind = "operators" -> db.operators
      [] c.kind = "operator" -> db.operators \cap {c.operator}
      [] c.kind = "by_indices" /\ Backend = "memory" -> MemoryValidatorsByIndex(db, Wanted(c))
      [] OTHER -> IF Backend = "memory" THEN MemoryValidatorsByPubkey(db, Wanted(c))
                                        ELSE SqlValidators(db, Wanted(c))

ReadMustFail(c) ==
    /\ c.kind \notin {"operators", "operator"}
    /\ IF c.kind = "registrations" THEN SqlRegistrationsFail(db)
                                   ELSE SqlListFails(db, Wanted(c))

DbRead(ok) ==
    /\ at = "db" /\ call[current].kind \notin Writes
    /\ Outcome(ok, ReadMustFail(call[current]))
    /\ LET found == ReadResult(call[current]) IN
         IF ~ok THEN Respond("db_error") /\ UNCHANGED reply
         ELSE IF call[current].kind \in {"validator", "operator"} /\ found = {}
           THEN Respond("not_found") /\ UNCHANGED reply
           ELSE Respond("ok") /\ reply' = found
    /\ UNCHANGED <<syncerVars, applied>>

Actor ==
    \/ Receive
    \/ CheckValidators
    \/ FetchDuties
    \/ WaitForSync
    \/ SyncerDropped
    \/ \E ok \in BOOLEAN : DbWrite(ok) \/ DbRead(ok)

Handler(r) ==
    \/ Enqueue(r)
    \/ SendTimeout(r)

(* The process dies, at any moment or by SyncerDropped, and starts again.  *)
ServiceRestart ==
    /\ CrashRestart
    /\ client' = ResetClients
    /\ queue' = <<>> /\ current' = NoRequest /\ at' = "boot" /\ reply' = {}
    /\ acked' = IF Backend = "memory" THEN [v \in Validators |-> "unknown"] ELSE acked
    /\ UNCHANGED <<call, applied, served>>

SyncerRuns == at \notin {"boot", "down"} /\ UNCHANGED serviceVars

ServiceNext ==
    \/ \E ok \in BOOLEAN : Boot(ok)
    \/ \E r \in Requests, c \in Calls : Send(r, c)
    \/ \E r \in Requests : Handler(r) \/ RequestTimeout(r)
    \/ Actor
    \/ (SyncerStep \/ BeaconEvent) /\ SyncerRuns
    \/ ServiceRestart

(* The runtime runs every task that can run, and the two timeouts are      *)
(* timers; nothing obliges a client to send, or a request to take so long  *)
(* that it times out.                                                      *)
ServiceFairness ==
    /\ WF_vars(SyncerStep /\ SyncerRuns)
    /\ WF_vars(Actor)
    /\ WF_vars(\E ok \in BOOLEAN : Boot(ok))
    /\ \A r \in Requests : WF_vars(Handler(r))

ServiceSpec == ServiceInit /\ [][ServiceNext]_vars

FairServiceSpec == ServiceSpec /\ ServiceFairness

-------------------------------------------------------------------------------
(* A request that was refused never reaches the database, then or later,   *)
(* so that the client may safely send it again: neither one the channel    *)
(* had no room for nor a batch that failed its check.                      *)
RefusedIsNotApplied ==
    \A r \in Requests : client[r] \in Refusals =>
        r \notin applied /\ r # current /\ \A i \in DOMAIN queue : queue[i] # r

(* No handler waits for an answer that nobody will send: its action is on  *)
(* the channel or with the actor, through timeouts of others, refusals, a  *)
(* failed start, the panic of wait_for_sync, crashes and restarts.         *)
WaitingIsOnItsWay ==
    \A r \in Requests : client[r] = "waiting" =>
        r = current \/ \E i \in DOMAIN queue : queue[i] = r

(* The panic of wait_for_sync is never reached: however the syncer's task   *)
(* ends, by a closed stream or an overflow, it does not end between the    *)
(* Syncing that the actor waits on and its Synced, and so the process and  *)
(* the actions on its channel do not end with it.  (The beacon node is     *)
(* taken to send public keys that can be parsed: sync/mod.rs:226.)         *)
NoWaitIsAbandoned == at = "wait" /\ state = "Syncing" => pc # "ended"

(* What list_registrations answers agrees with every write answered before *)
(* it, whatever timed out, was refused or was synced meanwhile, and so     *)
(* does list_validators where it leaves no validator out.  Only a sync may *)
(* bring back a deregistered validator, when it has an operator for it.    *)
ReadsSeeAcknowledgedWrites ==
    [][\A r \in Requests :
         /\ client[r] = "waiting" /\ client'[r] = "ok"
         /\ \/ call[r].kind = "registrations"
            \/ call[r].kind = "validators" /\ Backend = "sql"
         =>
             \A v \in Validators :
                 /\ acked[v] = "in" => v \in reply'
                 /\ acked[v] = "out" /\ SourceOperator[v] = NoOperator => v \notin reply']_vars

(* The database of the SQL backend is an atomic registry, whatever fails   *)
(* or crashes and whenever: nothing of a sync that did not commit is ever  *)
(* in it, and nothing of one is missing, while the API goes on writing.    *)
Atomic == INSTANCE AtomicRegistry WITH
              registrations <- db.registrations,
              operators <- db.operators,
              syncedEpochs <- db.syncState

ImplementsAtomicRegistry == Atomic!Spec

(* An action on the channel is executed, its client gone or not, and so    *)
(* the actor never stops serving: it does not wait for ever for a sync to  *)
(* end or for the beacon node.                                             *)
AcceptedIsServed ==
    \A r \in Requests : client[r] = "waiting" ~> r \in served

-------------------------------------------------------------------------------
(* Claims of the code's comments that the code does not keep.              *)

(* registry.rs:30-31, "The implementation MUST block any DB reads & writes *)
(* until the syncer is done syncing the registry."                         *)
NoDbAccessWhileSyncing == [][at = "db" /\ at' = "idle" => state = "Synced"]_vars

(* sync/mod.rs:54-55, "the whole registry process should fail if the       *)
(* syncer is dropped": a request that arrives later is not served.         *)
FailsWithSyncer == [][at = "wait" /\ at' = "db" => pc # "ended"]_vars

(* api/spec.rs:82, "This will return `TooEarly` if the epoch is too far in *)
(* the future": it is answered, and does not keep the actor.               *)
TooEarlyIsAnswered ==
    \A r \in Requests :
        (client[r] = "waiting" /\ call[r].kind = "lookahead") ~> (r \in served)
===============================================================================
