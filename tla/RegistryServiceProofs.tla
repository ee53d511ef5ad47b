------------------------- MODULE RegistryServiceProofs -------------------------
(***************************************************************************)
(* Theorems about RegistryService, for any requests and calls, any         *)
(* capacity of the channel, and either backend where not said otherwise:   *)
(* the syncer's invariants survive the API's writes, requests go through   *)
(* the channel at most once, and the SQL database is an AtomicRegistry.    *)
(***************************************************************************)
EXTENDS RegistryService, SyncerProofs, SequenceTheorems

Busy == {"beacon", "wait", "db"}

(* Requests that may not have reached the channel, or were refused.        *)
Outside == {"idle", "sending"} \cup Refusals

InQueue == {queue[i] : i \in DOMAIN queue}

(* The variables of the handlers, the channel and the actor.               *)
ChannelTypeOK ==
    /\ call \in [Requests -> Calls \cup {NoCall}]
    /\ client \in [Requests -> {"idle"} \cup InFlight \cup Answers
                               \cup {"buffer_full", "timeout", "reset"}]
    /\ queue \in Seq(Requests) /\ Len(queue) <= ActionBuffer
    /\ current \in Requests \cup {NoRequest}
    /\ at \in {"boot", "idle", "beacon", "wait", "db", "down"}
    /\ reply \subseteq Validators \cup Operators
    /\ applied \subseteq Requests
    /\ served \subseteq Requests
    /\ acked \in [Validators -> {"in", "out", "unknown"}]

(* A request is in one place at a time, executed at most once, and not at  *)
(* all when it was refused.                                                *)
OnceInv ==
    /\ \A r \in Requests : client[r] # "idle" => call[r] \in Calls
    /\ at \in Busy <=> current # NoRequest
    /\ \A r \in Requests : client[r] \in Outside =>
         r \notin applied /\ r # current /\ r \notin InQueue
    /\ \A i, j \in DOMAIN queue : queue[i] = queue[j] => i = j
    /\ current \notin InQueue /\ current \notin applied
    /\ \A i \in DOMAIN queue : queue[i] \notin applied

ChannelInv == ChannelTypeOK /\ OnceInv

ServiceInv == SyncerInv /\ ChannelInv

-------------------------------------------------------------------------------
(* The channel                                                             *)

(* A call's batch is a batch of registrations by the API.                  *)
LEMMA ApiBatchType ==
    ASSUME NEW c \in Calls
    PROVE  /\ Items(c) \subseteq Validators /\ Pubkeys(c) \subseteq Validators
           /\ ApiBatch(c) \in [Items(c) -> Registration]
           /\ \A v \in Items(c) : ApiBatch(c)[v] = [operator |-> c.operator, origin |-> "api"]
           /\ c.operator \in Operators
<1>1. c \in Call
  BY ServiceAssumption
<1>2. c.pubkeys \in Seq(Validators) /\ c.operator \in Operators
  BY <1>1 DEF Call
<1>3. Items(c) \subseteq Validators /\ Pubkeys(c) \subseteq Validators
  BY <1>2 DEF Items, Pubkeys
<1> QED
  BY <1>2, <1>3 DEF ApiBatch, Registration

(* What Respond keeps, whatever it answers.                                *)
LEMMA RespondKeeps ==
    ASSUME ChannelInv, at \in Busy, NEW status \in Answers, Respond(status),
           \/ applied' = applied
           \/ applied' = applied \cup {current} /\ status \notin Refusals,
           reply' \subseteq Validators \cup Operators
    PROVE  ChannelInv'
<1> USE DEF ChannelInv, Respond
<1>1. current \in Requests /\ current # NoRequest /\ NoRequest \notin Requests
  BY ServiceAssumption DEF OnceInv, ChannelTypeOK
<1>2. Acknowledge(current) \in [Validators -> {"in", "out", "unknown"}]
  BY DEF Acknowledge, ChannelTypeOK
<1>3. client' \in [Requests -> {"idle"} \cup InFlight \cup Answers
                               \cup {"buffer_full", "timeout", "reset"}]
  BY <1>1 DEF ChannelTypeOK
<1>4. ChannelTypeOK'
  BY <1>1, <1>2, <1>3 DEF ChannelTypeOK
<1>5. OnceInv'
  <2>1. \A r \in Requests : r # current => client'[r] = client[r]
    BY <1>1 DEF ChannelTypeOK
  <2>2. client'[current] = client[current] \/ client'[current] = status
    BY <1>1 DEF ChannelTypeOK
  <2>3. client[current] \notin Outside
    BY <1>1 DEF OnceInv
  <2>4. \A r \in Requests : client'[r] # "idle" => call'[r] \in Calls
    BY <2>1, <2>3 DEF OnceInv, Outside
  <2>5. at' \in Busy <=> current' # NoRequest
    BY DEF Busy
  <2>6. \A r \in Requests : client'[r] \in Outside =>
          r \notin applied' /\ r # current' /\ r \notin InQueue'
    <3> SUFFICES ASSUME NEW r \in Requests, client'[r] \in Outside
                 PROVE  r \notin applied' /\ r # current' /\ r \notin InQueue'
      OBVIOUS
    <3>1. InQueue' = InQueue
      BY DEF InQueue
    <3>2. CASE r # current
      BY <1>1, <2>1, <3>1, <3>2 DEF OnceInv
    <3>3. CASE r = current
      BY <1>1, <2>2, <2>3, <3>1, <3>3 DEF OnceInv, Outside, Answers
    <3> QED
      BY <3>2, <3>3
  <2>7. current' \notin InQueue' /\ current' \notin applied'
    BY <1>1 DEF InQueue, ChannelTypeOK
  <2>8. \A i \in DOMAIN queue' : queue'[i] \notin applied'
    BY DEF OnceInv, InQueue
  <2>9. \A i, j \in DOMAIN queue' : queue'[i] = queue'[j] => i = j
    BY DEF OnceInv
  <2> QED
    BY <2>4, <2>5, <2>6, <2>7, <2>8, <2>9 DEF OnceInv
<1> QED
  BY <1>4, <1>5

(* Handlers: a request enters the channel at its end, or never.            *)
LEMMA HandlerStep ==
    ASSUME ChannelInv, NEW r \in Requests,
           Handler(r) \/ RequestTimeout(r) \/ \E c \in Calls : Send(r, c)
    PROVE  ChannelInv'
<1> USE DEF ChannelInv
<1>1. CASE Enqueue(r)
  <2>1. /\ queue' = Append(queue, r) /\ client' = [client EXCEPT ![r] = "waiting"]
        /\ client[r] = "sending" /\ Len(queue) < ActionBuffer
        /\ UNCHANGED <<call, current, at, reply, applied, served, acked>>
    BY <1>1 DEF Enqueue
  <2>2. queue \in Seq(Requests)
    BY DEF ChannelTypeOK
  <2>3. /\ queue' \in Seq(Requests) /\ Len(queue') = Len(queue) + 1
        /\ \A i \in DOMAIN queue : queue'[i] = queue[i]
        /\ queue'[Len(queue) + 1] = r
        /\ DOMAIN queue' = DOMAIN queue \cup {Len(queue) + 1}
        /\ DOMAIN queue = 1 .. Len(queue) /\ Len(queue) \in Nat
    BY <2>1, <2>2
  <2>4. InQueue' = InQueue \cup {r}
    BY <2>3 DEF InQueue
  <2>5. r \notin applied /\ r # current /\ r \notin InQueue
    BY <2>1 DEF OnceInv, Outside
  <2>6. ChannelTypeOK'
    BY <2>1, <2>3, ServiceAssumption DEF ChannelTypeOK, InFlight
  <2>7. \A q \in Requests : client'[q] = IF q = r THEN "waiting" ELSE client[q]
    BY <2>1 DEF ChannelTypeOK
  <2>8. \A q \in Requests : client'[q] # "idle" => call'[q] \in Calls
    BY <2>1, <2>7 DEF OnceInv
  <2>9. \A q \in Requests : client'[q] \in Outside =>
          q \notin applied' /\ q # current' /\ q \notin InQueue'
    BY <2>1, <2>4, <2>7 DEF OnceInv, Outside, Refusals
  <2>10. \A i, j \in DOMAIN queue' : queue'[i] = queue'[j] => i = j
    BY <2>3, <2>5 DEF OnceInv, InQueue
  <2>11. current' \notin InQueue' /\ current' \notin applied'
    BY <2>1, <2>4, <2>5 DEF OnceInv
  <2>12. \A i \in DOMAIN queue' : queue'[i] \notin applied'
    BY <2>1, <2>3, <2>5 DEF OnceInv
  <2> QED
    BY <2>1, <2>6, <2>8, <2>9, <2>10, <2>11, <2>12 DEF OnceInv
<1>2. CASE SendTimeout(r) \/ RequestTimeout(r)
  <2>1. /\ client' \in {[client EXCEPT ![r] = "buffer_full"], [client EXCEPT ![r] = "timeout"]}
        /\ client[r] \in InFlight
        /\ client'[r] = "timeout" \/ client[r] = "sending"
        /\ UNCHANGED <<call, queue, current, at, reply, applied, served, acked>>
    BY <1>2 DEF SendTimeout, RequestTimeout, InFlight, ChannelTypeOK
  <2>2. \A q \in Requests : q # r => client'[q] = client[q]
    BY <2>1 DEF ChannelTypeOK
  <2>3. ChannelTypeOK'
    BY <2>1 DEF ChannelTypeOK
  <2>4. \A q \in Requests : client'[q] # "idle" => call'[q] \in Calls
    BY <2>1, <2>2 DEF OnceInv, InFlight
  <2>5. \A q \in Requests : client'[q] \in Outside => client[q] \in Outside
    BY <2>1, <2>2 DEF Outside, Refusals, ChannelTypeOK
  <2> QED
    BY <2>1, <2>3, <2>4, <2>5 DEF OnceInv, InQueue
<1>3. ASSUME NEW c \in Calls, Send(r, c) PROVE ChannelInv'
  <2>1. /\ client' = [client EXCEPT ![r] = "sending"] /\ client[r] = "idle"
        /\ call' = [call EXCEPT ![r] = c]
        /\ UNCHANGED <<queue, current, at, reply, applied, served>>
    BY <1>3 DEF Send
  <2>2. acked' \in [Validators -> {"in", "out", "unknown"}]
    BY <1>3 DEF Send, ChannelTypeOK
  <2>3. ChannelTypeOK'
    BY <2>1, <2>2 DEF ChannelTypeOK, InFlight
  <2>4. \A q \in Requests : client'[q] # "idle" => call'[q] \in Calls
    BY <2>1 DEF OnceInv, ChannelTypeOK
  <2>5. \A q \in Requests : client'[q] \in Outside => client[q] \in Outside
    BY <2>1 DEF Outside, ChannelTypeOK
  <2> QED
    BY <2>1, <2>3, <2>4, <2>5 DEF OnceInv, InQueue
<1> QED
  BY <1>1, <1>2, <1>3 DEF Handler

(* The actor takes the oldest action and it alone.                         *)
LEMMA ReceiveStep ==
    ASSUME ChannelInv, Receive
    PROVE  ChannelInv'
<1> USE DEF ChannelInv, Receive
<1>1. queue \in Seq(Requests) /\ queue # <<>>
  BY DEF ChannelTypeOK
<1>2. /\ queue' \in Seq(Requests) /\ Len(queue') = Len(queue) - 1
      /\ \A i \in DOMAIN queue' : i + 1 \in DOMAIN queue /\ queue'[i] = queue[i + 1]
      /\ 1 \in DOMAIN queue /\ current' = queue[1] /\ current' \in Requests
      /\ DOMAIN queue' \subseteq Nat
  BY <1>1
<1>3. InQueue' \subseteq InQueue /\ current' \in InQueue
  BY <1>2 DEF InQueue
<1>4. current' \notin InQueue'
  <2> SUFFICES ASSUME NEW i \in DOMAIN queue', queue'[i] = current' PROVE FALSE
    BY DEF InQueue
  <2>1. i + 1 = 1 /\ i \in Nat
    BY <1>2 DEF OnceInv
  <2>2. i \in 1 .. Len(queue')
    BY <1>2
  <2> QED
    BY <2>1, <2>2
<1>5. ChannelTypeOK'
  BY <1>1, <1>2, ServiceAssumption DEF ChannelTypeOK
<1>6. at' \in Busy /\ current' # NoRequest
  BY <1>2, ServiceAssumption DEF Busy
<1>7. \A r \in Requests : client'[r] \in Outside =>
        r \notin applied' /\ r # current' /\ r \notin InQueue'
  BY <1>3 DEF OnceInv
<1>8. \A i, j \in DOMAIN queue' : queue'[i] = queue'[j] => i = j
  <2> SUFFICES ASSUME NEW i \in DOMAIN queue', NEW j \in DOMAIN queue', queue'[i] = queue'[j]
               PROVE  i = j
    OBVIOUS
  <2>1. i + 1 = j + 1 /\ i \in Nat /\ j \in Nat
    BY <1>2 DEF OnceInv
  <2> QED
    BY <2>1
<1>9. current' \notin applied' /\ \A i \in DOMAIN queue' : queue'[i] \notin applied'
  BY <1>2 DEF OnceInv
<1> QED
  BY <1>4, <1>5, <1>6, <1>7, <1>8, <1>9 DEF OnceInv

(* The process ends, fails to start or starts again: the channel and its   *)
(* actions are gone, and their handlers with them.                         *)
LEMMA ResetStep ==
    ASSUME ChannelInv, client' = ResetClients, queue' = <<>>, current' = NoRequest,
           at' \in {"boot", "down"}, reply' \subseteq Validators \cup Operators,
           acked' \in [Validators -> {"in", "out", "unknown"}],
           served' = served, UNCHANGED <<call, applied>>
    PROVE  ChannelInv'
<1> USE ServiceAssumption DEF ChannelInv
<1>1. /\ \A r \in Requests : client'[r] = IF client[r] \in InFlight THEN "reset" ELSE client[r]
      /\ DOMAIN client' = Requests
  BY DEF ResetClients
<1>2. ChannelTypeOK'
  <2>1. client' \in [Requests -> {"idle"} \cup InFlight \cup Answers
                                  \cup {"buffer_full", "timeout", "reset"}]
    BY DEF ResetClients, ChannelTypeOK
  <2>2. Len(<<>>) <= ActionBuffer /\ <<>> \in Seq(Requests)
    OBVIOUS
  <2> QED
    BY <2>1, <2>2 DEF ChannelTypeOK
<1>3. InQueue' = {} /\ DOMAIN queue' = {}
  BY DEF InQueue
<1>4. \A r \in Requests : client'[r] \in Outside => client[r] \in Outside
  BY <1>1 DEF Outside, Refusals
<1>5. \A r \in Requests : client'[r] \in Outside =>
        r \notin applied' /\ r # current' /\ r \notin InQueue'
  BY <1>3, <1>4 DEF OnceInv
<1>6. \A r \in Requests : client'[r] # "idle" => call'[r] \in Calls
  BY <1>1 DEF OnceInv, InFlight
<1>7. current' \notin applied' /\ at' \notin Busy
  BY DEF ChannelTypeOK, Busy
<1> QED
  BY <1>2, <1>3, <1>5, <1>6, <1>7 DEF OnceInv

(* A read answers with validators or operators.                            *)
LEMMA ReadResultType ==
    ASSUME SyncerTypeOK, NEW c PROVE ReadResult(c) \subseteq Validators \cup Operators
BY DEF ReadResult, SyncerTypeOK, DbState, Registered, MemoryValidatorsByIndex,
       MemoryValidatorsByPubkey, MemoryListValidators, SqlValidators

(* The actor.                                                              *)
LEMMA ActorStep ==
    ASSUME ServiceInv, Actor
    PROVE  ChannelInv'
<1> USE DEF ServiceInv
<1>1. CASE Receive
  BY <1>1, ReceiveStep
<1>2. CASE CheckValidators
  <2>1. CASE at' = "wait" /\ UNCHANGED <<call, client, queue, current, served, acked>>
    BY <1>2, <2>1 DEF CheckValidators, ChannelInv, ChannelTypeOK, OnceInv, InQueue, Busy
  <2>2. ASSUME NEW status \in {"bad_request", "beacon_error"}, Respond(status)
        PROVE  ChannelInv'
    <3>1. at \in Busy /\ status \in Answers /\ applied' = applied
          /\ reply' \subseteq Validators \cup Operators
      BY <1>2 DEF CheckValidators, Busy, Answers, ChannelInv, ChannelTypeOK
    <3> QED
      BY <2>2, <3>1, RespondKeeps
  <2> QED
    BY <1>2, <2>1, <2>2 DEF CheckValidators
<1>3. CASE FetchDuties
  BY <1>3 DEF FetchDuties, ChannelInv, ChannelTypeOK, OnceInv, InQueue, Busy
<1>4. CASE WaitForSync
  BY <1>4 DEF WaitForSync, ChannelInv, ChannelTypeOK, OnceInv, InQueue, Busy
<1>5. CASE SyncerDropped
  <2>1. reply' \subseteq Validators \cup Operators
        /\ acked' \in [Validators -> {"in", "out", "unknown"}]
    BY <1>5 DEF SyncerDropped, ChannelInv, ChannelTypeOK
  <2> QED
    BY <1>5, <2>1, ResetStep DEF SyncerDropped
<1>6. ASSUME NEW ok \in BOOLEAN, DbWrite(ok) PROVE ChannelInv'
  <2>1. PICK status \in {"ok", "db_error"} : Respond(status)
    BY <1>6 DEF DbWrite
  <2>2. at \in Busy /\ status \in Answers /\ status \notin Refusals
        /\ applied' = applied \cup {current} /\ reply' \subseteq Validators \cup Operators
    BY <1>6 DEF DbWrite, Busy, Answers, Refusals, ChannelInv, ChannelTypeOK
  <2> QED
    BY <2>1, <2>2, RespondKeeps
<1>7. ASSUME NEW ok \in BOOLEAN, DbRead(ok) PROVE ChannelInv'
  <2>1. PICK status \in {"ok", "db_error", "not_found"} :
          Respond(status) /\ reply' \in {reply, ReadResult(call[current])}
    BY <1>7 DEF DbRead
  <2>2. reply' \subseteq Validators \cup Operators
    BY <2>1, ReadResultType DEF ChannelInv, ChannelTypeOK, SyncerInv
  <2>3. at \in Busy /\ status \in Answers /\ applied' = applied
    BY <1>7, <2>1 DEF DbRead, Busy, Answers
  <2> QED
    BY <2>1, <2>2, <2>3, RespondKeeps
<1> QED
  BY <1>1, <1>2, <1>3, <1>4, <1>5, <1>6, <1>7 DEF Actor

-------------------------------------------------------------------------------
(* The database                                                            *)

(* A write of the API keeps what the syncer relies on: it waits for the    *)
(* keys of an open transaction, and what it writes is not the syncer's.    *)
LEMMA WriteStep ==
    ASSUME ServiceInv, NEW ok \in BOOLEAN, DbWrite(ok)
    PROVE  /\ SyncerInv'
           /\ db'.syncState = db.syncState /\ db'.operators = db.operators
           /\ \/ db'.registrations = db.registrations
              \/ \E vs \in SUBSET Validators : db'.registrations = Remove(db.registrations, vs)
              \/ \E vs \in SUBSET Validators, o \in Operators :
                   /\ Backend # "memory" => \A v \in vs : db.registrations[v] = NoRegistration
                   /\ db'.registrations = [v \in Validators |-> IF v \in vs
                          THEN [operator |-> o, origin |-> "api"] ELSE db.registrations[v]]
<1> USE DEF ServiceInv, SyncerInv
<1> DEFINE c == call[current]
<1>1. c \in Calls /\ current \in Requests
  <2>1. current \in Requests /\ client[current] # "idle"
    BY DEF DbWrite, ChannelInv, OnceInv, ChannelTypeOK, Busy, Outside
  <2> QED
    BY <2>1 DEF ChannelInv, OnceInv
<1>2. UNCHANGED <<tx, pc, state, last_epoch, stream, loopVars, covered>>
  BY DEF DbWrite
<1>3. c.kind \in {"register", "deregister"}
  BY DEF DbWrite, Writes
<1>4. PICK done \in TakesEffect(ok, WriteFails(c)) :
         db' = IF done THEN WriteResult(c) ELSE db
  BY DEF DbWrite
<1>5. c.kind = "register" => \A v \in Items(c) : tx.registrations[v] = NoRegistration
  BY <1>1, ApiBatchType DEF DbWrite, WaitsForSync, TxRegistered
<1>6. c.kind = "register" /\ done /\ Backend # "memory" =>
        \A v \in Items(c) : db.registrations[v] = NoRegistration
  <2>1. SUFFICES ASSUME c.kind = "register", done, Backend # "memory"
                 PROVE  \A v \in Items(c) : db.registrations[v] = NoRegistration
    OBVIOUS
  <2>2. ~WriteFails(c)
    BY <1>4, <2>1 DEF DbWrite, Outcome, TakesEffect
  <2> QED
    BY <1>1, <2>1, <2>2, ApiBatchType DEF WriteFails, RegistrationConflict
<1>7. db \in DbState
  BY DEF SyncerTypeOK
<1> HIDE DEF c
<1>8. \/ db' = db
      \/ c.kind = "register" /\ done
         /\ db' = [db EXCEPT !.registrations = Insert(@, ApiBatch(c)),
                             !.indexed = @ \cup DOMAIN ApiBatch(c)]
      \/ c.kind = "deregister"
         /\ db' \in {[db EXCEPT !.registrations = Remove(@, Items(c))],
                     [db EXCEPT !.registrations = Remove(@, Items(c)), !.indexed = @ \ Items(c)]}
  BY <1>3, <1>4, BackendAssumption
  DEF WriteResult, MemoryRegister, SqlRegister, MemoryDeregister, SqlDeregister
<1>9. CASE db' = db
  <2>1. SyncerInv'
    BY <1>2, <1>9 DEF SyncerTypeOK, PhaseInv, OperatorsFollow, TransactionInv, Active, loopVars
  <2> QED
    BY <1>9, <2>1
<1>10. CASE /\ c.kind = "register" /\ done
            /\ db' = [db EXCEPT !.registrations = Insert(@, ApiBatch(c)),
                                !.indexed = @ \cup DOMAIN ApiBatch(c)]
  <2>1. /\ ApiBatch(c) \in [Items(c) -> Registration] /\ Items(c) \in SUBSET Validators
        /\ DOMAIN ApiBatch(c) = Items(c) /\ c.operator \in Operators
    BY <1>1, ApiBatchType
  <2>2. Insert(db.registrations, ApiBatch(c)) \in [Validators -> Registration \cup {NoRegistration}]
    BY <1>7, <2>1, InsertType DEF DbState
  <2>3. /\ db' \in DbState /\ db'.registrations = Insert(db.registrations, ApiBatch(c))
        /\ db'.operators = db.operators /\ db'.syncState = db.syncState
    BY <1>7, <1>10, <2>1, <2>2 DEF DbState
  <2>4. db'.registrations = [v \in Validators |-> IF v \in Items(c)
            THEN [operator |-> c.operator, origin |-> "api"] ELSE db.registrations[v]]
    BY <1>1, <2>1, <2>3, ApiBatchType DEF Insert
  <2>5. SyncerTypeOK' /\ PhaseInv'
    BY <1>2, <2>3 DEF SyncerTypeOK, PhaseInv, Active, loopVars
  <2>6. Synced(db') \subseteq Synced(db) \ Items(c)
    BY <2>4 DEF Synced, Registered
  <2>7. OperatorsFollow'
    BY <1>2, <2>3, <2>4, <2>6 DEF OperatorsFollow, loopVars, Synced, Registered
  <2>8. TransactionInv'
    BY <1>2, <1>5, <1>10, <2>3, <2>4 DEF TransactionInv, loopVars, TxRegistered
  <2> QED
    BY <1>6, <1>10, <2>1, <2>3, <2>4, <2>5, <2>7, <2>8
<1>11. CASE /\ c.kind = "deregister"
            /\ db' \in {[db EXCEPT !.registrations = Remove(@, Items(c))],
                        [db EXCEPT !.registrations = Remove(@, Items(c)), !.indexed = @ \ Items(c)]}
  <2>1. Items(c) \in SUBSET Validators
    BY <1>1, ApiBatchType
  <2>2. Remove(db.registrations, Items(c)) \in [Validators -> Registration \cup {NoRegistration}]
    BY <1>7, <2>1 DEF DbState, Remove
  <2>3. /\ db' \in DbState /\ db'.registrations = Remove(db.registrations, Items(c))
        /\ db'.operators = db.operators /\ db'.syncState = db.syncState
    BY <1>7, <1>11, <2>2 DEF DbState
  <2>4. SyncerTypeOK' /\ PhaseInv'
    BY <1>2, <2>3 DEF SyncerTypeOK, PhaseInv, Active, loopVars
  <2>5. \A v \in Validators : db'.registrations[v] \in {db.registrations[v], NoRegistration}
    BY <2>3 DEF Remove
  <2>6. OperatorsFollow'
    BY <1>2, <2>3, <2>5 DEF OperatorsFollow, loopVars, Synced, Registered
  <2>7. TransactionInv'
    BY <1>2, <2>3, <2>5 DEF TransactionInv, loopVars, TxRegistered
  <2> QED
    BY <2>1, <2>3, <2>4, <2>6, <2>7
<1> QED
  BY <1>8, <1>9, <1>10, <1>11

-------------------------------------------------------------------------------
(* The invariant of the service                                            *)

LEMMA InitServiceInv == ServiceInit => ServiceInv
<1> SUFFICES ASSUME ServiceInit PROVE ServiceInv
  OBVIOUS
<1>1. SyncerInv
  BY InitSyncerInv DEF ServiceInit
<1>2. queue = <<>> /\ queue \in Seq(Requests) /\ Len(queue) = 0 /\ DOMAIN queue = {}
  BY DEF ServiceInit
<1>3. ChannelTypeOK
  BY <1>2, ServiceAssumption DEF ServiceInit, ChannelTypeOK
<1>4. OnceInv
  BY <1>2, ServiceAssumption DEF ServiceInit, OnceInv, InQueue, Busy
<1> QED
  BY <1>1, <1>3, <1>4 DEF ServiceInv, ChannelInv

(* main starts the actor, or ends.                                         *)
LEMMA BootStep ==
    ASSUME ChannelInv, NEW ok \in BOOLEAN, Boot(ok)
    PROVE  ChannelInv'
<1> USE DEF Boot
<1>1. current = NoRequest
  BY DEF ChannelInv, OnceInv, Busy
<1>2. CASE ok
  BY <1>2 DEF ChannelInv, ChannelTypeOK, OnceInv, InQueue, Busy
<1>3. CASE ~ok
  <2>1. reply' \subseteq Validators \cup Operators
        /\ acked' \in [Validators -> {"in", "out", "unknown"}]
    BY DEF ChannelInv, ChannelTypeOK
  <2> QED
    BY <1>1, <1>3, <2>1, ResetStep
<1> QED
  BY <1>2, <1>3

(* Which steps leave the syncer alone, and which leave the channel alone.  *)
LEMMA StepKinds ==
    ASSUME [ServiceNext]_vars
    PROVE  \/ UNCHANGED syncerVars
           \/ UNCHANGED serviceVars /\ (SyncerStep \/ BeaconEvent)
           \/ ServiceRestart
           \/ \E ok \in BOOLEAN : DbWrite(ok)
<1>1. CASE UNCHANGED vars
  BY <1>1 DEF vars
<1>2. CASE \E ok \in BOOLEAN : Boot(ok)
  BY <1>2 DEF Boot
<1>3. CASE \E r \in Requests, c \in Calls : Send(r, c)
  BY <1>3 DEF Send
<1>4. CASE \E r \in Requests : Handler(r) \/ RequestTimeout(r)
  BY <1>4 DEF Handler, Enqueue, SendTimeout, RequestTimeout
<1>5. CASE Actor
  BY <1>5 DEF Actor, Receive, CheckValidators, FetchDuties, WaitForSync, SyncerDropped, DbRead
<1>6. CASE (SyncerStep \/ BeaconEvent) /\ SyncerRuns
  BY <1>6 DEF SyncerRuns
<1> QED
  BY <1>1, <1>2, <1>3, <1>4, <1>5, <1>6 DEF ServiceNext

LEMMA ServiceInvStep == ServiceInv /\ [ServiceNext]_vars => ServiceInv'
<1> SUFFICES ASSUME ServiceInv, [ServiceNext]_vars PROVE ServiceInv'
  OBVIOUS
<1> USE DEF ServiceInv
<1>1. SyncerInv'
  <2>1. CASE UNCHANGED syncerVars
    BY <2>1, SyncerInvStep
  <2>2. CASE SyncerStep \/ BeaconEvent
    BY <2>2, SyncerInvStep DEF SyncerNext
  <2>3. CASE ServiceRestart
    BY <2>3, CrashStep DEF ServiceRestart
  <2>4. ASSUME NEW ok \in BOOLEAN, DbWrite(ok) PROVE SyncerInv'
    BY <2>4, WriteStep
  <2> QED
    BY <2>1, <2>2, <2>3, <2>4, StepKinds
<1>2. ChannelInv'
  <2>1. CASE UNCHANGED serviceVars
    BY <2>1 DEF serviceVars, ChannelInv, ChannelTypeOK, OnceInv, InQueue
  <2>2. ASSUME NEW ok \in BOOLEAN, Boot(ok) PROVE ChannelInv'
    BY <2>2, BootStep
  <2>3. ASSUME NEW r \in Requests,
               Handler(r) \/ RequestTimeout(r) \/ \E c \in Calls : Send(r, c)
        PROVE  ChannelInv'
    BY <2>3, HandlerStep
  <2>4. CASE Actor
    BY <2>4, ActorStep
  <2>5. CASE ServiceRestart
    <3>1. reply' \subseteq Validators \cup Operators
          /\ acked' \in [Validators -> {"in", "out", "unknown"}]
      BY <2>5 DEF ServiceRestart, ChannelInv, ChannelTypeOK
    <3> QED
      BY <2>5, <3>1, ResetStep DEF ServiceRestart
  <2> QED
    BY <2>1, <2>2, <2>3, <2>4, <2>5 DEF ServiceNext, SyncerRuns, vars
<1> QED
  BY <1>1, <1>2

(* The inductive invariant: what the syncer holds at each await, and that  *)
(* a request is in one place at a time and executed at most once.          *)
THEOREM ServiceInvariant == ServiceSpec => []ServiceInv
BY InitServiceInv, ServiceInvStep, PTL DEF ServiceSpec

(* Types: the service's variables stay in their sets (ServiceTypeOK); the  *)
(* channel never holds more actions than it has room for.                  *)
THEOREM ServiceTypeCorrect == ServiceSpec => []ServiceTypeOK
<1>1. ServiceInv => ServiceTypeOK
  BY DEF ServiceInv, SyncerInv, ChannelInv, ChannelTypeOK, ServiceTypeOK
<1> QED
  BY <1>1, ServiceInvariant, PTL

(* A request that was refused, by the full channel, by the check of its    *)
(* batch or because the beacon node failed, is never executed              *)
(* (RefusedIsNotApplied): its client may send it again.                    *)
THEOREM RefusedNeverApplied == ServiceSpec => []RefusedIsNotApplied
<1>1. ServiceInv => RefusedIsNotApplied
  BY DEF ServiceInv, ChannelInv, OnceInv, RefusedIsNotApplied, Outside, InQueue
<1> QED
  BY <1>1, ServiceInvariant, PTL

(* A step of the handlers, of the actor or of the process loses no action  *)
(* that a handler waits for.                                               *)
LEMMA NoStepLoses ==
    ASSUME ServiceInv, WaitingIsOnItsWay, [ServiceNext]_vars
    PROVE  WaitingIsOnItsWay'
<1> USE DEF ServiceInv, ChannelInv, ChannelTypeOK, WaitingIsOnItsWay
<1>1. CASE UNCHANGED <<client, queue, current>>
  BY <1>1
<1>2. CASE client' = ResetClients
  BY <1>2 DEF ResetClients, InFlight
<1>3. ASSUME NEW r \in Requests, Handler(r) \/ RequestTimeout(r) \/ \E c \in Calls : Send(r, c)
      PROVE  WaitingIsOnItsWay'
  <2>1. CASE Enqueue(r)
    <3>1. queue \in Seq(Requests) /\ queue' = Append(queue, r)
      BY <2>1 DEF Enqueue
    <3>2. /\ \A i \in DOMAIN queue : i \in DOMAIN queue' /\ queue'[i] = queue[i]
          /\ Len(queue) + 1 \in DOMAIN queue' /\ queue'[Len(queue) + 1] = r
      BY <3>1
    <3> QED
      BY <2>1, <3>2 DEF Enqueue
  <2>2. CASE SendTimeout(r) \/ RequestTimeout(r) \/ \E c \in Calls : Send(r, c)
    BY <2>2 DEF SendTimeout, RequestTimeout, Send
  <2> QED
    BY <1>3, <2>1, <2>2 DEF Handler
<1>4. CASE Receive
  <2>1. queue \in Seq(Requests) /\ queue # <<>> /\ queue' = Tail(queue) /\ current' = Head(queue)
    BY <1>4 DEF Receive
  <2>2. current = NoRequest /\ NoRequest \notin Requests
    BY <1>4, ServiceAssumption DEF Receive, OnceInv, Busy
  <2>3. ASSUME NEW i \in DOMAIN queue, i # 1
        PROVE  \E j \in DOMAIN queue' : queue'[j] = queue[i]
    <3>1. i - 1 \in DOMAIN queue' /\ queue'[i - 1] = queue[i]
      BY <2>1, <2>3
    <3> QED
      BY <3>1
  <2> QED
    BY <1>4, <2>1, <2>2, <2>3 DEF Receive
<1>5. ASSUME NEW status \in Answers, Respond(status) PROVE WaitingIsOnItsWay'
  BY <1>5 DEF Respond, Answers
<1>6. CASE Actor
  <2>1. CASE CheckValidators
    <3>1. "bad_request" \in Answers /\ "beacon_error" \in Answers
      BY DEF Answers
    <3> QED
      BY <1>1, <1>5, <2>1, <3>1 DEF CheckValidators
  <2>2. ASSUME NEW ok \in BOOLEAN, DbWrite(ok) \/ DbRead(ok) PROVE WaitingIsOnItsWay'
    <3>1. \E status \in Answers : Respond(status)
      BY <2>2 DEF DbWrite, DbRead, Answers
    <3> QED
      BY <1>5, <3>1
  <2>3. CASE FetchDuties \/ WaitForSync
    BY <1>1, <2>3 DEF FetchDuties, WaitForSync
  <2>4. CASE SyncerDropped
    BY <1>2, <2>4 DEF SyncerDropped
  <2> QED
    BY <1>4, <1>6, <2>1, <2>2, <2>3, <2>4 DEF Actor
<1>7. CASE \E ok \in BOOLEAN : Boot(ok)
  BY <1>1, <1>2, <1>7 DEF Boot
<1>8. CASE ServiceRestart
  BY <1>2, <1>8 DEF ServiceRestart
<1> QED
  BY <1>1, <1>3, <1>6, <1>7, <1>8 DEF ServiceNext, SyncerRuns, serviceVars, vars

(* An action that a handler waits for is never lost (WaitingIsOnItsWay),   *)
(* whatever times out, fails or crashes: the safety half of the promise    *)
(* that it is served.                                                      *)
THEOREM NoActionIsLost == ServiceSpec => []WaitingIsOnItsWay
<1>1. ServiceInit => WaitingIsOnItsWay
  BY DEF ServiceInit, WaitingIsOnItsWay
<1> QED
  BY <1>1, NoStepLoses, ServiceInvariant, PTL DEF ServiceSpec

(* Readers of a service whose API writes while the syncer syncs are let in *)
(* only when no sync is halfway (SyncedMeansSettled).                      *)
THEOREM ServiceReadersSeeSettledState == ServiceSpec => []SyncedMeansSettled
<1>1. ServiceInv => SyncedMeansSettled
  BY InvImpliesSettled DEF ServiceInv
<1> QED
  BY <1>1, ServiceInvariant, PTL

-------------------------------------------------------------------------------
(* The SQL database is an AtomicRegistry                                   *)

(* A sync's commit is one Sync of the abstract registry.                   *)
LEMMA CommitIsSync ==
    ASSUME Backend = "sql", ServiceInv, NEW ok \in BOOLEAN, CommitSync(ok)
    PROVE  [Atomic!Next]_Atomic!atomicVars
<1> USE DEF ServiceInv, SyncerInv
<1>1. CASE UNCHANGED <<db, covered>>
  BY <1>1 DEF Atomic!atomicVars
<1>2. ASSUME NEW saved \in SavedStates(db, transition), db' = SqlCommit(db, tx, saved)
      PROVE  Atomic!Sync
  <2>1. pc = "commit" /\ db \in DbState /\ tx \in TxState /\ transition \in Epochs
        /\ operators = {}
    BY DEF CommitSync, SyncerTypeOK, PhaseInv
  <2>2. /\ db' \in DbState
        /\ db'.operators = db.operators \cup tx.operators
        /\ db'.syncState = saved
        /\ db'.registrations =
             Insert(db.registrations, [v \in TxRegistered(tx) |-> tx.registrations[v]])
    BY <1>2, SqlCommitFacts
  <2>3. \/ db'.syncState = db.syncState \cup {transition}
        \/ \E old \in db.syncState :
              db'.syncState = (db.syncState \ {old}) \cup {transition}
    BY <2>2 DEF SavedStates
  <2>4. db'.operators \in SUBSET Operators /\ db.operators \subseteq db'.operators
    BY <2>2 DEF DbState
  <2>5. ASSUME NEW v \in Validators, db'.registrations[v] # db.registrations[v]
        PROVE  /\ db.registrations[v] = NoRegistration
               /\ db'.registrations[v] \in [operator : db'.operators, origin : {"sync"}]
    <3>1. v \in TxRegistered(tx) /\ db'.registrations[v] = tx.registrations[v]
      BY <2>2, <2>5 DEF Insert
    <3>2. /\ tx.registrations[v].origin = "sync" /\ db.registrations[v] = NoRegistration
          /\ tx.registrations[v].operator \in db'.operators
      BY <2>1, <2>2, <3>1 DEF TransactionInv
    <3>3. tx.registrations[v] \in Registration
      BY <2>1, <3>1 DEF TxState, TxRegistered
    <3> QED
      BY <3>1, <3>2, <3>3 DEF Registration
  <2> QED
    BY <2>1, <2>3, <2>4, <2>5 DEF Atomic!Sync
<1> QED
  BY <1>1, <1>2, CommitOutcomes DEF Atomic!Next

(* A write of the API is one Register, one Deregister, or refused.         *)
LEMMA WriteIsAtomic ==
    ASSUME Backend = "sql", ServiceInv, NEW ok \in BOOLEAN, DbWrite(ok)
    PROVE  [Atomic!Next]_Atomic!atomicVars
<1>1. db'.syncState = db.syncState /\ db'.operators = db.operators
  BY WriteStep
<1>2. CASE db'.registrations = db.registrations
  BY <1>1, <1>2 DEF Atomic!atomicVars
<1>3. ASSUME NEW vs \in SUBSET Validators, db'.registrations = Remove(db.registrations, vs)
      PROVE  Atomic!Deregister
  BY <1>1, <1>3 DEF Atomic!Deregister, Remove
<1>4. ASSUME NEW vs \in SUBSET Validators, NEW o \in Operators,
             Backend # "memory" => \A v \in vs : db.registrations[v] = NoRegistration,
             db'.registrations = [v \in Validators |-> IF v \in vs
                 THEN [operator |-> o, origin |-> "api"] ELSE db.registrations[v]]
      PROVE  Atomic!Register
  <2>1. \A v \in vs : db.registrations[v] = NoRegistration
    BY <1>4
  <2> QED
    BY <1>1, <1>4, <2>1 DEF Atomic!Register, Atomic!Absent
<1> QED
  BY <1>2, <1>3, <1>4, WriteStep DEF Atomic!Next

(* Refinement: with the SQL backend, whatever statement, commit or process *)
(* fails and however the API's writes meet the syncer's, the database is   *)
(* an atomic registry (ImplementsAtomicRegistry).                          *)
THEOREM DatabaseIsAtomic ==
    ASSUME Backend = "sql" PROVE ServiceSpec => ImplementsAtomicRegistry
<1>1. ServiceInit => Atomic!Init
  <2> SUFFICES ASSUME ServiceInit PROVE Atomic!Init
    OBVIOUS
  <2>1. db.registrations = NoRegistrations /\ db.operators = {} /\ db.syncState \subseteq Epochs
    <3>1. FreshDb = [registrations |-> NoRegistrations, operators |-> {},
                     indexed |-> {}, syncState |-> {}]
      BY DEF FreshDb, EmptyDb
    <3>2. db = FreshDb \/ \E e \in Epochs : db = [FreshDb EXCEPT !.syncState = {e}]
      BY DEF ServiceInit, SyncerInit, StartTask
    <3> QED
      BY <3>1, <3>2
  <2> QED
    BY <2>1 DEF Atomic!Init, Atomic!Absent, NoRegistrations
<1>2. ServiceInv /\ [ServiceNext]_vars => [Atomic!Next]_Atomic!atomicVars
  <2> SUFFICES ASSUME ServiceInv, [ServiceNext]_vars
               PROVE  [Atomic!Next]_Atomic!atomicVars
    OBVIOUS
  <2>1. CASE UNCHANGED db
    BY <2>1 DEF Atomic!atomicVars
  <2>2. ASSUME NEW ok \in BOOLEAN, CommitSync(ok) PROVE [Atomic!Next]_Atomic!atomicVars
    BY <2>2, CommitIsSync
  <2>3. ASSUME NEW ok \in BOOLEAN, DbWrite(ok) PROVE [Atomic!Next]_Atomic!atomicVars
    BY <2>3, WriteIsAtomic
  <2>4. CASE UNCHANGED syncerVars
    BY <2>1, <2>4 DEF syncerVars
  <2>5. CASE SyncerStep
    <3>1. CASE LoadSyncState \/ Subscribe \/ QueryLookahead \/ NextEpoch
      BY <2>1, <3>1 DEF LoadSyncState, Subscribe, QueryLookahead, NextEpoch
    <3>2. ASSUME NEW ok \in BOOLEAN, BeginSync(ok) \/ RegisterValidators(ok)
          PROVE  UNCHANGED db
      BY <3>2 DEF BeginSync, RegisterValidators
    <3>3. ASSUME NEW o \in Operators, NEW ok \in BOOLEAN, RegisterOperator(o, ok)
          PROVE  UNCHANGED db
      BY <3>3 DEF RegisterOperator
    <3> QED
      BY <2>1, <2>2, <2>5, <3>1, <3>2, <3>3 DEF SyncerStep
  <2>6. CASE BeaconEvent
    BY <2>1, <2>6 DEF BeaconEvent, SkipEvent, OnTransition, StreamEnds
  <2>7. CASE ServiceRestart
    BY <2>1, <2>7 DEF ServiceRestart, CrashRestart
  <2> QED
    BY <2>3, <2>4, <2>5, <2>6, <2>7, StepKinds
<1> QED
  BY <1>1, <1>2, ServiceInvariant, PTL DEF ServiceSpec, ImplementsAtomicRegistry, Atomic!Spec

-------------------------------------------------------------------------------
(* What a sync declares done, on SQL, while the API writes.                *)

(* Seen from the syncer, a step of the service is one of its own, or none, *)
(* or a write of the API.                                                  *)
LEMMA ServiceStepOfSyncer ==
    ASSUME [ServiceNext]_vars
    PROVE  [SyncerNext]_syncerVars \/ \E ok \in BOOLEAN : DbWrite(ok)
BY StepKinds DEF SyncerNext, ServiceRestart

(* The API leaves an open transaction alone, and removes no operator.      *)
LEMMA WriteKeepsLookedOver ==
    ASSUME Backend = "sql", ServiceInv, LookedOver, NEW ok \in BOOLEAN, DbWrite(ok)
    PROVE  LookedOver'
<1>1. db'.operators = db.operators
  BY WriteStep
<1>2. UNCHANGED <<tx, pc, state, last_epoch, stream, loopVars, covered>>
  BY DEF DbWrite
<1> QED
  BY <1>1, <1>2 DEF LookedOver, Kept, loopVars

(* With the SQL backend a sync that is declared done has registered what   *)
(* it looked over although clients register and deregister the same        *)
(* validators meanwhile (SyncedWasRegistered): their writes wait for its   *)
(* transaction, or make it fail.                                           *)
THEOREM DeclaredSyncIsCompleteDespiteApi ==
    ASSUME Backend = "sql" PROVE ServiceSpec => SyncedWasRegistered
<1> DEFINE Complete ==
      pc = "commit" /\ pc' = "stream" /\ state' = "Synced" =>
         /\ transition \in db'.syncState
         /\ \A e \in visited :
              \A v \in Duties[e] \cap ActiveValidators :
                SourceOperator[v] # NoOperator =>
                  /\ db'.registrations[v] # NoRegistration
                  /\ SourceOperator[v] \in db'.operators
<1>1. ServiceInit => LookedOver
  BY InitLookedOver DEF ServiceInit
<1>2. ServiceInv /\ LookedOver /\ [ServiceNext]_vars => LookedOver'
  BY LookedOverStep, WriteKeepsLookedOver, ServiceStepOfSyncer DEF ServiceInv
<1>3. ServiceInv /\ LookedOver /\ [ServiceNext]_vars => [Complete]_syncerVars
  <2> SUFFICES ASSUME ServiceInv, LookedOver, [ServiceNext]_vars PROVE [Complete]_syncerVars
    OBVIOUS
  <2>1. CASE [SyncerNext]_syncerVars
    BY <2>1, CommitIsComplete DEF Proposers, ServiceInv
  <2>2. ASSUME NEW ok \in BOOLEAN, DbWrite(ok) PROVE Complete
    BY <2>2 DEF DbWrite
  <2> QED
    BY <2>1, <2>2, ServiceStepOfSyncer
<1>4. ServiceSpec => [][Complete]_syncerVars
  BY <1>1, <1>2, <1>3, ServiceInvariant, PTL DEF ServiceSpec
<1> QED
  BY <1>4 DEF SyncedWasRegistered

-------------------------------------------------------------------------------
(* Epochs, on the memory backend, while the API writes.                    *)

(* No write of the API touches the sync state.                             *)
LEMMA ServiceEpochStep ==
    ASSUME Backend = "memory", ServiceInv, EpochInv, [ServiceNext]_vars
    PROVE  EpochInv'
<1>1. CASE [SyncerNext]_syncerVars
  BY <1>1, EpochInvStep DEF ServiceInv
<1>2. ASSUME NEW ok \in BOOLEAN, DbWrite(ok) PROVE EpochInv'
  <2>1. db'.syncState = db.syncState
    BY <1>2, WriteStep
  <2>2. UNCHANGED <<tx, pc, state, last_epoch, stream, loopVars, covered>>
    BY <1>2 DEF DbWrite
  <2> QED
    BY <2>1, <2>2 DEF EpochInv, Active, loopVars
<1> QED
  BY <1>1, <1>2, ServiceStepOfSyncer

LEMMA ServiceEpochInvariant ==
    ASSUME Backend = "memory" PROVE ServiceSpec => []EpochInv
<1>1. ServiceInit => EpochInv
  BY InitEpochInv DEF ServiceInit
<1>2. ServiceInv /\ EpochInv /\ [ServiceNext]_vars => EpochInv'
  BY ServiceEpochStep
<1> QED
  BY <1>1, <1>2, ServiceInvariant, PTL DEF ServiceSpec

(* What the syncer alone promises of epochs on the memory backend, it      *)
(* promises in the service too: none is skipped, an idle syncer lets       *)
(* readers in, and the sync state moves forward only.                      *)
THEOREM ServiceKeepsEpochs ==
    ASSUME Backend = "memory"
    PROVE  ServiceSpec => []NoEpochSkipped /\ []IdleMeansSynced /\ SyncStateAscends
<1>1. EpochInv => NoEpochSkipped /\ IdleMeansSynced
  BY DEF EpochInv, NoEpochSkipped, IdleMeansSynced
<1>2. ServiceInv /\ EpochInv /\ [ServiceNext]_vars =>
        [pc # "start" /\ pc' # "start" => last_epoch' >= last_epoch]_syncerVars
  <2> SUFFICES ASSUME ServiceInv, EpochInv, [ServiceNext]_vars,
                      pc # "start", pc' # "start", syncerVars' # syncerVars
               PROVE  last_epoch' >= last_epoch
    OBVIOUS
  <2>1. CASE [SyncerNext]_syncerVars
    BY <2>1, AscendStep DEF ServiceInv
  <2>2. ASSUME NEW ok \in BOOLEAN, DbWrite(ok) PROVE last_epoch' >= last_epoch
    <3>1. last_epoch' = last_epoch /\ last_epoch \in Nat
      BY <2>2, MaxEpochAssumption DEF DbWrite, ServiceInv, SyncerInv, SyncerTypeOK, Epochs
    <3> QED
      BY <3>1
  <2> QED
    BY <2>1, <2>2, ServiceStepOfSyncer
<1> QED
  BY <1>1, <1>2, ServiceInvariant, ServiceEpochInvariant, PTL DEF ServiceSpec, SyncStateAscends

(* On the memory backend the task ends only after it let readers in.       *)
EndsSynced == pc = "ended" => state = "Synced"

LEMMA EndsSyncedStep ==
    ASSUME Backend = "memory", SyncerInv, EpochInv, EndsSynced, [SyncerNext]_syncerVars
    PROVE  EndsSynced'
<1>1. CASE UNCHANGED syncerVars
  BY <1>1 DEF syncerVars, EndsSynced
<1>2. CASE SyncerStep
  BY <1>2 DEF EndsSynced, EpochInv, SyncerStep, LoadSyncState, Subscribe, BeginSync, QueryLookahead,
       RegisterValidators, RegisterOperator, NextEpoch, CommitSync
<1>3. CASE BeaconEvent \/ CrashRestart
  BY <1>3 DEF EndsSynced, EpochInv, BeaconEvent, SkipEvent, OnTransition, StreamEnds, CrashRestart
<1> QED
  BY <1>1, <1>2, <1>3 DEF SyncerNext

(* On the memory backend the actor never waits for a syncer that is gone,  *)
(* with overflow checks or without, whatever the beacon node sends         *)
(* (NoWaitIsAbandoned): the process does not end by that panic.            *)
THEOREM MemoryAbandonsNoWait ==
    ASSUME Backend = "memory" PROVE ServiceSpec => []NoWaitIsAbandoned
<1>1. ServiceInit => EndsSynced
  BY DEF ServiceInit, SyncerInit, StartTask, EndsSynced
<1>2. ServiceInv /\ EpochInv /\ EndsSynced /\ [ServiceNext]_vars => EndsSynced'
  <2>1. ASSUME NEW ok \in BOOLEAN, EndsSynced, DbWrite(ok) PROVE EndsSynced'
    BY <2>1 DEF DbWrite, EndsSynced
  <2> QED
    BY <2>1, EndsSyncedStep, ServiceStepOfSyncer DEF ServiceInv
<1>3. EndsSynced => NoWaitIsAbandoned
  BY DEF EndsSynced, NoWaitIsAbandoned
<1> QED
  BY <1>1, <1>2, <1>3, ServiceInvariant, ServiceEpochInvariant, PTL DEF ServiceSpec
===============================================================================
