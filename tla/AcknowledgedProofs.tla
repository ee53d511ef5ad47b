-------------------------- MODULE AcknowledgedProofs --------------------------
(***************************************************************************)
(* What clients were told about writes stays true of the database, and so  *)
(* of what they read, for any requests, any capacity of the channel and    *)
(* either backend, through timeouts, refusals, syncs, crashes and restarts.*)
(***************************************************************************)
EXTENDS RegistryServiceProofs

PendingWrites == {q \in Pending \cap Requests : call[q].kind \in Writes}

(* Nothing is known of a validator while a write to it is under way, ...   *)
NoneUnderWay ==
    \A q \in PendingWrites : \A v \in Pubkeys(call[q]) \cap Validators :
        acked[v] = "unknown"

(* ... what is known is so in the database, ...                            *)
KnownIsTrue(d, known) ==
    \A v \in Validators :
        /\ known[v] = "in" => d.registrations[v] # NoRegistration
        /\ known[v] = "out" /\ SourceOperator[v] = NoOperator =>
               d.registrations[v] = NoRegistration

(* ... and no open sync is about to change it.                             *)
TxHasSource == \A v \in TxRegistered(tx) : SourceOperator[v] # NoOperator

AckInv == NoneUnderWay /\ KnownIsTrue(db, acked) /\ TxHasSource

-------------------------------------------------------------------------------
(* A handler that is still sending has nothing on the channel.             *)
LEMMA PendingFacts ==
    ASSUME ChannelInv
    PROVE  /\ \A q \in Requests : client[q] = "sending" => q # current /\ q \notin InQueue
           /\ current \notin InQueue
BY DEF ChannelInv, OnceInv, Outside

(* Where no request becomes pending and nothing becomes known, nothing is  *)
(* known of a validator that a write is under way to.                      *)
LEMMA FewerUnderWay ==
    ASSUME NoneUnderWay, Pending' \cap Requests \subseteq Pending,
           \A q \in Pending' \cap Requests : call'[q] = call[q],
           \/ acked' = acked
           \/ acked' = [v \in Validators |-> "unknown"]
    PROVE  NoneUnderWay'
BY DEF NoneUnderWay, PendingWrites, Pubkeys

(* The handlers.                                                           *)
LEMMA HandlersKeepKnown ==
    ASSUME ServiceInv, AckInv, NEW r \in Requests,
           Handler(r) \/ RequestTimeout(r) \/ \E c \in Calls : Send(r, c)
    PROVE  AckInv'
<1> USE DEF AckInv, ServiceInv
<1>1. CASE Handler(r) \/ RequestTimeout(r)
  <2>1. UNCHANGED <<db, tx, acked, call, current>>
    BY <1>1 DEF Handler, Enqueue, SendTimeout, RequestTimeout, syncerVars
  <2>2. Pending' \cap Requests \subseteq Pending
    <3>1. CASE Enqueue(r)
      <4>1. /\ queue \in Seq(Requests) /\ queue' = Append(queue, r)
            /\ client' = [client EXCEPT ![r] = "waiting"] /\ client[r] = "sending"
            /\ DOMAIN client = Requests
        BY <3>1 DEF Enqueue, ChannelInv, ChannelTypeOK
      <4>2. InQueue' = InQueue \cup {r}
        BY <4>1 DEF InQueue
      <4>3. \A q \in Requests : client'[q] = "sending" => client[q] = "sending"
        BY <4>1
      <4> QED
        BY <2>1, <4>1, <4>2, <4>3 DEF Pending, InQueue
    <3>2. CASE SendTimeout(r) \/ RequestTimeout(r)
      <4>1. /\ queue' = queue /\ DOMAIN client = Requests
            /\ client' \in {[client EXCEPT ![r] = "buffer_full"], [client EXCEPT ![r] = "timeout"]}
        BY <3>2 DEF SendTimeout, RequestTimeout, ChannelInv, ChannelTypeOK
      <4>2. \A q \in Requests : client'[q] = "sending" => client[q] = "sending"
        BY <4>1
      <4> QED
        BY <2>1, <4>1, <4>2 DEF Pending
    <3> QED
      BY <1>1, <3>1, <3>2 DEF Handler
  <2>3. NoneUnderWay'
    BY <2>1, <2>2, FewerUnderWay
  <2> QED
    BY <2>1, <2>3 DEF KnownIsTrue, TxHasSource, TxRegistered
<1>2. ASSUME NEW c \in Calls, Send(r, c) PROVE AckInv'
  <2>1. /\ UNCHANGED <<db, tx, queue, current>>
        /\ client' = [client EXCEPT ![r] = "sending"] /\ client[r] = "idle"
        /\ call' = [call EXCEPT ![r] = c]
        /\ DOMAIN client = Requests /\ DOMAIN call = Requests
        /\ DOMAIN acked = Validators
    BY <1>2 DEF Send, syncerVars, ChannelInv, ChannelTypeOK
  <2>2. \A v \in Validators : acked'[v] \in {acked[v], "unknown"}
    BY <1>2, <2>1 DEF Send
  <2>3. c.kind \in Writes => \A v \in Pubkeys(c) \cap Validators : acked'[v] = "unknown"
    BY <1>2 DEF Send
  <2>4. \A q \in Requests : q # r /\ q \in Pending' => q \in Pending
    BY <2>1 DEF Pending
  <2>5. NoneUnderWay'
    <3> SUFFICES ASSUME NEW q \in PendingWrites', NEW v \in Pubkeys(call'[q]) \cap Validators
                 PROVE  acked'[v] = "unknown"
      BY DEF NoneUnderWay, Pubkeys
    <3>1. CASE q = r
      BY <2>1, <2>3, <3>1 DEF PendingWrites
    <3>2. CASE q # r
      <4>1. q \in Requests /\ q \in Pending /\ call'[q] = call[q] /\ call[q].kind \in Writes
        BY <2>1, <2>4, <3>2 DEF PendingWrites
      <4>2. acked[v] = "unknown"
        BY <4>1 DEF NoneUnderWay, PendingWrites
      <4> QED
        BY <2>2, <4>2
    <3> QED
      BY <3>1, <3>2
  <2>6. KnownIsTrue(db', acked')
    BY <2>1, <2>2 DEF KnownIsTrue
  <2> QED
    BY <2>1, <2>5, <2>6 DEF TxHasSource, TxRegistered, KnownIsTrue
<1> QED
  BY <1>1, <1>2

(* An answer makes known only what no other pending write touches.         *)
LEMMA RespondKeepsKnown ==
    ASSUME ServiceInv, AckInv, at \in Busy, NEW status \in Answers, Respond(status)
    PROVE  /\ NoneUnderWay'
           /\ \A v \in Validators :
                \/ acked'[v] = acked[v]
                \/ /\ status = "ok" /\ call[current].kind \in Writes
                   /\ v \in Items(call[current])
                   /\ acked'[v] = IF call[current].kind = "register" THEN "in" ELSE "out"
<1> USE DEF AckInv, ServiceInv
<1>1. /\ current \in Requests /\ current # NoRequest /\ DOMAIN client = Requests
      /\ NoRequest \notin Requests /\ DOMAIN acked = Validators
  BY ServiceAssumption DEF ChannelInv, OnceInv, ChannelTypeOK
<1>2. /\ current' = NoRequest /\ UNCHANGED <<call, queue>>
      /\ client' \in {client, [client EXCEPT ![current] = status]}
      /\ \/ acked' = acked
         \/ /\ acked' = Acknowledge(current)
            /\ status = "ok" /\ call[current].kind \in Writes
  BY DEF Respond
<1>3. \A q \in Pending' \cap Requests : q \in Pending /\ q # current
  <2>1. \A q \in Requests : client'[q] = "sending" => client[q] = "sending"
    BY <1>1, <1>2 DEF Answers
  <2>2. InQueue' = InQueue
    BY <1>2 DEF InQueue
  <2> QED
    BY <1>1, <1>2, <2>1, <2>2, PendingFacts DEF Pending, InQueue
<1> DEFINE contended == UNION {Pubkeys(call[q]) : q \in {p \in Pending \cap Requests :
                                p # current /\ call[p].kind \in Writes}}
<1>4. Acknowledge(current) = [v \in Validators |->
          IF v \in Items(call[current]) \ contended
            THEN IF call[current].kind = "register" THEN "in" ELSE "out" ELSE acked[v]]
  BY DEF Acknowledge
<1>5. \A q \in PendingWrites' : /\ q \in PendingWrites /\ call'[q] = call[q]
                                /\ Pubkeys(call[q]) \subseteq contended
  BY <1>2, <1>3 DEF PendingWrites
<1>6. \A v \in Validators :
        /\ v \in contended => acked'[v] = acked[v]
        /\ \/ acked'[v] = acked[v]
           \/ /\ status = "ok" /\ call[current].kind \in Writes
              /\ v \in Items(call[current])
              /\ acked'[v] = IF call[current].kind = "register" THEN "in" ELSE "out"
  <2> HIDE DEF contended
  <2> QED
    BY <1>2, <1>4
<1>7. NoneUnderWay'
  <2> SUFFICES ASSUME NEW q \in PendingWrites', NEW v \in Pubkeys(call'[q]) \cap Validators
               PROVE  acked'[v] = "unknown"
    BY DEF NoneUnderWay, Pubkeys
  <2> HIDE DEF contended
  <2>1. q \in PendingWrites /\ v \in Pubkeys(call[q]) \cap Validators /\ v \in contended
    BY <1>5
  <2>2. acked[v] = "unknown"
    BY <2>1 DEF NoneUnderWay
  <2> QED
    BY <1>6, <2>1, <2>2
<1> QED
  BY <1>6, <1>7

-------------------------------------------------------------------------------
(* The syncer writes validators that its source knows, and removes none.   *)
LEMMA SyncerWritesKnown ==
    ASSUME SyncerInv, TxHasSource, SyncerStep \/ BeaconEvent
    PROVE  /\ TxHasSource'
           /\ \A v \in Validators :
                \/ db'.registrations[v] = db.registrations[v]
                \/ SourceOperator[v] # NoOperator /\ db'.registrations[v] # NoRegistration
<1> USE DEF SyncerInv, TxHasSource
<1>1. CASE UNCHANGED <<db, tx>>
  BY <1>1 DEF TxRegistered
<1>2. CASE LoadSyncState \/ Subscribe \/ QueryLookahead \/ NextEpoch \/ BeaconEvent
  BY <1>1, <1>2 DEF LoadSyncState, Subscribe, QueryLookahead, NextEpoch, BeaconEvent,
                    SkipEvent, OnTransition, StreamEnds
<1>3. ASSUME NEW ok \in BOOLEAN, BeginSync(ok)
      PROVE  db' = db /\ TxRegistered(tx') \subseteq TxRegistered(tx)
  BY <1>3, EmptyTypes DEF BeginSync
<1>4. ASSUME NEW ok \in BOOLEAN, RegisterValidators(ok)
      PROVE  /\ TxHasSource'
             /\ \A v \in Validators :
                  \/ db'.registrations[v] = db.registrations[v]
                  \/ SourceOperator[v] # NoOperator /\ db'.registrations[v] # NoRegistration
  <2> DEFINE batch == SyncRegistrations(entries)
  <2>1. /\ \A v \in entries : SourceOperator[v] # NoOperator
        /\ entries \subseteq Validators /\ batch \in [entries -> Registration]
    BY SyncBatchType DEF PhaseInv, SyncerTypeOK
  <2>2. \A v \in entries : batch[v] # NoRegistration
    BY <2>1, NoRegistrationAssumption
  <2> HIDE DEF batch
  <2>3. CASE Backend = "memory"
    <3>1. db' = MemoryTxRegister(db, batch) /\ tx' = tx /\ db \in DbState
      BY <1>4, <2>3 DEF RegisterValidators, SyncerTypeOK, batch
    <3>2. db'.registrations = Insert(db.registrations, batch)
      BY <3>1 DEF MemoryTxRegister, DbState
    <3> QED
      BY <2>1, <2>2, <3>1, <3>2 DEF Insert, TxRegistered
  <2>4. CASE Backend # "memory"
    <3>1. db' = db /\ tx' = SqlTxInsert(tx, batch, ok) /\ tx \in TxState
      BY <1>4, <2>4 DEF RegisterValidators, SyncerTypeOK, batch
    <3>2. TxRegistered(tx') \subseteq TxRegistered(tx) \cup entries
      <4>1. CASE ~ok
        BY <3>1, <4>1, EmptyTypes DEF SqlTxInsert
      <4>2. CASE ok
        <5>1. tx'.registrations = Insert(tx.registrations, batch)
          BY <3>1, <4>2 DEF SqlTxInsert, TxState
        <5> QED
          BY <2>1, <5>1 DEF Insert, TxRegistered
      <4> QED
        BY <4>1, <4>2
    <3> QED
      BY <2>1, <3>1, <3>2
  <2> QED
    BY <2>3, <2>4
<1>5. ASSUME NEW o \in Operators, NEW ok \in BOOLEAN, RegisterOperator(o, ok)
      PROVE  /\ db'.registrations = db.registrations
             /\ TxRegistered(tx') \subseteq TxRegistered(tx)
  <2>1. db \in DbState /\ tx \in TxState
    BY DEF SyncerTypeOK
  <2>2. CASE Backend = "memory"
    BY <1>5, <2>1, <2>2 DEF RegisterOperator, MemoryTxRegisterOperator, DbState
  <2>3. CASE Backend # "memory"
    <3>1. db' = db /\ tx' = SqlTxInsertOperator(tx, o, ok)
      BY <1>5, <2>3 DEF RegisterOperator
    <3>2. CASE ~ok
      BY <3>1, <3>2, EmptyTypes DEF SqlTxInsertOperator
    <3>3. CASE ok
      <4>1. tx'.registrations = tx.registrations
        BY <2>1, <3>1, <3>3 DEF SqlTxInsertOperator, TxState
      <4> QED
        BY <3>1, <4>1 DEF TxRegistered
    <3> QED
      BY <3>2, <3>3
  <2> QED
    BY <2>2, <2>3
<1>6. ASSUME NEW ok \in BOOLEAN, CommitSync(ok)
      PROVE  /\ TxHasSource'
             /\ \A v \in Validators :
                  \/ db'.registrations[v] = db.registrations[v]
                  \/ SourceOperator[v] # NoOperator /\ db'.registrations[v] # NoRegistration
  <2>1. db \in DbState /\ tx \in TxState /\ tx' = NoTx
    BY <1>6 DEF SyncerTypeOK, CommitSync
  <2>2. TxHasSource'
    BY <2>1, EmptyTypes
  <2>3. CASE db' = db \/ db' = MemoryCommit(db, transition)
    BY <2>1, <2>2, <2>3 DEF MemoryCommit, DbState
  <2>4. ASSUME NEW saved \in SavedStates(db, transition), db' = SqlCommit(db, tx, saved)
        PROVE  \A v \in Validators :
                 \/ db'.registrations[v] = db.registrations[v]
                 \/ SourceOperator[v] # NoOperator /\ db'.registrations[v] # NoRegistration
    <3>1. db'.registrations =
            Insert(db.registrations, [v \in TxRegistered(tx) |-> tx.registrations[v]])
      BY <2>4, SqlCommitFacts
    <3>2. \A v \in Validators : db'.registrations[v] =
            IF v \in TxRegistered(tx) THEN tx.registrations[v] ELSE db.registrations[v]
      BY <3>1 DEF Insert
    <3> QED
      BY <3>2 DEF TxRegistered
  <2> QED
    BY <1>6, <2>2, <2>3, <2>4, CommitOutcomes
<1> QED
  BY <1>2, <1>3, <1>4, <1>5, <1>6 DEF SyncerStep

(* A write of the API changes what nothing is known of, and makes its own  *)
(* items what its answer says.                                             *)
LEMMA WriteKeepsKnown ==
    ASSUME ServiceInv, AckInv, NEW ok \in BOOLEAN, DbWrite(ok)
    PROVE  AckInv'
<1> USE DEF AckInv, ServiceInv, SyncerInv
<1> DEFINE c == call[current]
           status == IF ok THEN "ok" ELSE "db_error"
<1>1. /\ at \in Busy /\ status \in Answers /\ Respond(status) /\ tx' = tx
      /\ c.kind \in Writes
  BY DEF DbWrite, Busy, Answers
<1>7. PICK done \in TakesEffect(ok, WriteFails(c)) :
        db' = IF done THEN WriteResult(c) ELSE db
  BY DEF DbWrite
<1>2. current \in Requests /\ current # NoRequest /\ c \in Calls
  <2>1. current \in Requests /\ current # NoRequest /\ client[current] # "idle"
    BY <1>1 DEF ChannelInv, OnceInv, ChannelTypeOK, Outside
  <2> QED
    BY <2>1 DEF ChannelInv, OnceInv
<1>3. /\ NoneUnderWay'
      /\ \A v \in Validators :
           \/ acked'[v] = acked[v]
           \/ /\ ok /\ v \in Items(c)
              /\ acked'[v] = IF c.kind = "register" THEN "in" ELSE "out"
  BY <1>1, RespondKeepsKnown
<1>4. \A v \in Items(c) : v \in Validators /\ acked[v] = "unknown"
  <2>1. current \in PendingWrites
    BY <1>1, <1>2 DEF PendingWrites, Pending
  <2>2. Items(c) \subseteq Pubkeys(c) /\ Items(c) \subseteq Validators
    BY <1>2, ApiBatchType DEF Items, Pubkeys
  <2> QED
    BY <2>1, <2>2 DEF NoneUnderWay
<1>5. /\ ApiBatch(c) \in [Items(c) -> Registration] /\ Items(c) \subseteq Validators
      /\ db \in DbState
  BY <1>2, ApiBatchType DEF SyncerTypeOK
<1>6. \A v \in Items(c) : ApiBatch(c)[v] # NoRegistration
  BY <1>5, NoRegistrationAssumption
<1>8. ok => done
  BY <1>7 DEF TakesEffect
<1> HIDE DEF c
<1>9. /\ \A v \in Validators \ Items(c) : db'.registrations[v] = db.registrations[v]
      /\ ok => \A v \in Items(c) :
                 (db'.registrations[v] # NoRegistration) <=> c.kind = "register"
  <2>1. CASE ~done
    BY <1>7, <1>8, <2>1
  <2>2. CASE done /\ c.kind = "register"
    <3>1. db'.registrations = Insert(db.registrations, ApiBatch(c))
      BY <1>5, <1>7, <2>2, BackendAssumption DEF WriteResult, MemoryRegister, SqlRegister, DbState
    <3> QED
      BY <1>5, <1>6, <2>2, <3>1 DEF Insert
  <2>3. CASE done /\ c.kind = "deregister"
    <3>1. db'.registrations = Remove(db.registrations, Items(c))
      BY <1>5, <1>7, <2>3, BackendAssumption
      DEF WriteResult, MemoryDeregister, SqlDeregister, DbState
    <3> QED
      BY <1>5, <2>3, <3>1 DEF Remove
  <2> QED
    BY <1>1, <2>1, <2>2, <2>3 DEF Writes
<1>10. KnownIsTrue(db', acked')
  <2> SUFFICES ASSUME NEW v \in Validators
               PROVE  /\ acked'[v] = "in" => db'.registrations[v] # NoRegistration
                      /\ acked'[v] = "out" /\ SourceOperator[v] = NoOperator =>
                             db'.registrations[v] = NoRegistration
    BY DEF KnownIsTrue
  <2>1. CASE acked'[v] = acked[v]
    BY <1>4, <1>9, <2>1 DEF KnownIsTrue
  <2>2. CASE ok /\ v \in Items(c) /\ acked'[v] = IF c.kind = "register" THEN "in" ELSE "out"
    BY <1>9, <2>2
  <2> QED
    BY <1>3, <2>1, <2>2
<1> QED
  BY <1>1, <1>3, <1>10 DEF TxHasSource, TxRegistered

(* The actor's other steps.                                                *)
LEMMA ActorKeepsKnown ==
    ASSUME ServiceInv, AckInv, Actor
    PROVE  AckInv'
<1> USE DEF AckInv
<1>1. ASSUME UNCHANGED <<db, tx>>, NEW status \in Answers, at \in Busy, Respond(status),
             status = "ok" => call[current].kind \notin Writes
      PROVE  AckInv'
  <2>1. NoneUnderWay' /\ \A v \in Validators : acked'[v] = acked[v]
    BY <1>1, RespondKeepsKnown
  <2> QED
    BY <1>1, <2>1 DEF KnownIsTrue, TxHasSource, TxRegistered
<1>2. ASSUME UNCHANGED <<db, tx, acked, call>>, Pending' \cap Requests \subseteq Pending
      PROVE  AckInv'
  BY <1>2, FewerUnderWay DEF KnownIsTrue, TxHasSource, TxRegistered
<1>3. CASE Receive
  <2>1. /\ queue \in Seq(Requests) /\ queue # <<>>
        /\ queue' = Tail(queue) /\ current' = Head(queue)
        /\ UNCHANGED <<db, tx, acked, call, client>>
    BY <1>3 DEF Receive, syncerVars, ServiceInv, ChannelInv, ChannelTypeOK
  <2>2. /\ \A i \in DOMAIN queue' : i + 1 \in DOMAIN queue /\ queue'[i] = queue[i + 1]
        /\ 1 \in DOMAIN queue /\ current' = queue[1]
    BY <2>1
  <2>3. InQueue' \subseteq InQueue /\ current' \in InQueue
    BY <2>2 DEF InQueue
  <2>4. Pending' \cap Requests \subseteq Pending
    BY <2>1, <2>3 DEF Pending, InQueue
  <2> QED
    BY <1>2, <2>1, <2>4
<1>4. CASE CheckValidators
  <2>1. UNCHANGED <<db, tx>> /\ at \in Busy
    BY <1>4 DEF CheckValidators, syncerVars, Busy
  <2>2. CASE UNCHANGED <<call, client, queue, current, served, acked>>
    BY <1>2, <2>1, <2>2 DEF Pending
  <2>3. ASSUME NEW status \in {"bad_request", "beacon_error"}, Respond(status)
        PROVE  AckInv'
    BY <1>1, <2>1, <2>3 DEF Answers
  <2> QED
    BY <1>4, <2>2, <2>3 DEF CheckValidators
<1>5. CASE FetchDuties \/ WaitForSync
  BY <1>2, <1>5 DEF FetchDuties, WaitForSync, Pending, syncerVars
<1>6. CASE SyncerDropped
  <2>1. /\ UNCHANGED <<db, tx, acked, call>>
        /\ current' = NoRequest /\ queue' = <<>> /\ client' = ResetClients
    BY <1>6 DEF SyncerDropped, syncerVars
  <2>2. \A q \in Requests : client'[q] # "sending"
    BY <2>1 DEF ResetClients, InFlight
  <2>3. Pending' \cap Requests \subseteq Pending
    BY <2>1, <2>2, ServiceAssumption DEF Pending
  <2> QED
    BY <1>2, <2>1, <2>3
<1>7. ASSUME NEW ok \in BOOLEAN, DbWrite(ok) PROVE AckInv'
  BY <1>7, WriteKeepsKnown
<1>8. ASSUME NEW ok \in BOOLEAN, DbRead(ok) PROVE AckInv'
  <2>1. PICK status \in {"ok", "db_error", "not_found"} : Respond(status)
    BY <1>8 DEF DbRead
  <2>2. UNCHANGED <<db, tx>> /\ at \in Busy /\ call[current].kind \notin Writes
    BY <1>8 DEF DbRead, syncerVars, Busy
  <2> QED
    BY <1>1, <2>1, <2>2 DEF Answers
<1> QED
  BY <1>3, <1>4, <1>5, <1>6, <1>7, <1>8 DEF Actor

-------------------------------------------------------------------------------
LEMMA InitAckInv == ServiceInit => AckInv
<1> SUFFICES ASSUME ServiceInit PROVE AckInv
  OBVIOUS
<1>1. tx = NoTx /\ queue = <<>> /\ current = NoRequest /\ \A r \in Requests : client[r] = "idle"
  BY DEF ServiceInit, SyncerInit, StartTask
<1>2. Pending \cap Requests = {}
  BY <1>1, ServiceAssumption DEF Pending
<1>3. NoneUnderWay
  BY <1>2 DEF NoneUnderWay, PendingWrites
<1>4. TxHasSource
  BY <1>1, EmptyTypes DEF TxHasSource
<1>5. KnownIsTrue(db, acked)
  BY DEF ServiceInit, KnownIsTrue
<1> QED
  BY <1>3, <1>4, <1>5 DEF AckInv

(* The process starts or ends: nothing becomes pending, and a database     *)
(* that is lost takes what was known of it along.                          *)
LEMMA RestartKeepsKnown ==
    ASSUME ServiceInv, AckInv, ServiceRestart \/ \E ok \in BOOLEAN : Boot(ok)
    PROVE  AckInv'
<1> USE DEF AckInv
<1>1. CASE ServiceRestart
  <2>1. /\ current' = NoRequest /\ queue' = <<>> /\ client' = ResetClients /\ call' = call
        /\ tx' = NoTx
        /\ IF Backend = "memory" THEN acked' = [v \in Validators |-> "unknown"]
                                 ELSE acked' = acked /\ db' = db
    BY <1>1 DEF ServiceRestart, CrashRestart
  <2>2. \A q \in Requests : client'[q] # "sending"
    BY <2>1 DEF ResetClients, InFlight
  <2>3. Pending' \cap Requests \subseteq Pending
    BY <2>1, <2>2, ServiceAssumption DEF Pending
  <2>4. NoneUnderWay'
    BY <2>1, <2>3, FewerUnderWay
  <2>5. KnownIsTrue(db', acked')
    BY <2>1 DEF KnownIsTrue
  <2>6. TxHasSource'
    BY <2>1, EmptyTypes DEF TxHasSource
  <2> QED
    BY <2>4, <2>5, <2>6 DEF KnownIsTrue
<1>2. ASSUME NEW ok \in BOOLEAN, Boot(ok) PROVE AckInv'
  <2>1. /\ UNCHANGED <<db, tx, call, current, acked>>
        /\ \/ UNCHANGED <<client, queue>>
           \/ client' = ResetClients /\ queue' = <<>>
    BY <1>2 DEF Boot, syncerVars
  <2>2. \A q \in Requests : client'[q] = "sending" => client[q] = "sending"
    BY <2>1 DEF ResetClients, InFlight
  <2>3. Pending' \cap Requests \subseteq Pending
    BY <2>1, <2>2 DEF Pending
  <2>4. NoneUnderWay'
    BY <2>1, <2>3, FewerUnderWay
  <2> QED
    BY <2>1, <2>4 DEF KnownIsTrue, TxHasSource, TxRegistered
<1> QED
  BY <1>1, <1>2

LEMMA AckInvStep == ServiceInv /\ AckInv /\ [ServiceNext]_vars => AckInv'
<1> SUFFICES ASSUME ServiceInv, AckInv, [ServiceNext]_vars PROVE AckInv'
  OBVIOUS
<1>1. CASE (SyncerStep \/ BeaconEvent) /\ SyncerRuns
  <2>1. UNCHANGED serviceVars
    BY <1>1 DEF SyncerRuns
  <2>2. Pending' = Pending /\ UNCHANGED <<call, acked>>
    BY <2>1 DEF serviceVars, Pending
  <2>3. NoneUnderWay'
    BY <2>2, FewerUnderWay DEF AckInv
  <2>4. /\ TxHasSource'
        /\ \A v \in Validators :
             \/ db'.registrations[v] = db.registrations[v]
             \/ SourceOperator[v] # NoOperator /\ db'.registrations[v] # NoRegistration
    BY <1>1, SyncerWritesKnown DEF ServiceInv, AckInv
  <2>5. KnownIsTrue(db, acked') => KnownIsTrue(db', acked')
    BY <2>4 DEF KnownIsTrue
  <2> QED
    BY <2>2, <2>3, <2>4, <2>5 DEF AckInv, KnownIsTrue
<1>2. CASE UNCHANGED vars
  <2>1. Pending' = Pending /\ UNCHANGED <<db, tx, call, acked>>
    BY <1>2 DEF vars, serviceVars, syncerVars, Pending
  <2>2. NoneUnderWay'
    BY <2>1, FewerUnderWay DEF AckInv
  <2> QED
    BY <2>1, <2>2 DEF AckInv, KnownIsTrue, TxHasSource, TxRegistered
<1> QED
  BY <1>1, <1>2, HandlersKeepKnown, ActorKeepsKnown, RestartKeepsKnown DEF ServiceNext

(* Reads agree with the writes that were answered before them              *)
(* (ReadsSeeAcknowledgedWrites): a registered validator is in the list, a  *)
(* deregistered one is not unless a sync may bring it back, on the memory  *)
(* backend and on SQL, whatever the syncer and the other clients do.       *)
THEOREM ReadsAgreeWithAnswers == ServiceSpec => ReadsSeeAcknowledgedWrites
<1>1. ServiceInv /\ AckInv /\ [ServiceNext]_vars =>
        [\A r \in Requests :
           /\ client[r] = "waiting" /\ client'[r] = "ok"
           /\ \/ call[r].kind = "registrations"
              \/ call[r].kind = "validators" /\ Backend = "sql"
           =>
               \A v \in Validators :
                   /\ acked[v] = "in" => v \in reply'
                   /\ acked[v] = "out" /\ SourceOperator[v] = NoOperator => v \notin reply']_vars
  <2> SUFFICES ASSUME ServiceInv, AckInv, ServiceNext, NEW r \in Requests,
                      client[r] = "waiting", client'[r] = "ok",
                      \/ call[r].kind = "registrations"
                      \/ call[r].kind = "validators" /\ Backend = "sql"
               PROVE  \A v \in Validators :
                        /\ acked[v] = "in" => v \in reply'
                        /\ acked[v] = "out" /\ SourceOperator[v] = NoOperator => v \notin reply'
    OBVIOUS
  <2>1. DOMAIN client = Requests
    BY DEF ServiceInv, ChannelInv, ChannelTypeOK
  <2>2. PICK ok \in BOOLEAN : DbWrite(ok) \/ DbRead(ok)
    <3>1. CASE \E ok \in BOOLEAN : Boot(ok)
      BY <2>1, <3>1 DEF Boot, ResetClients
    <3>2. ASSUME NEW q \in Requests, Handler(q) \/ RequestTimeout(q) \/ \E c \in Calls : Send(q, c)
          PROVE  FALSE
      BY <2>1, <3>2 DEF Handler, Enqueue, SendTimeout, RequestTimeout, Send
    <3>3. ASSUME Respond("bad_request") \/ Respond("beacon_error") PROVE FALSE
      BY <2>1, <3>3 DEF Respond
    <3>4. CASE Receive \/ CheckValidators \/ FetchDuties \/ WaitForSync
      BY <3>3, <3>4 DEF Receive, CheckValidators, FetchDuties, WaitForSync
    <3>5. CASE SyncerDropped \/ ServiceRestart
      BY <2>1, <3>5 DEF SyncerDropped, ServiceRestart, ResetClients
    <3>6. CASE SyncerRuns
      BY <3>6 DEF SyncerRuns, serviceVars
    <3> QED
      BY <3>1, <3>2, <3>4, <3>5, <3>6 DEF ServiceNext, Actor
  <2>3. r = current
    <3>1. PICK status \in Answers : Respond(status)
      BY <2>2 DEF DbWrite, DbRead, Answers
    <3> QED
      BY <2>1, <3>1 DEF Respond
  <2>4. DbRead(ok) /\ call[current].kind \in {"registrations", "validators"}
    BY <2>2, <2>3 DEF DbWrite, Writes
  <2>5. reply' = ReadResult(call[current])
    <3>1. \/ Respond("ok") /\ reply' = ReadResult(call[current])
          \/ Respond("db_error") \/ Respond("not_found")
      BY <2>4 DEF DbRead
    <3>2. ASSUME Respond("db_error") \/ Respond("not_found") PROVE FALSE
      BY <2>1, <3>2 DEF Respond
    <3> QED
      BY <3>1, <3>2
  <2>6. ReadResult(call[current]) = Registered(db)
    <3>1. CASE call[current].kind = "registrations"
      BY <3>1 DEF ReadResult
    <3>2. CASE call[current].kind = "validators" /\ Backend = "sql"
      <4>1. Wanted(call[current]) = Validators
        BY <3>2 DEF Wanted
      <4>2. ReadResult(call[current]) = SqlValidators(db, Wanted(call[current]))
        BY <3>2 DEF ReadResult
      <4> QED
        BY <4>1, <4>2 DEF SqlValidators, Registered
    <3> QED
      BY <2>3, <3>1, <3>2
  <2> QED
    BY <2>5, <2>6 DEF AckInv, KnownIsTrue, Registered
<1> QED
  BY <1>1, InitAckInv, AckInvStep, ServiceInvariant, PTL DEF ServiceSpec, ReadsSeeAcknowledgedWrites
===============================================================================
