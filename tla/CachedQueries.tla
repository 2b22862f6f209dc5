----------------------------- MODULE CachedQueries -----------------------------
(***************************************************************************)
(* SelectQueryBuilder.getRawMany and loadRawResults with the query result  *)
(* cache on, DbQueryResultCache and RedisQueryResultCache, over a pool of  *)
(* PostgreSQL connections: calls that run at the same time, in             *)
(* transactions or not, a remove from the cache, a broken connection or a  *)
(* failing statement, and the DataSource being destroyed.                  *)
(*                                                                         *)
(* One query is called, whose true result is a version of the data: others *)
(* may commit a new one, and so may a call in a transaction, before it     *)
(* queries.  The table of the cache (external) shows a transaction its own *)
(* rows, and others what is committed; a row changed by one waits for its  *)
(* end.                                                                    *)
(***************************************************************************)
EXTENDS PostgresConnections

CONSTANTS Readers,      \* callers without a query runner of their own
          Writers,      \* callers of transaction
          Removers,     \* callers of remove
          CacheTypes,   \* "database", "redis"
          Failing,      \* statements that may fail: "get", "read", "store", "remove"
          Duration,     \* cache duration
          MaxClock, MaxVersions, MaxCalls, MaxFailures   \* bounds

Callers == Readers \union Writers \union Removers
ASSUME QueriesAssumption ==
  /\ Runners = Callers \X {"main", "store"} /\ Readers \intersect Writers = {} /\ "" \notin Callers
  /\ Duration \in Nat /\ MaxClock \in Nat /\ MaxVersions \in Nat /\ MaxCalls \in Nat /\ MaxFailures \in Nat

VARIABLES cacheType, ignoreErrors,
          pc,           \* the statement a caller waits for, "idle", or "failed": its remove
          call,         \* per caller what its call, or last one, knows
          rows,         \* of the cache
          transaction,  \* of a client: whether one is open, the version it has written
                        \* (0 if none), and whether a statement of it has failed
          committed,    \* the versions there have been: [version, at]
          written, clock, calls, failures

dataVars == <<rows, transaction, committed, written>>
optionVars == <<cacheType, ignoreErrors>>
boundVars == <<clock, calls, failures>>
vars == <<connectionVars, pc, call, dataVars, optionVars, boundVars>>

\* saved: getFromCache has found a row.  result, time: what the query has answered, and
\* when; lag: how long before it was so; served, at: or what the cache has, and when.
NoCall == [saved |-> FALSE, cacheError |-> FALSE, result |-> 0, time |-> 0, lag |-> 0, served |-> FALSE, at |-> 0]
NoValue == [result |-> 0, time |-> 0, lag |-> 0]
NoTransaction == [open |-> FALSE, version |-> 0, aborted |-> FALSE]

Init ==
  /\ ConnectionsInit
  /\ cacheType \in CacheTypes /\ ignoreErrors \in BOOLEAN
  /\ pc = [c \in Callers |-> "idle"] /\ call = [c \in Callers |-> NoCall]
  /\ transaction = [k \in Clients |-> NoTransaction]
  /\ rows = {} /\ committed = <<[version |-> 1, at |-> 0]>>
  /\ written = 1 /\ clock = 0 /\ calls = 0 /\ failures = 0

(***************************************************************************)
(* The rows of the cache: value is what is committed, NoValue if nothing   *)
(* is, and new what the transaction of the client by makes of it.          *)
(***************************************************************************)
Open(k) == k # "" /\ transaction[k].open
Value(row, k) == IF row.by # "" /\ row.by = k THEN row.new ELSE row.value
Seen(k) == {row \in rows : Value(row, k) # NoValue}
Unlocked(k) == \A row \in Seen(k) : row.by \in {"", k}

Put(row, k, value) ==
  IF Open(k) THEN [row EXCEPT !.new = value, !.by = k] ELSE [row EXCEPT !.value = value]
NewRow == [n |-> CHOOSE n \in 1..(Cardinality(rows) + 1) : \A row \in rows : row.n # n,
           value |-> NoValue, new |-> NoValue, by |-> ""]
Without(table) == {row \in table : row.by # "" \/ row.value # NoValue}

\* The transactions of some clients end.
AfterEnd(ks, commit) ==
  Without({IF row.by \notin ks THEN row
           ELSE [row EXCEPT !.value = IF commit THEN row.new ELSE @, !.new = NoValue, !.by = ""] : row \in rows})

(***************************************************************************)
(* A call goes from one statement to the next in one event of the process, *)
(* which asks for the client that the next one needs; the last event       *)
(* releases its runner.  A redis cache needs no client.                    *)
(***************************************************************************)
Main(c) == <<c, "main">>

\* Mutant: every call stores by a runner of its own.
AlwaysNewRunner(c) == <<c, "store">>

\* A runner for reads, which is in mode "slave", is not used to store.
StoreRunner(c) == IF c \in Writers THEN Main(c) ELSE <<c, "store">>

By(c, step) == IF step = "store" THEN StoreRunner(c) ELSE Main(c)
ByRunner(step) == cacheType = "database" \/ step \in {"write", "read", "answer", "end"}
Client(c, step) == IF ByRunner(step) THEN runner[By(c, step)].client ELSE ""

\* What a call had is forgotten, but for what it served, and a client not given back.
Finished(links, c) ==
  [links EXCEPT !.runner =
     [q \in Runners |-> IF q[1] = c /\ ~links.runner[q].holds THEN NewRunner ELSE links.runner[q]]]

Go(c, step, links, known) ==
  /\ pc' = [pc EXCEPT ![c] = step]
  /\ call' = [call EXCEPT ![c] = IF step = "idle" /\ ~known.served THEN NoCall ELSE known]
  /\ Become(IF step = "idle" THEN Finished(Release(links, Main(c)), c)
            ELSE IF ByRunner(step) THEN Connect(links, By(c, step)) ELSE links)
  /\ UNCHANGED pool

AfterResults(c) == IF c \in Writers THEN "end" ELSE "idle"

(***************************************************************************)
(* A statement is answered, or fails.  A client answers in the order it is *)
(* sent to: one of a runner released meanwhile comes before those of the   *)
(* runner that has the client now.                                         *)
(***************************************************************************)
InFlight(q) ==
  /\ Connected(q) /\ pc[q[1]] \notin {"idle", "answer", "failed"}
  /\ ByRunner(pc[q[1]]) /\ q = By(q[1], pc[q[1]])
Served(q) ==
  Connected(q) /\ (runner[q].released \/ \A p \in Runners :
                     runner[p].released /\ InFlight(p) => runner[p].client # runner[q].client)

Able(c, step) ==
  pc[c] = step /\ (ByRunner(step) => Served(By(c, step)) /\ ~transaction[Client(c, step)].aborted)

Fails(c, step) ==
  /\ pc[c] = step
  /\ \/ ByRunner(step) /\ Refused(By(c, step)) /\ UNCHANGED failures
     \/ ByRunner(step) /\ Served(By(c, step)) /\ transaction[Client(c, step)].aborted /\ UNCHANGED failures
     \/ /\ ByRunner(step) => Served(By(c, step))
        /\ step \in Failing /\ failures < MaxFailures /\ failures' = failures + 1
  /\ transaction' = [k \in Clients |-> IF k = Client(c, step) /\ Open(k)
                                       THEN [transaction[k] EXCEPT !.aborted = TRUE] ELSE transaction[k]]
  /\ UNCHANGED <<clock, calls>>

Begin(c) ==
  /\ pc[c] = "idle" /\ calls < MaxCalls
  /\ calls' = calls + 1
  /\ Go(c, IF c \in Writers THEN "write" ELSE IF c \in Removers THEN "remove" ELSE "get", Links, NoCall)
  /\ UNCHANGED <<dataVars, optionVars, clock, failures>>

(***************************************************************************)
(* START TRANSACTION, in which nothing happens if one is open, and a       *)
(* statement that changes the data, unless the runner has been released    *)
(* meanwhile, or the function that has been given fails.                   *)
(***************************************************************************)
Write(c) ==
  LET k == Client(c, "write")
      begin(version) == transaction' = [transaction EXCEPT ![k] = [@ EXCEPT !.open = TRUE, !.version = version]]
  IN \/ /\ Able(c, "write") /\ ~runner[Main(c)].released
        /\ written < MaxVersions /\ \A j \in Clients \ {k} : transaction[j].version = 0
        /\ written' = written + 1 /\ begin(written + 1)
        /\ Go(c, "get", Links, NoCall)
        /\ UNCHANGED <<rows, committed, optionVars, boundVars>>
     \/ /\ Able(c, "write") /\ (runner[Main(c)].released \/ written = MaxVersions)
        /\ begin(transaction[k].version)
        /\ Go(c, "end", Links, NoCall)
        /\ UNCHANGED <<rows, committed, written, optionVars, boundVars>>
     \/ /\ Fails(c, "write") /\ Go(c, "end", Links, NoCall)
        /\ UNCHANGED <<rows, committed, written, optionVars>>

(***************************************************************************)
(* loadRawResults                                                          *)
(***************************************************************************)
Fresh(value) == value.time + Duration >= clock

\* getFromCache, and isExpired.
Get(c) ==
  LET k == Client(c, "get")
  IN \/ /\ Able(c, "get")
        /\ \/ Seen(k) = {} /\ Go(c, "read", Links, call[c])
           \/ \E row \in Seen(k) :
                LET value == Value(row, k)
                IN IF Fresh(value)
                   THEN Go(c, AfterResults(c), Links,
                           [NoCall EXCEPT !.result = value.result, !.lag = value.lag, !.served = TRUE, !.at = clock])
                   ELSE Go(c, "read", Links, [call[c] EXCEPT !.saved = TRUE])
        /\ UNCHANGED <<dataVars, optionVars, boundVars>>
     \/ /\ Fails(c, "get")
        /\ Go(c, IF ignoreErrors THEN "read" ELSE AfterResults(c), Links, [call[c] EXCEPT !.cacheError = TRUE])
        /\ UNCHANGED <<rows, committed, written, optionVars>>

Truth(k) == IF transaction[k].version # 0 THEN transaction[k].version ELSE committed[Len(committed)].version

\* The database reads: what it finds is on its way.
Read(c) ==
  \/ /\ Able(c, "read")
     /\ pc' = [pc EXCEPT ![c] = "answer"]
     /\ call' = [call EXCEPT ![c] = [@ EXCEPT !.result = Truth(Client(c, "read")), !.time = clock]]
     /\ UNCHANGED <<connectionVars, dataVars, optionVars, boundVars>>
  \/ /\ Fails(c, "read") /\ Go(c, AfterResults(c), Links, NoCall)
     /\ UNCHANGED <<rows, committed, written, optionVars>>

\* The time is that of the answer.
Answered(known) == [known EXCEPT !.time = clock, !.lag = clock - known.time]

Answer(c) ==
  /\ pc[c] = "answer"
  /\ \/ /\ Connected(Main(c))
        /\ Go(c, IF call[c].cacheError THEN AfterResults(c) ELSE "store", Links, Answered(call[c]))
     \/ Refused(Main(c)) /\ Go(c, AfterResults(c), Links, NoCall)
  /\ UNCHANGED <<dataVars, optionVars, boundVars>>

\* Mutant: the time is that of the statement that stores.
StoredNow(c) == [result |-> call[c].result, time |-> clock, lag |-> call[c].lag]

Stored(c) == [result |-> call[c].result, time |-> call[c].time, lag |-> call[c].lag]

\* storeInCache: what was found is updated, whichever rows it is now, and else one is
\* inserted; redis sets its key.
RowsAfter(c) ==
  LET k == Client(c, "store")
  IN IF cacheType = "redis" THEN {[n |-> 1, value |-> Stored(c), new |-> NoValue, by |-> ""]}
     ELSE IF call[c].saved THEN {IF row \in Seen(k) THEN Put(row, k, Stored(c)) ELSE row : row \in rows}
     ELSE rows \union {Put(NewRow, k, Stored(c))}

\* Mutant: the runner that stored is released only when it did.
LinksWhenStored(c, done) ==
  IF done /\ StoreRunner(c) # Main(c) THEN Release(Links, StoreRunner(c)) ELSE Links

\* A runner of its own is released, whatever happened.
LinksAfterStore(c, done) == IF StoreRunner(c) # Main(c) THEN Release(Links, StoreRunner(c)) ELSE Links

Store(c) ==
  \/ /\ Able(c, "store") /\ (call[c].saved => Unlocked(Client(c, "store")))
     /\ rows' = RowsAfter(c)
     /\ Go(c, AfterResults(c), LinksAfterStore(c, TRUE), call[c])
     /\ UNCHANGED <<transaction, committed, written, optionVars, boundVars>>
  \/ /\ Fails(c, "store")
     /\ Go(c, AfterResults(c), LinksAfterStore(c, FALSE), IF ignoreErrors THEN call[c] ELSE NoCall)
     /\ UNCHANGED <<rows, committed, written, optionVars>>

(***************************************************************************)
(* The end of a transaction: COMMIT, or ROLLBACK by choice, or as a        *)
(* statement failed; a released runner refuses both, and a lost client has *)
(* none.                                                                   *)
(***************************************************************************)
End(c) ==
  LET k == Client(c, "end")
  IN /\ pc[c] = "end"
     /\ \/ /\ Served(Main(c))
           /\ \E commit \in BOOLEAN :
                /\ commit => ~transaction[k].aborted /\ call[c].result # 0
                /\ rows' = AfterEnd({k}, commit)
                /\ committed' = IF commit /\ transaction[k].version # 0
                                THEN Append(committed, [version |-> transaction[k].version, at |-> clock])
                                ELSE committed
           /\ transaction' = [transaction EXCEPT ![k] = NoTransaction]
        \/ Refused(Main(c)) /\ UNCHANGED <<rows, committed, transaction>>
     /\ Go(c, "idle", Links, call[c])
     /\ UNCHANGED <<written, optionVars, boundVars>>

Deleted(row, k) == IF Open(k) THEN [row EXCEPT !.new = NoValue, !.by = k] ELSE [row EXCEPT !.value = NoValue]

\* remove; when its DELETE fails the runner is not released.
Delete(c) ==
  LET k == Client(c, "remove")
  IN \/ /\ Able(c, "remove") /\ Unlocked(k)
        /\ rows' = Without({IF row \in Seen(k) THEN Deleted(row, k) ELSE row : row \in rows})
        /\ Go(c, "idle", Links, NoCall)
        /\ UNCHANGED <<transaction, committed, written, optionVars, boundVars>>
     \/ /\ Fails(c, "remove")
        /\ pc' = [pc EXCEPT ![c] = "failed"]
        /\ UNCHANGED <<connectionVars, call, rows, committed, written, optionVars>>

(***************************************************************************)
(* What happens besides.                                                   *)
(***************************************************************************)
\* Others commit a new version.
Change ==
  /\ written < MaxVersions /\ \A k \in Clients : transaction[k].version = 0
  /\ written' = written + 1 /\ committed' = Append(committed, [version |-> written + 1, at |-> clock])
  /\ UNCHANGED <<connectionVars, pc, call, rows, transaction, optionVars, boundVars>>

Tick ==
  /\ clock < MaxClock /\ clock' = clock + 1
  /\ UNCHANGED <<connectionVars, pc, call, dataVars, optionVars, calls, failures>>

\* The server rolls back what the clients that are gone have begun.
RolledBack(gone) ==
  /\ rows' = AfterEnd(gone, FALSE)
  /\ transaction' = [k \in Clients |-> IF k \in gone THEN NoTransaction ELSE transaction[k]]
  /\ UNCHANGED <<pc, call, committed, written, optionVars, clock, calls>>

Break(k) ==
  /\ \E q \in Runners : runner[q].client = k
  /\ failures < MaxFailures /\ failures' = failures + 1
  /\ Become(Lost(Links, {k})) /\ UNCHANGED pool
  /\ RolledBack({k})

Timeout(q) ==
  /\ failures < MaxFailures /\ failures' = failures + 1
  /\ ConnectTimeout(q)
  /\ UNCHANGED <<pc, call, dataVars, optionVars, clock, calls>>

Serve == Grant /\ UNCHANGED <<pc, call, dataVars, optionVars, boundVars>>
Destroy ==
  /\ failures < MaxFailures /\ failures' = failures + 1
  /\ Disconnect
  /\ UNCHANGED <<pc, call, dataVars, optionVars, clock, calls>>
Closing ==
  \/ \E q \in Runners : ReleaseListed(q) /\ UNCHANGED <<pc, call, dataVars, optionVars, boundVars>>
  \/ EndPool /\ RolledBack(Free) /\ UNCHANGED failures
  \/ PoolEnded /\ UNCHANGED <<pc, call, dataVars, optionVars, boundVars>>

Step(c) == Write(c) \/ Get(c) \/ Read(c) \/ Answer(c) \/ Store(c) \/ End(c) \/ Delete(c)

Next ==
  \/ \E c \in Callers : Begin(c) \/ Step(c)
  \/ \E k \in Clients : Break(k)
  \/ \E q \in Runners : Timeout(q)
  \/ Change \/ Tick \/ Serve \/ Destroy \/ Closing

\* A statement that can be answered is, and so is a request, in some order.
Fairness == WF_vars((\E c \in Callers : Step(c)) \/ Serve \/ Closing)
Spec == Init /\ [][Next]_vars /\ Fairness

(***************************************************************************)
(* Properties.                                                             *)
(***************************************************************************)
\* "make sure to release the QueryRunner when it is no longer necessary to return the
\* connection back to the connection pool": a client of the pool
\* is out only for a call that is under way.
ClientsAreReturned == \A q \in Holding : pc[q[1]] \notin {"idle", "failed"}

\* Whatever fails, breaks or is destroyed, a client of the pool is out only for a call
\* that is under way, or for a remove that has failed.
OnlyRemoveKeepsClients == \A q \in Holding : pc[q[1]] # "idle"

\* A result that the table of the cache serves outside of a transaction was committed.
ServedIsCommitted ==
  cacheType = "database" =>
    \A c \in Readers : call[c].served => \E i \in DOMAIN committed : committed[i].version = call[c].result

\* As long as the source is not being destroyed, a result that the table of the cache
\* serves outside of a transaction was committed, even when the call that stored it was
\* in a transaction that is rolled back.
NothingUncommitted == pool = "up" => ServedIsCommitted

\* A committed result that the cache serves was the truth no longer before than the
\* duration and the time that the answer of its query took, however long the call that
\* stored it waited for a client.
ServedInTime ==
  \A c \in Callers : \A i \in 1..(Len(committed) - 1) :
    call[c].served /\ committed[i].version = call[c].result
      => committed[i + 1].at + Duration + call[c].lag >= call[c].at

\* "This means the cache will be invalid 1 second after the query builder code is
\* called": what it serves was the truth no longer than the duration before.
InvalidAfterDuration ==
  \A c \in Callers : \A i \in 1..(Len(committed) - 1) :
    call[c].served /\ committed[i].version = call[c].result
      => committed[i + 1].at + Duration >= call[c].at

\* Every call ends, unless it waits for a client of a pool that has ended; and so does
\* a destroy.  Not so once a remove has failed, which keeps a client.
Ended(c) ==
  \/ pc[c] \in {"idle", "failed"}
  \/ pool = "ended" /\ \E i \in DOMAIN requests : requests[i][1] = c
EverythingEnds ==
  []<>(\/ \E x \in Removers : pc[x] = "failed"
       \/ pool \in {"up", "ended"} /\ \A c \in Callers : Ended(c))
===============================================================================
