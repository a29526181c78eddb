----------------------------- MODULE SalesSync -----------------------------
(***************************************************************************)
(* The way of a sale into the database: a seller INCRs the session's key   *)
(* in Redis and then publishes the count it got; the subscriber of every   *)
(* pod SETs the key to each count it hears; the periodic job sync-sales    *)
(* copies the keys into sessions.current_sales_count and deletes those of  *)
(* completed sessions.                                                     *)
(*                                                                         *)
(*   idle -> fetch -> clean* -> batch* -> verify* -> idle                  *)
(*                              |  \-> again*                              *)
(*                              \-> fallback*                              *)
(*                                                                         *)
(* Each await that reads or writes what others can change is one step.     *)
(***************************************************************************)
EXTENDS SalesChannel, FiniteSets

CONSTANTS
  Sellers,     \* those who sell: the shop's processes and the orphan job
  BatchSize,   \* SESSION_SYNC_SALES_BATCH_SIZE
  SampleSize,  \* how many sessions a run verifies, 100
  MaxSold,     \* bound: how many INCRs happen
  Faults,      \* the faults of this instance: "crash", "db", "redis"
  MaxFaults    \* bound: how many faults happen in a behaviour

ASSUME ConstantsAssumption ==
  /\ MaxSession \in Nat /\ MaxSold \in Nat
  /\ BatchSize \in Nat \ {0} /\ SampleSize \in Nat \ {0}
  /\ Faults \subseteq {"crash", "db", "redis"} /\ MaxFaults \in Nat

VARIABLES
  ttl,     \* the keys that are to expire
  made,    \* history: made[s] sales of session s, each one INCR
  offer,   \* offer[q]: the counts seller q has yet to publish
  status,  \* status[s] of the session's row, "missing" when it has none
  row,     \* row[s]: its current_sales_count, null as 0
  pc,      \* pc[p]: the next step of the run on pod p
  mem,     \* mem[p]: what that run has read
  faults

keys   == <<sales, ttl>>
worker == <<pc, mem>>
vars   == <<keys, chan, made, offer, status, row, worker, faults>>

\* read: the MGET; dead: keys to delete; todo: sessions to write; listed: all of those;
\* items: the batch or sample in hand; at, got: the session in hand and its GET.
Mem   == [read: [Sessions -> {NoKey} \cup Nat], dead: SUBSET Sessions, todo: SUBSET Sessions,
          listed: SUBSET Sessions, items: SUBSET Sessions, updated: BOOLEAN,
          at: 0..MaxSession, got: Nat]
Fresh == [read |-> [s \in Sessions |-> NoKey], dead |-> {}, todo |-> {}, listed |-> {},
          items |-> {}, updated |-> FALSE, at |-> 0, got |-> 0]
Steps == {"idle", "fetch", "clean", "batch", "again", "fallback", "overwrite", "verify", "fix"}

TypeOK ==
  /\ SalesOK /\ ttl \subseteq Sessions
  /\ made \in [Sessions -> 0..MaxSold]
  /\ offer \in [Sellers -> SUBSET Message]
  /\ status \in [Sessions -> {"active", "stopped", "completed", "missing"}]
  /\ row \in [Sessions -> Nat]
  /\ pc \in [Pods -> Steps] /\ mem \in [Pods -> Mem]
  /\ faults \in 0..MaxFaults

Dead == {s \in Sessions : status[s] \in {"completed", "missing"}}

(***************************************************************************)
(* Wrong variants of the definitions below, each the slip a change to the  *)
(* code could make; README.md says which property notices which.           *)
(***************************************************************************)
GoneNever(s)        == FALSE
RemovableInSync(p)  == {s \in Sessions : mem[p].read[s] # NoKey /\ (s \in Dead \/ mem[p].read[s] = row[s])}
IfHigher(p, s)      == mem[p].read[s] > row[s]

(***************************************************************************)
(* Decisions of the code                                                   *)
(***************************************************************************)
Found(p) == {s \in Sessions : mem[p].read[s] # NoKey}

\* Keys to remove: no row, or a COMPLETED session.
Removable(p) == {s \in Found(p) : s \in Dead}

\* No value to parse.
Gone(s) == sales[s] = NoKey

\* redisCount !== dbCount, be it higher or lower.
Differs(p, s) == mem[p].read[s] # row[s]

\* The first n of S in an order nobody knows: SCAN's, or a random one.
Some(S, n) == {T \in SUBSET S : Cardinality(T) = IF Cardinality(S) < n THEN Cardinality(S) ELSE n}

Goto(p, step) == pc' = [pc EXCEPT ![p] = step]
Quit(p)       == Goto(p, "idle") /\ mem' = [mem EXCEPT ![p] = Fresh]

\* current_sales_count = n[s]; a session without a row is not written.
Write(S, n) == row' = [s \in Sessions |-> IF s \in S /\ status[s] # "missing" THEN n[s] ELSE row[s]]

\* The end of the batches: verify a sample if something was updated.
Verify(p) ==
  IF mem[p].updated
    THEN \E T \in Some(mem[p].listed, SampleSize) :
           Goto(p, "verify") /\ mem' = [mem EXCEPT ![p] = [Fresh EXCEPT !.items = T]]
    ELSE Quit(p)

(***************************************************************************)
(* The run of sync-sales on pod p                                          *)
(***************************************************************************)
Init ==
  /\ sales = [s \in Sessions |-> NoKey] /\ chan = [p \in Pods |-> <<>>]
  /\ ttl = {} /\ made = [s \in Sessions |-> 0] /\ offer = [q \in Sellers |-> {}]
  /\ status = [s \in Sessions |-> "active"] /\ row = [s \in Sessions |-> 0]
  /\ pc = [p \in Pods |-> "idle"] /\ mem = [p \in Pods |-> Fresh]
  /\ faults = 0

\* The worker takes a run of the job, and it SCANs and MGETs; a failed or stalled run is
\* taken again like any other.
ReadKeys(p) ==
  /\ pc[p] = "idle" /\ \E s \in Sessions : sales[s] # NoKey
  /\ Goto(p, "fetch") /\ mem' = [mem EXCEPT ![p].read = sales]
  /\ UNCHANGED <<keys, chan, made, offer, status, row, faults>>

\* findMany and the first pass.
FetchRows(p) ==
  LET todo == {s \in Found(p) \ Removable(p) : Differs(p, s)} IN
  /\ pc[p] = "fetch" /\ Goto(p, "clean")
  /\ mem' = [mem EXCEPT ![p].read = [s \in Sessions |-> IF s \in todo THEN @[s] ELSE NoKey],
                        ![p].dead = Removable(p), ![p].todo = todo, ![p].listed = todo]
  /\ UNCHANGED <<keys, chan, made, offer, status, row, faults>>

\* DEL, one key after the other, whatever was counted since the read.
DeleteKey(p) ==
  /\ pc[p] = "clean"
  /\ \/ /\ mem[p].dead = {} /\ Goto(p, "batch")
        /\ UNCHANGED <<keys, mem>>
     \/ \E s \in mem[p].dead :
          /\ sales' = [sales EXCEPT ![s] = NoKey] /\ ttl' = ttl \ {s}
          /\ mem' = [mem EXCEPT ![p].dead = @ \ {s}] /\ UNCHANGED pc
  /\ UNCHANGED <<chan, made, offer, status, row, faults>>

\* One transaction for a batch.  When it changed nothing its items are looked at again.
WriteBatch(p) ==
  /\ pc[p] = "batch" /\ mem[p].todo # {}
  /\ \E B \in Some(mem[p].todo, BatchSize) :
       LET W == {s \in B : Differs(p, s)} IN
       /\ Write(W, mem[p].read)
       /\ IF \E s \in W : status[s] # "missing"
            THEN mem' = [mem EXCEPT ![p].todo = @ \ B, ![p].updated = TRUE] /\ UNCHANGED pc
            ELSE mem' = [mem EXCEPT ![p].todo = @ \ B, ![p].items = B] /\ Goto(p, "again")
  /\ UNCHANGED <<keys, chan, made, offer, status, faults>>

FinishBatches(p) ==
  /\ pc[p] = "batch" /\ mem[p].todo = {} /\ Verify(p)
  /\ UNCHANGED <<keys, chan, made, offer, status, row, faults>>

\* The items of a batch that changed nothing, one by one.
WriteAgain(p) ==
  /\ pc[p] = "again"
  /\ \E s \in mem[p].items :
       LET W == {x \in {s} : Differs(p, x)} IN
       /\ Write(W, mem[p].read)
       /\ mem' = [mem EXCEPT ![p].items = @ \ {s},
                             ![p].updated = @ \/ (W # {} /\ status[s] # "missing")]
  /\ UNCHANGED <<keys, chan, pc, made, offer, status, faults>>

\* The individual update after a failed transaction, and the verification, GET the key
\* again; a key that is gone is passed over.
GetKey(p) ==
  /\ pc[p] \in {"fallback", "verify"}
  /\ \E s \in mem[p].items :
       IF Gone(s)
         THEN mem' = [mem EXCEPT ![p].items = @ \ {s}] /\ UNCHANGED pc
         ELSE /\ mem' = [mem EXCEPT ![p].items = @ \ {s}, ![p].at = s, ![p].got = sales[s]]
              /\ Goto(p, IF pc[p] = "fallback" THEN "overwrite" ELSE "fix")
  /\ UNCHANGED <<keys, chan, made, offer, status, row, faults>>

PutRow(p) ==
  /\ pc[p] \in {"overwrite", "fix"}
  /\ Write({mem[p].at}, [s \in Sessions |-> mem[p].got])
  /\ mem' = [mem EXCEPT ![p].at = 0, ![p].got = 0,
                        ![p].updated = pc[p] = "overwrite" /\ (@ \/ status[mem[p].at] # "missing")]
  /\ Goto(p, IF pc[p] = "overwrite" THEN "fallback" ELSE "verify")
  /\ UNCHANGED <<keys, chan, made, offer, status, faults>>

FinishItems(p) ==
  /\ pc[p] \in {"again", "fallback", "verify"} /\ mem[p].items = {}
  /\ IF pc[p] = "verify" THEN Quit(p) ELSE Goto(p, "batch") /\ UNCHANGED mem
  /\ UNCHANGED <<keys, chan, made, offer, status, row, faults>>

(***************************************************************************)
(* Faults                                                                  *)
(***************************************************************************)
Fault(kind) == kind \in Faults /\ faults < MaxFaults /\ faults' = faults + 1

\* A failing findMany fails the run, a failing transaction falls back to single updates,
\* a failing single update is counted and passed over.
DbFails(p) ==
  /\ Fault("db")
  /\ \/ pc[p] = "fetch" /\ Quit(p)
     \/ pc[p] = "batch" /\ \E B \in Some(mem[p].todo, BatchSize) :
          /\ B # {} /\ Goto(p, "fallback")
          /\ mem' = [mem EXCEPT ![p].todo = @ \ B, ![p].items = B]
     \/ pc[p] = "again" /\ \E s \in mem[p].items :
          mem' = [mem EXCEPT ![p].items = @ \ {s}] /\ UNCHANGED pc
     \/ pc[p] \in {"overwrite", "fix"} /\ mem' = [mem EXCEPT ![p].at = 0, ![p].got = 0]
          /\ Goto(p, IF pc[p] = "overwrite" THEN "fallback" ELSE "verify")
  /\ UNCHANGED <<keys, chan, made, offer, status, row>>

\* A failing DEL or GET passes the key over.
RedisFails(p) ==
  /\ Fault("redis")
  /\ \/ pc[p] = "clean" /\ \E s \in mem[p].dead :
          mem' = [mem EXCEPT ![p].dead = @ \ {s}] /\ UNCHANGED pc
     \/ pc[p] \in {"fallback", "verify"} /\ \E s \in mem[p].items :
          mem' = [mem EXCEPT ![p].items = @ \ {s}] /\ UNCHANGED pc
  /\ UNCHANGED <<keys, chan, made, offer, status, row>>

\* A subscriber that loses its connection, or whose SET fails, loses messages.
SubscriberFails(p) ==
  /\ Fault("redis") /\ (Disconnect(p) \/ StoreFails(p))
  /\ UNCHANGED <<ttl, made, offer, status, row, worker>>

Crash(p) ==
  /\ Fault("crash") /\ pc[p] # "idle"
  /\ Quit(p) /\ chan' = [chan EXCEPT ![p] = <<>>]
  /\ UNCHANGED <<keys, made, offer, status, row>>

(***************************************************************************)
(* Around the job                                                          *)
(***************************************************************************)

\* SET without a TTL: the key will not expire any more.
Store(p) ==
  /\ chan[p] # <<>> /\ ttl' = ttl \ {Head(chan[p]).session}
  /\ HandleSalesUpdate(p)
  /\ UNCHANGED <<made, offer, status, row, worker, faults>>

\* A seller INCRs the key and publishes the count in a later step.
Sell(q, s) ==
  /\ offer[q] = {} /\ made[s] < MaxSold
  /\ Incr(s) /\ made' = [made EXCEPT ![s] = @ + 1]
  /\ offer' = [offer EXCEPT ![q] = {[session |-> s, count |-> Count(s) + 1]}]
  /\ UNCHANGED <<ttl, chan, status, row, worker, faults>>

Publish(q) ==
  /\ \E m \in offer[q] : PublishTo(Pods, m.session, m.count)
  /\ offer' = [offer EXCEPT ![q] = {}]
  /\ UNCHANGED <<keys, made, status, row, worker, faults>>

\* The session ends, and an existing key is given a TTL.
End(s, end) ==
  /\ status[s] = "active" /\ status' = [status EXCEPT ![s] = end]
  /\ ttl' = IF sales[s] = NoKey THEN ttl ELSE ttl \cup {s}
  /\ UNCHANGED <<sales, chan, made, offer, row, worker, faults>>

\* Its row is deleted by someone else; the key stays.
Remove(s) ==
  /\ status[s] # "missing" /\ status' = [status EXCEPT ![s] = "missing"]
  /\ UNCHANGED <<keys, chan, made, offer, row, worker, faults>>

Expire(s) ==
  /\ s \in ttl /\ ttl' = ttl \ {s} /\ sales' = [sales EXCEPT ![s] = NoKey]
  /\ UNCHANGED <<chan, made, offer, status, row, worker, faults>>

-----------------------------------------------------------------------------
Sync(p) ==
  \/ FetchRows(p) \/ DeleteKey(p) \/ WriteBatch(p) \/ FinishBatches(p)
  \/ WriteAgain(p) \/ GetKey(p) \/ PutRow(p) \/ FinishItems(p)

Fail(p) == DbFails(p) \/ RedisFails(p) \/ SubscriberFails(p) \/ Crash(p)

Next ==
  \/ \E p \in Pods : ReadKeys(p) \/ Sync(p) \/ Store(p) \/ Fail(p)
  \/ \E q \in Sellers : Publish(q) \/ \E s \in Sessions : Sell(q, s)
  \/ \E s \in Sessions : End(s, "stopped") \/ End(s, "completed") \/ Remove(s) \/ Expire(s)

Spec == Init /\ [][Next]_vars

\* The job repeats for ever on some pod, and a run that has begun goes on, as does a subscriber.
Fairness ==
  /\ WF_vars(\E p \in Pods : ReadKeys(p))
  /\ \A p \in Pods : WF_vars(Sync(p)) /\ WF_vars(Store(p))

FairSpec == Spec /\ Fairness

(***************************************************************************)
(* Properties                                                              *)
(***************************************************************************)

\* Whoever overwrites whose count and however late, neither the key nor the database shows
\* more sales than were made: thresholds and triggers are never reached by sales that do
\* not exist.
NeverOvercounts ==
  \A s \in Sessions : sales[s] <= made[s] /\ row[s] <= made[s]

\* "Leaves Redis keys for active sessions": only a session that has ended loses its key,
\* although the run decides on rows it read earlier.
ActiveKeysStay ==
  [][\A s \in Sessions : sales[s] # NoKey /\ sales'[s] = NoKey => status[s] # "active"]_vars

\* Once the sellers are quiet the row of every session shows what its key shows, for ever,
\* whatever run wrote a stale count in between, and the keys of dead sessions are gone,
\* though late messages bring them back.
EventuallyInSync ==
  \A s \in Sessions :
    <>[](IF s \in Dead THEN sales[s] = NoKey ELSE sales[s] \in {NoKey, row[s]})

\* "Only updates if Redis count is higher than DB count": no step lowers a row.
OnlyRaises == [][\A s \in Sessions : row'[s] >= row[s]]_vars
=============================================================================
