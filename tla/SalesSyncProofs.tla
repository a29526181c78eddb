-------------------------- MODULE SalesSyncProofs --------------------------
(***************************************************************************)
(* Proofs about SalesSync for any sessions, pods, sellers, batch and       *)
(* sample sizes and faults.                                                *)
(***************************************************************************)
EXTENDS SalesSync, TLAPS, SequenceTheorems

(***************************************************************************)
(* The locals of a run: what it is about to write was there when it read.  *)
(***************************************************************************)
FoundIn(m) == {s \in Sessions : m.read[s] # NoKey}

MemOK(m, step) ==
  /\ m \in Mem /\ m.todo \subseteq FoundIn(m)
  /\ step = "idle" => m.todo = {}
  /\ step = "again" => m.items \subseteq FoundIn(m)

TypeInv == TypeOK /\ \A p \in Pods : MemOK(mem[p], pc[p])

\* What a step of a run can do to its locals.
MemMoves(p) ==
  /\ pc' \in [Pods -> Steps] /\ mem' = [mem EXCEPT ![p] = mem'[p]]
  /\ \A q \in Pods \ {p} : pc'[q] = pc[q] /\ mem'[q] = mem[q]
  /\ MemOK(mem'[p], pc'[p])
  /\ \A s \in Sessions : mem'[p].read[s] \in {NoKey, sales[s], mem[p].read[s]}
  /\ mem'[p].dead \subseteq mem[p].dead \cup Dead
  /\ \/ mem'[p].got = 0
     \/ mem'[p].got = mem[p].got /\ mem'[p].at = mem[p].at
     \/ mem'[p].at \in Sessions /\ mem'[p].got = sales[mem'[p].at]

LEMMA FreshMem == Fresh \in Mem /\ \A step : MemOK(Fresh, step)
<1>1. [s \in Sessions |-> NoKey] \in [Sessions -> {NoKey} \cup Nat] /\ 0 \in 0..MaxSession
  BY ConstantsAssumption DEF ConstantsAssumption
<1>2. Fresh \in Mem
  BY <1>1 DEF Fresh, Mem
<1> QED
  BY <1>2 DEF MemOK, Fresh

LEMMA Quits ==
  ASSUME TypeInv, NEW p \in Pods, Quit(p)
  PROVE  MemMoves(p)
<1>1. /\ pc' \in [Pods -> Steps] /\ mem' = [mem EXCEPT ![p] = mem'[p]] /\ mem'[p] = Fresh /\ pc'[p] = "idle"
      /\ \A q \in Pods \ {p} : pc'[q] = pc[q] /\ mem'[q] = mem[q]
  BY DEF Quit, Goto, TypeInv, TypeOK, Steps
<1>2. MemOK(Fresh, "idle") /\ Fresh.dead = {} /\ Fresh.got = 0 /\ \A s \in Sessions : Fresh.read[s] = NoKey
  BY FreshMem DEF Fresh
<1> QED
  BY <1>1, <1>2 DEF MemMoves

\* A step that changes the locals of one run, but what it has read, or nothing.
Narrows(m, n) ==
  /\ m \in Mem /\ m.read = n.read /\ m.dead \subseteq n.dead /\ m.todo \subseteq n.todo
  /\ \/ m.got = 0
     \/ m.got = n.got /\ m.at = n.at
     \/ m.at \in Sessions /\ m.got = sales[m.at]

LEMMA Narrowing ==
  ASSUME TypeInv, NEW p \in Pods, NEW step \in Steps \ {"idle"}, NEW m, Narrows(m, mem[p]),
         Goto(p, step) \/ (pc[p] = step /\ UNCHANGED pc), mem' = [mem EXCEPT ![p] = m],
         step = "again" => m.items \subseteq FoundIn(mem[p])
  PROVE  MemMoves(p)
<1>1. /\ pc' \in [Pods -> Steps] /\ mem' = [mem EXCEPT ![p] = mem'[p]] /\ mem'[p] = m /\ pc'[p] = step
      /\ \A q \in Pods \ {p} : pc'[q] = pc[q] /\ mem'[q] = mem[q]
  BY DEF Goto, TypeInv, TypeOK
<1>2. FoundIn(m) = FoundIn(mem[p])
  BY DEF Narrows, FoundIn
<1>3. MemOK(m, step)
  BY <1>2 DEF Narrows, TypeInv, MemOK
<1> QED
  BY <1>1, <1>3 DEF MemMoves, Narrows

LEMMA Staying ==
  ASSUME TypeInv, NEW p \in Pods, NEW step \in Steps \ {"idle"}, UNCHANGED mem,
         Goto(p, step) \/ (pc[p] = step /\ UNCHANGED pc),
         step = "again" => mem[p].items \subseteq FoundIn(mem[p])
  PROVE  MemMoves(p)
<1>1. mem' = [mem EXCEPT ![p] = mem[p]] /\ mem[p] \in Mem
  BY DEF TypeInv, TypeOK
<1>2. Narrows(mem[p], mem[p])
  BY <1>1 DEF Narrows
<1> QED
  BY <1>1, <1>2, Narrowing

LEMMA MemShapes ==
  ASSUME NEW m \in Mem, NEW a \in SUBSET Sessions, NEW b \in SUBSET Sessions, NEW u \in BOOLEAN,
         NEW s \in 0..MaxSession, NEW g \in Nat
  PROVE  /\ Narrows([m EXCEPT !.dead = m.dead \ a], m)
         /\ Narrows([m EXCEPT !.todo = m.todo \ a, !.updated = u], m)
         /\ Narrows([m EXCEPT !.todo = m.todo \ a, !.items = b], m)
         /\ Narrows([m EXCEPT !.items = m.items \ a, !.updated = u], m)
         /\ Narrows([m EXCEPT !.items = m.items \ a], m)
         /\ s \in Sessions /\ g = sales[s] => Narrows([m EXCEPT !.items = m.items \ a, !.at = s, !.got = g], m)
         /\ Narrows([m EXCEPT !.at = 0, !.got = 0, !.updated = u], m)
         /\ Narrows([m EXCEPT !.at = 0, !.got = 0], m)
<1>1. 0 \in 0..MaxSession
  BY ConstantsAssumption DEF ConstantsAssumption
<1> QED
  BY <1>1 DEF Mem, Narrows

LEMMA Sampling ==
  ASSUME NEW S \in SUBSET Sessions, NEW n, NEW T \in Some(S, n)
  PROVE  T \in SUBSET Sessions /\ T \subseteq S
BY DEF Some

(***************************************************************************)
(* What a step of a run writes.                                            *)
(***************************************************************************)
RowMoves(p) ==
  /\ row' \in [Sessions -> Nat]
  /\ \A s \in Sessions : row'[s] \in {row[s], mem[p].read[s], mem[p].got}
  /\ \A s \in Sessions : row'[s] # row[s] /\ row'[s] # mem[p].read[s] => s = mem[p].at

LEMMA WriteRead ==
  ASSUME TypeInv, NEW p \in Pods, NEW W, W \subseteq FoundIn(mem[p]), Write(W, mem[p].read)
  PROVE  RowMoves(p)
<1>1. mem[p].read \in [Sessions -> {NoKey} \cup Nat]
  BY DEF TypeInv, TypeOK, Mem
<1> QED
  BY <1>1 DEF Write, RowMoves, FoundIn, TypeInv, TypeOK

LEMMA WriteGot ==
  ASSUME TypeInv, NEW p \in Pods, Write({mem[p].at}, [s \in Sessions |-> mem[p].got])
  PROVE  RowMoves(p)
<1>1. mem[p].got \in Nat
  BY DEF TypeInv, TypeOK, Mem
<1> QED
  BY <1>1 DEF Write, RowMoves, TypeInv, TypeOK

LEMMA RowKept ==
  ASSUME TypeInv, row' = row, NEW p \in Pods
  PROVE  RowMoves(p)
BY DEF RowMoves, TypeInv, TypeOK

\* The only key a run deletes is one of its list, for good.
KeyMoves(p) ==
  /\ sales' \in [Sessions -> {NoKey} \cup Nat] /\ ttl' \subseteq ttl
  /\ \A s \in Sessions : sales'[s] = sales[s] \/ (sales'[s] = NoKey /\ s \in mem[p].dead)

RunStep(p) == ReadKeys(p) \/ Sync(p) \/ DbFails(p) \/ RedisFails(p)

LEMMA KeysKept ==
  ASSUME TypeInv, UNCHANGED keys, NEW p \in Pods
  PROVE  KeyMoves(p)
BY DEF KeyMoves, TypeInv, TypeOK, SalesOK, keys

LEMMA RunEffects ==
  ASSUME TypeInv, NEW p \in Pods, RunStep(p)
  PROVE  MemMoves(p) /\ RowMoves(p) /\ KeyMoves(p) /\ UNCHANGED <<chan, made, offer, status>>
<1> DEFINE m == mem[p]
<1>0. /\ m \in Mem /\ MemOK(m, pc[p]) /\ DOMAIN mem = Pods /\ \A s \in Sessions : s \in 0..MaxSession
      /\ \A s \in Sessions : {s} \in SUBSET Sessions
  BY DEF TypeInv, TypeOK, Sessions
<1>1. CASE ReadKeys(p)
  <2>1. mem'[p] \in Mem /\ mem'[p].read = sales /\ mem'[p].dead = m.dead /\ mem'[p].todo = m.todo
        /\ mem'[p].got = m.got /\ mem'[p].at = m.at
    <3>1. mem'[p] = [m EXCEPT !.read = sales] /\ sales \in [Sessions -> {NoKey} \cup Nat]
      BY <1>0, <1>1 DEF ReadKeys, TypeInv, TypeOK, SalesOK
    <3> HIDE DEF m
    <3> QED
      BY ONLY <1>0, <3>1 DEF Mem
  <2>2. /\ pc' \in [Pods -> Steps] /\ mem' = [mem EXCEPT ![p] = mem'[p]] /\ pc'[p] = "fetch" /\ pc[p] = "idle"
        /\ \A q \in Pods \ {p} : pc'[q] = pc[q] /\ mem'[q] = mem[q]
    BY <1>0, <1>1 DEF ReadKeys, Goto, TypeInv, TypeOK, Steps
  <2>3. MemMoves(p)
    BY <1>0, <2>1, <2>2 DEF MemMoves, MemOK
  <2> QED
    BY <1>1, <2>3, RowKept, KeysKept DEF ReadKeys
<1>2. CASE FetchRows(p)
  <2> DEFINE todo == {s \in Found(p) \ Removable(p) : Differs(p, s)}
             r == [s \in Sessions |-> IF s \in todo THEN m.read[s] ELSE NoKey]
             d == Removable(p)
  <2>1. /\ todo \in SUBSET Sessions /\ d \in SUBSET Sessions /\ d \subseteq Dead
        /\ r \in [Sessions -> {NoKey} \cup Nat] /\ \A s \in todo : r[s] # NoKey
        /\ \A s \in Sessions : r[s] \in {NoKey, m.read[s]}
    BY <1>0 DEF Found, Removable, Dead, Mem
  <2>2. /\ mem'[p] = [m EXCEPT !.read = r, !.dead = d, !.todo = todo, !.listed = todo]
        /\ pc' \in [Pods -> Steps] /\ mem' = [mem EXCEPT ![p] = mem'[p]] /\ pc'[p] = "clean"
        /\ \A q \in Pods \ {p} : pc'[q] = pc[q] /\ mem'[q] = mem[q]
    BY <1>0, <1>2 DEF FetchRows, Goto, TypeInv, TypeOK, Steps
  <2>3. MemMoves(p)
    <3> HIDE DEF todo, r, d, m
    <3>1. mem'[p] \in Mem /\ mem'[p].read = r /\ mem'[p].dead = d /\ mem'[p].todo = todo
          /\ mem'[p].got = m.got /\ mem'[p].at = m.at
      BY ONLY <1>0, <2>1, <2>2 DEF Mem
    <3>2. MemOK(mem'[p], "clean")
      BY <2>1, <3>1 DEF MemOK, FoundIn
    <3> QED
      BY <2>1, <2>2, <3>1, <3>2 DEF MemMoves, m
  <2> QED
    BY <1>2, <2>3, RowKept, KeysKept DEF FetchRows
<1>3. CASE DeleteKey(p)
  <2>1. CASE Goto(p, "batch") /\ UNCHANGED <<keys, mem>>
    BY <1>3, <2>1, Staying, RowKept, KeysKept DEF DeleteKey, Steps
  <2>2. ASSUME NEW s \in m.dead, sales' = [sales EXCEPT ![s] = NoKey], ttl' = ttl \ {s},
               mem' = [mem EXCEPT ![p].dead = @ \ {s}], UNCHANGED pc
        PROVE  MemMoves(p) /\ RowMoves(p) /\ KeyMoves(p)
    <3>1. s \in Sessions /\ {s} \in SUBSET Sessions
      BY <1>0 DEF Mem
    <3>2. mem' = [mem EXCEPT ![p] = [m EXCEPT !.dead = m.dead \ {s}]]
      BY <2>2
    <3>3. Narrows([m EXCEPT !.dead = m.dead \ {s}], m)
      BY <1>0, <3>1, MemShapes
    <3>4. MemMoves(p)
      BY <1>3, <2>2, <3>2, <3>3, Narrowing DEF DeleteKey, Steps
    <3>5. KeyMoves(p)
      BY <2>2 DEF KeyMoves, TypeInv, TypeOK, SalesOK
    <3> QED
      BY <1>3, <3>4, <3>5, RowKept DEF DeleteKey
  <2> QED
    BY <1>3, <2>1, <2>2 DEF DeleteKey
<1>4. CASE WriteBatch(p)
  <2>1. PICK B \in Some(m.todo, BatchSize) :
          LET W == {s \in B : Differs(p, s)} IN
          /\ Write(W, m.read)
          /\ IF \E s \in W : status[s] # "missing"
               THEN mem' = [mem EXCEPT ![p].todo = @ \ B, ![p].updated = TRUE] /\ UNCHANGED pc
               ELSE mem' = [mem EXCEPT ![p].todo = @ \ B, ![p].items = B] /\ Goto(p, "again")
    BY <1>4 DEF WriteBatch
  <2>2. B \in SUBSET Sessions /\ B \subseteq FoundIn(m)
    BY <1>0, Sampling DEF Mem, MemOK
  <2>3. RowMoves(p)
    BY <2>1, <2>2, WriteRead
  <2>4. CASE mem' = [mem EXCEPT ![p].todo = @ \ B, ![p].updated = TRUE] /\ UNCHANGED pc
    <3>1. mem' = [mem EXCEPT ![p] = [m EXCEPT !.todo = m.todo \ B, !.updated = TRUE]]
      BY <2>4
    <3>2. Narrows([m EXCEPT !.todo = m.todo \ B, !.updated = TRUE], m)
      <4>1. TRUE \in BOOLEAN /\ {} \in SUBSET Sessions /\ 0 \in Nat /\ 0 \in 0..MaxSession
        BY ConstantsAssumption DEF ConstantsAssumption
      <4> HIDE DEF m
      <4> QED
        BY ONLY <1>0, <2>2, <4>1, MemShapes
    <3> QED
      BY <1>4, <2>3, <2>4, <3>1, <3>2, Narrowing, KeysKept DEF WriteBatch, Steps
  <2>5. CASE mem' = [mem EXCEPT ![p].todo = @ \ B, ![p].items = B] /\ Goto(p, "again")
    <3> DEFINE n == [m EXCEPT !.todo = m.todo \ B, !.items = B]
    <3>1. mem' = [mem EXCEPT ![p] = n]
      BY <2>5
    <3>2. Narrows(n, m) /\ n.items = B
      BY <1>0, <2>2, MemShapes DEF Mem
    <3> HIDE DEF n
    <3> QED
      BY <1>4, <2>2, <2>3, <2>5, <3>1, <3>2, Narrowing, KeysKept DEF WriteBatch, Steps
  <2> QED
    BY <2>1, <2>4, <2>5
<1>5. CASE FinishBatches(p)
  <2>1. CASE Quit(p)
    BY <1>5, <2>1, Quits, RowKept, KeysKept DEF FinishBatches
  <2>2. ASSUME NEW T \in Some(m.listed, SampleSize), Goto(p, "verify"),
               mem' = [mem EXCEPT ![p] = [Fresh EXCEPT !.items = T]]
        PROVE  MemMoves(p)
    <3> DEFINE n == [Fresh EXCEPT !.items = T]
    <3>1. T \in SUBSET Sessions
      BY <1>0, Sampling DEF Mem
    <3>2. n \in Mem
      BY <3>1, FreshMem DEF Mem
    <3>3. n.todo = {} /\ n.dead = {} /\ n.got = 0 /\ \A s \in Sessions : n.read[s] = NoKey
      BY DEF Fresh
    <3>4. /\ pc' \in [Pods -> Steps] /\ mem' = [mem EXCEPT ![p] = mem'[p]] /\ mem'[p] = n /\ pc'[p] = "verify"
          /\ \A q \in Pods \ {p} : pc'[q] = pc[q] /\ mem'[q] = mem[q]
      BY <2>2 DEF Goto, TypeInv, TypeOK, Steps
    <3> HIDE DEF n
    <3> QED
      BY <3>2, <3>3, <3>4 DEF MemMoves, MemOK
  <2> QED
    BY <1>5, <2>1, <2>2, RowKept, KeysKept DEF FinishBatches, Verify
<1>6. CASE WriteAgain(p)
  <2>1. PICK s \in m.items :
          LET W == {x \in {s} : Differs(p, x)} IN
          /\ Write(W, m.read)
          /\ mem' = [mem EXCEPT ![p].items = @ \ {s},
                                ![p].updated = @ \/ (W # {} /\ status[s] # "missing")]
    BY <1>6 DEF WriteAgain
  <2>2. {s} \in SUBSET Sessions /\ m.items \subseteq FoundIn(m) /\ pc[p] = "again"
    BY <1>0, <1>6 DEF Mem, MemOK, WriteAgain
  <2> DEFINE W == {x \in {s} : Differs(p, x)}
             u == m.updated \/ (W # {} /\ status[s] # "missing")
             n == [m EXCEPT !.items = m.items \ {s}, !.updated = u]
  <2>3. RowMoves(p)
    BY <2>1, <2>2, WriteRead
  <2>4. mem' = [mem EXCEPT ![p] = n]
    BY <2>1
  <2>5. u \in BOOLEAN
    BY <1>0 DEF Mem
  <2>6. Narrows(n, m) /\ n.items \subseteq m.items
    <3> HIDE DEF u
    <3> QED
      BY <1>0, <2>2, <2>5, MemShapes DEF Mem
  <2> HIDE DEF n
  <2> QED
    BY <1>6, <2>2, <2>3, <2>4, <2>6, Narrowing, KeysKept DEF WriteAgain, Steps
<1>7. CASE GetKey(p)
  <2>1. PICK s \in m.items :
          IF Gone(s)
            THEN mem' = [mem EXCEPT ![p].items = @ \ {s}] /\ UNCHANGED pc
            ELSE /\ mem' = [mem EXCEPT ![p].items = @ \ {s}, ![p].at = s, ![p].got = sales[s]]
                 /\ Goto(p, IF pc[p] = "fallback" THEN "overwrite" ELSE "fix")
    BY <1>7 DEF GetKey
  <2>2. s \in Sessions /\ {s} \in SUBSET Sessions
    BY <1>0 DEF Mem
  <2>3. CASE Gone(s)
    <3>1. mem' = [mem EXCEPT ![p] = [m EXCEPT !.items = m.items \ {s}]] /\ UNCHANGED pc
      BY <2>1, <2>3
    <3>2. Narrows([m EXCEPT !.items = m.items \ {s}], m)
      BY <1>0, <2>2, MemShapes
    <3> QED
      BY <1>7, <3>1, <3>2, Narrowing, RowKept, KeysKept DEF GetKey, Steps
  <2>4. CASE ~Gone(s)
    <3> DEFINE g == sales[s]
               n == [m EXCEPT !.items = m.items \ {s}, !.at = s, !.got = g]
    <3>1. mem' = [mem EXCEPT ![p] = n] /\ (Goto(p, "overwrite") \/ Goto(p, "fix"))
      BY <2>1, <2>4
    <3>2. g \in Nat /\ s \in 0..MaxSession
      BY <1>0, <2>2, <2>4 DEF Gone, TypeInv, TypeOK, SalesOK
    <3>3. Narrows(n, m)
      BY <1>0, <2>2, <3>2, MemShapes
    <3> HIDE DEF n
    <3> QED
      BY <1>7, <3>1, <3>3, Narrowing, RowKept, KeysKept DEF GetKey, Steps
  <2> QED
    BY <2>3, <2>4
<1>8. CASE PutRow(p)
  <2> DEFINE u == pc[p] = "overwrite" /\ (m.updated \/ status[m.at] # "missing")
             n == [m EXCEPT !.at = 0, !.got = 0, !.updated = u]
  <2>1. mem' = [mem EXCEPT ![p] = n] /\ (Goto(p, "fallback") \/ Goto(p, "verify"))
    BY <1>8 DEF PutRow
  <2>2. u \in BOOLEAN
    OBVIOUS
  <2>3. Narrows(n, m)
    <3>1. {} \in SUBSET Sessions /\ 0 \in Nat /\ 0 \in 0..MaxSession
      BY ConstantsAssumption DEF ConstantsAssumption
    <3> HIDE DEF u, m
    <3> QED
      BY <1>0, <2>2, <3>1, MemShapes
  <2>4. RowMoves(p)
    BY <1>8, WriteGot DEF PutRow
  <2> HIDE DEF n
  <2> QED
    BY <1>8, <2>1, <2>3, <2>4, Narrowing, KeysKept DEF PutRow, Steps
<1>9. CASE FinishItems(p)
  <2>1. Quit(p) \/ (Goto(p, "batch") /\ UNCHANGED mem)
    BY <1>9 DEF FinishItems
  <2>2. MemMoves(p)
    BY <2>1, Quits, Staying DEF Steps
  <2> QED
    BY <1>9, <2>2, RowKept, KeysKept DEF FinishItems
<1>10. CASE DbFails(p)
  <2>1. CASE Quit(p)
    BY <1>10, <2>1, Quits, RowKept, KeysKept DEF DbFails
  <2>2. ASSUME NEW B \in Some(m.todo, BatchSize), Goto(p, "fallback"),
               mem' = [mem EXCEPT ![p].todo = @ \ B, ![p].items = B]
        PROVE  MemMoves(p)
    <3>1. B \in SUBSET Sessions
      BY <1>0, Sampling DEF Mem
    <3>2. Narrows([m EXCEPT !.todo = m.todo \ B, !.items = B], m)
      <4>1. TRUE \in BOOLEAN /\ 0 \in Nat /\ 0 \in 0..MaxSession
        BY ConstantsAssumption DEF ConstantsAssumption
      <4> HIDE DEF m
      <4> QED
        BY ONLY <1>0, <3>1, <4>1, MemShapes
    <3>3. mem' = [mem EXCEPT ![p] = [m EXCEPT !.todo = m.todo \ B, !.items = B]]
      BY <2>2
    <3> QED
      BY <2>2, <3>2, <3>3, Narrowing DEF Steps
  <2>3. ASSUME NEW s \in m.items, pc[p] = "again", UNCHANGED pc,
               mem' = [mem EXCEPT ![p].items = @ \ {s}]
        PROVE  MemMoves(p)
    <3> DEFINE n == [m EXCEPT !.items = m.items \ {s}]
    <3>1. {s} \in SUBSET Sessions /\ m.items \subseteq FoundIn(m)
      BY <1>0, <2>3 DEF Mem, MemOK
    <3>2. Narrows(n, m) /\ n.items \subseteq m.items
      BY <1>0, <3>1, MemShapes DEF Mem
    <3>3. mem' = [mem EXCEPT ![p] = n]
      BY <2>3
    <3> HIDE DEF n
    <3> QED
      BY <2>3, <3>1, <3>2, <3>3, Narrowing DEF Steps
  <2>4. ASSUME mem' = [mem EXCEPT ![p].at = 0, ![p].got = 0],
               Goto(p, "fallback") \/ Goto(p, "verify")
        PROVE  MemMoves(p)
    <3>1. Narrows([m EXCEPT !.at = 0, !.got = 0], m)
      <4>1. TRUE \in BOOLEAN /\ {} \in SUBSET Sessions /\ 0 \in Nat /\ 0 \in 0..MaxSession
        BY ConstantsAssumption DEF ConstantsAssumption
      <4> HIDE DEF m
      <4> QED
        BY ONLY <1>0, <4>1, MemShapes
    <3>2. mem' = [mem EXCEPT ![p] = [m EXCEPT !.at = 0, !.got = 0]]
      BY <2>4
    <3> QED
      BY <2>4, <3>1, <3>2, Narrowing DEF Steps
  <2> QED
    BY <1>10, <2>1, <2>2, <2>3, <2>4, RowKept, KeysKept DEF DbFails
<1>11. CASE RedisFails(p)
  <2>1. ASSUME NEW s \in m.dead, pc[p] = "clean", UNCHANGED pc, mem' = [mem EXCEPT ![p].dead = @ \ {s}]
        PROVE  MemMoves(p)
    <3>1. {s} \in SUBSET Sessions
      BY <1>0 DEF Mem
    <3>2. Narrows([m EXCEPT !.dead = m.dead \ {s}], m)
      BY <1>0, <3>1, MemShapes
    <3>3. mem' = [mem EXCEPT ![p] = [m EXCEPT !.dead = m.dead \ {s}]]
      BY <2>1
    <3> QED
      BY <2>1, <3>2, <3>3, Narrowing DEF Steps
  <2>2. ASSUME NEW s \in m.items, pc[p] \in {"fallback", "verify"}, UNCHANGED pc,
               mem' = [mem EXCEPT ![p].items = @ \ {s}]
        PROVE  MemMoves(p)
    <3>1. {s} \in SUBSET Sessions
      BY <1>0 DEF Mem
    <3>2. Narrows([m EXCEPT !.items = m.items \ {s}], m)
      BY <1>0, <3>1, MemShapes
    <3>3. mem' = [mem EXCEPT ![p] = [m EXCEPT !.items = m.items \ {s}]]
      BY <2>2
    <3> QED
      BY <2>2, <3>2, <3>3, Narrowing DEF Steps
  <2> QED
    BY <1>11, <2>1, <2>2, RowKept, KeysKept DEF RedisFails
<1> QED
  BY <1>1, <1>2, <1>3, <1>4, <1>5, <1>6, <1>7, <1>8, <1>9, <1>10, <1>11 DEF RunStep, Sync

(***************************************************************************)
(* Types.                                                                  *)
(***************************************************************************)
LEMMA CountType ==
  ASSUME SalesOK, NEW s \in Sessions
  PROVE  Count(s) \in Nat
BY DEF SalesOK, Count, NoKey

LEMMA PublishType ==
  ASSUME SalesOK, NEW m \in Message, PublishTo(Pods, m.session, m.count)
  PROVE  chan' \in [Pods -> Seq(Message)]
<1>1. m = [session |-> m.session, count |-> m.count]
  BY DEF Message
<1>2. ASSUME NEW p \in Pods PROVE Append(chan[p], m) \in Seq(Message)
  BY AppendProperties DEF SalesOK
<1> QED
  BY <1>1, <1>2 DEF PublishTo, SalesOK

LEMMA TailType ==
  ASSUME SalesOK, NEW p \in Pods, chan[p] # <<>>
  PROVE  /\ [chan EXCEPT ![p] = Tail(@)] \in [Pods -> Seq(Message)]
         /\ Head(chan[p]) \in Message
BY HeadTailProperties DEF SalesOK

LEMMA ChannelType ==
  ASSUME SalesOK, NEW p \in Pods, HandleSalesUpdate(p) \/ StoreFails(p) \/ Disconnect(p)
  PROVE  SalesOK'
<1>1. CASE HandleSalesUpdate(p)
  <2>1. chan[p] # <<>> /\ Head(chan[p]) \in Message
    BY <1>1, TailType DEF HandleSalesUpdate
  <2> QED
    BY <1>1, <2>1, TailType DEF HandleSalesUpdate, Overwrite, SalesOK, Message
<1>2. CASE StoreFails(p)
  BY <1>2, TailType DEF StoreFails, SalesOK
<1>3. CASE Disconnect(p)
  BY <1>3, EmptySeq DEF Disconnect, SalesOK
<1> QED
  BY <1>1, <1>2, <1>3

LEMMA FaultType ==
  ASSUME TypeOK, NEW kind, Fault(kind)
  PROVE  faults' \in 0..MaxFaults
BY ConstantsAssumption DEF Fault, TypeOK, ConstantsAssumption

LEMMA RunTypes ==
  ASSUME TypeInv, NEW p \in Pods, MemMoves(p), RowMoves(p), KeyMoves(p), faults' \in 0..MaxFaults,
         UNCHANGED <<chan, made, offer, status>>
  PROVE  TypeInv'
<1>1. mem' \in [Pods -> Mem] /\ \A q \in Pods : MemOK(mem'[q], pc'[q])
  <2>1. ASSUME NEW q \in Pods PROVE mem'[q] \in Mem /\ MemOK(mem'[q], pc'[q])
    BY DEF MemMoves, TypeInv, TypeOK, MemOK
  <2>2. mem' = [mem EXCEPT ![p] = mem'[p]] /\ mem \in [Pods -> Mem]
    BY DEF MemMoves, TypeInv, TypeOK
  <2> QED
    BY <2>1, <2>2
<1>2. SalesOK' /\ ttl' \subseteq Sessions /\ row' \in [Sessions -> Nat]
  BY DEF KeyMoves, RowMoves, TypeInv, TypeOK, SalesOK
<1>3. pc' \in [Pods -> Steps]
  BY DEF MemMoves
<1> QED
  BY <1>1, <1>2, <1>3 DEF TypeInv, TypeOK

LEMMA RunFaults ==
  ASSUME TypeOK, NEW p \in Pods, RunStep(p)
  PROVE  faults' \in 0..MaxFaults
<1>1. faults' = faults \/ Fault("db") \/ Fault("redis")
  BY DEF RunStep, ReadKeys, Sync, FetchRows, DeleteKey, WriteBatch, FinishBatches, WriteAgain,
         GetKey, PutRow, FinishItems, DbFails, RedisFails
<1> QED
  BY <1>1, FaultType DEF TypeOK

LEMMA InitTypes == Init => TypeInv
<1> SUFFICES ASSUME Init PROVE TypeInv
  OBVIOUS
<1>1. chan \in [Pods -> Seq(Message)]
  BY EmptySeq DEF Init
<1>2. faults \in 0..MaxFaults /\ made \in [Sessions -> 0..MaxSold]
  BY ConstantsAssumption DEF Init, ConstantsAssumption
<1>3. mem \in [Pods -> Mem] /\ \A p \in Pods : MemOK(mem[p], pc[p])
  BY FreshMem DEF Init
<1> QED
  BY <1>1, <1>2, <1>3 DEF Init, TypeInv, TypeOK, SalesOK, Steps

LEMMA StepTypes == TypeInv /\ [Next]_vars => TypeInv'
<1> SUFFICES ASSUME TypeInv, [Next]_vars PROVE TypeInv'
  OBVIOUS
<1>1. ASSUME NEW p \in Pods, RunStep(p) PROVE TypeInv'
  <2>1. TypeOK
    BY DEF TypeInv
  <2> QED
    BY <1>1, <2>1, RunEffects, RunFaults, RunTypes
<1>2. ASSUME NEW p \in Pods, Store(p) PROVE TypeInv'
  BY <1>2, ChannelType DEF Store, TypeInv, TypeOK, worker, MemOK, FoundIn
<1>3. ASSUME NEW p \in Pods, SubscriberFails(p) PROVE TypeInv'
  BY <1>3, ChannelType, FaultType DEF SubscriberFails, TypeInv, TypeOK, worker, MemOK, FoundIn
<1>4. ASSUME NEW p \in Pods, Crash(p) PROVE TypeInv'
  <2>1. MemMoves(p)
    BY <1>4, Quits DEF Crash
  <2>2. SalesOK' /\ faults' \in 0..MaxFaults
    BY <1>4, EmptySeq, FaultType DEF Crash, SalesOK, TypeInv, TypeOK, keys
  <2>3. mem' \in [Pods -> Mem] /\ \A q \in Pods : MemOK(mem'[q], pc'[q])
    <3>1. ASSUME NEW q \in Pods PROVE mem'[q] \in Mem /\ MemOK(mem'[q], pc'[q])
      BY <2>1 DEF MemMoves, TypeInv, TypeOK, MemOK
    <3>2. mem' = [mem EXCEPT ![p] = mem'[p]] /\ mem \in [Pods -> Mem]
      BY <2>1 DEF MemMoves, TypeInv, TypeOK
    <3> QED
      BY <3>1, <3>2
  <2> QED
    BY <1>4, <2>1, <2>2, <2>3 DEF Crash, MemMoves, TypeInv, TypeOK, keys
<1>5. ASSUME NEW q \in Sellers, NEW s \in Sessions, Sell(q, s) PROVE TypeInv'
  <2>1. Count(s) + 1 \in Nat \ {0}
    BY CountType DEF TypeInv, TypeOK
  <2>2. sales' \in [Sessions -> {NoKey} \cup Nat] /\ [session |-> s, count |-> Count(s) + 1] \in Message
    BY <1>5, <2>1 DEF Sell, Incr, TypeInv, TypeOK, SalesOK, Message
  <2>3. made' \in [Sessions -> 0..MaxSold] /\ offer' \in [Sellers -> SUBSET Message]
    BY <1>5, <2>2, ConstantsAssumption DEF Sell, TypeInv, TypeOK, ConstantsAssumption
  <2> QED
    BY <1>5, <2>2, <2>3 DEF Sell, TypeInv, TypeOK, SalesOK, worker, MemOK, FoundIn
<1>6. ASSUME NEW q \in Sellers, Publish(q) PROVE TypeInv'
  <2>1. chan' \in [Pods -> Seq(Message)]
    BY <1>6, PublishType DEF Publish, TypeInv, TypeOK
  <2> QED
    BY <1>6, <2>1 DEF Publish, TypeInv, TypeOK, SalesOK, worker, keys, MemOK, FoundIn
<1>7. ASSUME NEW s \in Sessions, End(s, "stopped") \/ End(s, "completed") \/ Remove(s) \/ Expire(s)
      PROVE  TypeInv'
  BY <1>7 DEF End, Remove, Expire, TypeInv, TypeOK, SalesOK, worker, keys, MemOK, FoundIn
<1>8. CASE UNCHANGED vars
  BY <1>8 DEF vars, TypeInv, TypeOK, SalesOK, worker, keys, MemOK, FoundIn
<1> QED
  BY <1>1, <1>2, <1>3, <1>4, <1>5, <1>6, <1>7, <1>8 DEF Next, Fail, RunStep

LEMMA AlwaysTyped == Spec => []TypeInv
BY InitTypes, StepTypes, PTL DEF Spec

\* Every variable keeps its type, whoever overwrites whose count and whatever fails.
THEOREM TypeCorrect == Spec => []TypeOK
<1>1. TypeInv => TypeOK
  BY DEF TypeInv
<1> QED
  BY <1>1, AlwaysTyped, PTL

(***************************************************************************)
(* Only sessions that have ended lose their keys: a key is given a TTL, or *)
(* listed for deletion, when its session has ended, and none comes back.   *)
(***************************************************************************)
EndedInv ==
  \A s \in Sessions : status[s] = "active" =>
    s \notin ttl /\ \A p \in Pods : s \notin mem[p].dead

LEMMA RunEnded ==
  ASSUME TypeInv, EndedInv, NEW p \in Pods, MemMoves(p), ttl' \subseteq ttl, UNCHANGED status
  PROVE  EndedInv'
BY DEF EndedInv, MemMoves, Dead

LEMMA StepEnded == TypeInv /\ EndedInv /\ [Next]_vars => EndedInv'
<1> SUFFICES ASSUME TypeInv, EndedInv, [Next]_vars PROVE EndedInv'
  OBVIOUS
<1>1. ASSUME NEW p \in Pods, RunStep(p) PROVE EndedInv'
  BY <1>1, RunEffects, RunEnded DEF KeyMoves
<1>2. ASSUME NEW p \in Pods, Store(p) \/ SubscriberFails(p) PROVE EndedInv'
  BY <1>2 DEF Store, SubscriberFails, worker, EndedInv
<1>3. ASSUME NEW p \in Pods, Crash(p) PROVE EndedInv'
  BY <1>3, Quits, RunEnded DEF Crash, keys
<1>4. ASSUME NEW q \in Sellers, (\E s \in Sessions : Sell(q, s)) \/ Publish(q) PROVE EndedInv'
  BY <1>4 DEF Sell, Publish, worker, keys, EndedInv
<1>5. ASSUME NEW s \in Sessions, End(s, "stopped") \/ End(s, "completed") \/ Remove(s) \/ Expire(s)
      PROVE  EndedInv'
  BY <1>5 DEF End, Remove, Expire, worker, keys, EndedInv, TypeInv, TypeOK
<1>6. CASE UNCHANGED vars
  BY <1>6 DEF vars, worker, keys, EndedInv
<1> QED
  BY <1>1, <1>2, <1>3, <1>4, <1>5, <1>6 DEF Next, Fail, RunStep

LEMMA StepKeys ==
  ASSUME TypeInv, EndedInv, [Next]_vars, NEW s \in Sessions, sales[s] # NoKey, sales'[s] = NoKey
  PROVE  status[s] # "active"
<1>1. ASSUME NEW p \in Pods, RunStep(p) PROVE s \in mem[p].dead
  BY <1>1, RunEffects DEF KeyMoves
<1>2. ASSUME NEW p \in Pods PROVE ~Store(p)
  <2>1. chan[p] # <<>> => Head(chan[p]) \in Message
    BY TailType DEF TypeInv, TypeOK
  <2> QED
    BY <2>1 DEF Store, HandleSalesUpdate, Overwrite, Message, NoKey, TypeInv, TypeOK, SalesOK
<1>3. ASSUME NEW p \in Pods PROVE ~SubscriberFails(p) /\ ~Crash(p)
  BY DEF SubscriberFails, Disconnect, StoreFails, Crash, keys
<1>4. ASSUME NEW q \in Sellers PROVE ~Publish(q) /\ \A x \in Sessions : ~Sell(q, x)
  <2>1. \A x \in Sessions : Count(x) \in Nat
    BY CountType DEF TypeInv, TypeOK
  <2> QED
    BY <2>1 DEF Publish, Sell, Incr, NoKey, keys, TypeInv, TypeOK, SalesOK
<1>5. ASSUME NEW x \in Sessions, End(x, "stopped") \/ End(x, "completed") \/ Remove(x) \/ Expire(x)
      PROVE  s \in ttl
  BY <1>5 DEF End, Remove, Expire, keys, TypeInv, TypeOK, SalesOK
<1>6. ~UNCHANGED vars
  BY DEF vars, keys
<1> QED
  BY <1>1, <1>2, <1>3, <1>4, <1>5, <1>6 DEF Next, Fail, RunStep, EndedInv

\* However old the rows a run decides on are, only a session that has ended loses its key.
THEOREM ActiveKeysKept == Spec => ActiveKeysStay
<1>1. Init => EndedInv
  BY DEF Init, EndedInv, Fresh
<1>2. TypeInv /\ EndedInv /\ [Next]_vars =>
        [\A s \in Sessions : sales[s] # NoKey /\ sales'[s] = NoKey => status[s] # "active"]_vars
  BY StepKeys
<1> QED
  BY <1>1, <1>2, StepEnded, AlwaysTyped, PTL DEF Spec, ActiveKeysStay

(***************************************************************************)
(* Nobody counts more than was sold: every count there is, in a key, a     *)
(* row, a message or the locals of a run, is one a seller once got.        *)
(***************************************************************************)
Honest(messages) == \A i \in 1..Len(messages) : messages[i].count <= made[messages[i].session]

SoldInv ==
  /\ NeverOvercounts
  /\ \A p \in Pods : /\ Honest(chan[p])
                     /\ \A s \in Sessions : mem[p].read[s] <= made[s]
                     /\ mem[p].at \in Sessions => mem[p].got <= made[mem[p].at]
  /\ \A q \in Sellers : \A m \in offer[q] : m.count <= made[m.session]

LEMMA HonestTail ==
  ASSUME TypeInv, NEW p \in Pods, chan[p] # <<>>, Honest(chan[p])
  PROVE  /\ Honest(Tail(chan[p])) /\ Head(chan[p]) \in Message
         /\ Head(chan[p]).count <= made[Head(chan[p]).session]
<1>1. /\ Len(chan[p]) \in Nat \ {0} /\ Head(chan[p]) = chan[p][1] /\ Head(chan[p]) \in Message
      /\ Len(Tail(chan[p])) = Len(chan[p]) - 1
      /\ \A i \in 1..Len(Tail(chan[p])) : Tail(chan[p])[i] = chan[p][i + 1]
  BY HeadTailProperties, EmptySeq, LenProperties DEF TypeInv, TypeOK, SalesOK
<1> QED
  BY <1>1 DEF Honest

LEMMA HonestAppend ==
  ASSUME TypeInv, NEW p \in Pods, Honest(chan[p]), NEW m \in Message, m.count <= made[m.session]
  PROVE  Honest(Append(chan[p], m))
<1>1. /\ Len(chan[p]) \in Nat /\ Len(Append(chan[p], m)) = Len(chan[p]) + 1
      /\ \A i \in 1..Len(chan[p]) : Append(chan[p], m)[i] = chan[p][i]
      /\ Append(chan[p], m)[Len(chan[p]) + 1] = m
  BY AppendProperties, LenProperties DEF TypeInv, TypeOK, SalesOK
<1> QED
  BY <1>1 DEF Honest

LEMMA RunSold ==
  ASSUME TypeInv, SoldInv, NEW p \in Pods, MemMoves(p), RowMoves(p), KeyMoves(p),
         UNCHANGED <<made, offer>>, \A q \in Pods : chan'[q] \in {chan[q], <<>>}
  PROVE  SoldInv'
<1>1. ASSUME NEW s \in Sessions
      PROVE  /\ made[s] \in Nat /\ made'[s] = made[s] /\ NoKey <= made[s]
             /\ mem'[p].read[s] <= made[s]
             /\ row'[s] <= made[s] /\ sales'[s] <= made[s]
  <2>1. made[s] \in Nat /\ made'[s] = made[s] /\ NoKey <= made[s]
    <3>1. made[s] \in 0..MaxSold /\ made' = made
      BY DEF TypeInv, TypeOK
    <3> QED
      BY <3>1, ConstantsAssumption DEF NoKey, ConstantsAssumption
  <2>2. sales[s] <= made[s] /\ row[s] <= made[s] /\ mem[p].read[s] <= made[s]
    BY DEF SoldInv, NeverOvercounts
  <2>3. mem'[p].read[s] <= made[s]
    BY <2>1, <2>2 DEF MemMoves
  <2>4. row'[s] <= made[s]
    <3>1. row'[s] \in {row[s], mem[p].read[s]} \/ (row'[s] = mem[p].got /\ s = mem[p].at)
      BY DEF RowMoves
    <3>2. s = mem[p].at => mem[p].got <= made[s]
      BY DEF SoldInv
    <3> QED
      BY <2>2, <3>1, <3>2
  <2>5. sales'[s] <= made[s]
    BY <2>1, <2>2 DEF KeyMoves
  <2> QED
    BY <2>1, <2>3, <2>4, <2>5
<1>2. mem'[p].at \in Sessions => mem'[p].got <= made[mem'[p].at]
  BY <1>1 DEF SoldInv, NeverOvercounts, MemMoves, TypeInv, TypeOK
<1>3. ASSUME NEW q \in Pods
      PROVE  /\ Honest(chan[q])'
             /\ \A s \in Sessions : mem'[q].read[s] <= made'[s]
             /\ mem'[q].at \in Sessions => mem'[q].got <= made'[mem'[q].at]
  <2>1. Honest(chan[q])'
    <3>1. CASE chan'[q] = chan[q]
      BY <3>1 DEF Honest, SoldInv
    <3>2. CASE chan'[q] = <<>>
      BY <3>2, EmptySeq DEF Honest
    <3> QED
      BY <3>1, <3>2
  <2>2. CASE q = p
    BY <1>1, <1>2, <2>1, <2>2
  <2>3. CASE q # p
    BY <2>1, <2>3 DEF SoldInv, MemMoves
  <2> QED
    BY <2>2, <2>3
<1> QED
  BY <1>1, <1>3 DEF SoldInv, NeverOvercounts

LEMMA ChannelSold ==
  ASSUME TypeInv, SoldInv, NEW p \in Pods, HandleSalesUpdate(p) \/ StoreFails(p) \/ Disconnect(p),
         UNCHANGED <<made, offer, row, mem>>
  PROVE  SoldInv'
<1>1. chan[p] # <<>>
  BY DEF HandleSalesUpdate, StoreFails, Disconnect
<1>2. /\ Honest(Tail(chan[p])) /\ Head(chan[p]) \in Message
      /\ Head(chan[p]).count <= made[Head(chan[p]).session]
  BY <1>1, HonestTail DEF SoldInv
<1>3. \A s \in Sessions : sales'[s] <= made[s]
  BY <1>2 DEF HandleSalesUpdate, StoreFails, Disconnect, Overwrite, SoldInv, NeverOvercounts,
              TypeInv, TypeOK, SalesOK, Message
<1>4. ASSUME NEW q \in Pods PROVE Honest(chan[q])'
  <2>1. chan'[q] \in {chan[q], <<>>} \/ (q = p /\ chan'[q] = Tail(chan[q]))
    BY DEF HandleSalesUpdate, StoreFails, Disconnect, TypeInv, TypeOK, SalesOK
  <2>2. CASE chan'[q] = <<>>
    BY <2>2, EmptySeq DEF Honest
  <2>3. CASE chan'[q] = chan[q]
    BY <2>3 DEF Honest, SoldInv
  <2>4. CASE q = p /\ chan'[q] = Tail(chan[q])
    BY <1>2, <2>4 DEF Honest
  <2> QED
    BY <2>1, <2>2, <2>3, <2>4
<1> QED
  BY <1>3, <1>4 DEF SoldInv, NeverOvercounts

LEMMA StepSold == TypeInv /\ SoldInv /\ [Next]_vars => SoldInv'
<1> SUFFICES ASSUME TypeInv, SoldInv, [Next]_vars PROVE SoldInv'
  OBVIOUS
<1>1. ASSUME NEW p \in Pods, RunStep(p) PROVE SoldInv'
  BY <1>1, RunEffects, RunSold
<1>2. ASSUME NEW p \in Pods, Store(p) \/ SubscriberFails(p) PROVE SoldInv'
  BY <1>2, ChannelSold DEF Store, SubscriberFails, worker
<1>3. ASSUME NEW p \in Pods, Crash(p) PROVE SoldInv'
  <2>1. MemMoves(p)
    BY <1>3, Quits DEF Crash
  <2>2. RowMoves(p) /\ KeyMoves(p)
    BY <1>3, RowKept, KeysKept DEF Crash
  <2>3. \A q \in Pods : chan'[q] \in {chan[q], <<>>}
    BY <1>3 DEF Crash, TypeInv, TypeOK, SalesOK
  <2> QED
    BY <1>3, <2>1, <2>2, <2>3, RunSold DEF Crash
<1>4. ASSUME NEW q \in Sellers, NEW s \in Sessions, Sell(q, s) PROVE SoldInv'
  <2>1. /\ made' = [made EXCEPT ![s] = @ + 1] /\ sales' = [sales EXCEPT ![s] = Count(s) + 1]
        /\ offer' = [offer EXCEPT ![q] = {[session |-> s, count |-> Count(s) + 1]}]
        /\ UNCHANGED <<chan, row, mem>>
    BY <1>4 DEF Sell, Incr, worker
  <2>2. Count(s) <= made[s] /\ Count(s) \in Nat /\ \A x \in Sessions : made[x] \in Nat
    BY CountType DEF SoldInv, NeverOvercounts, Count, TypeInv, TypeOK
  <2>3. ASSUME NEW x \in Sessions
        PROVE  made'[x] \in Nat /\ made[x] <= made'[x]
               /\ sales'[x] <= made'[x] /\ row'[x] <= made'[x]
    BY <2>1, <2>2 DEF SoldInv, NeverOvercounts, TypeInv, TypeOK, SalesOK, NoKey
  <2>4. ASSUME NEW p \in Pods
        PROVE  /\ Honest(chan[p])'
               /\ \A x \in Sessions : mem'[p].read[x] <= made'[x]
               /\ mem'[p].at \in Sessions => mem'[p].got <= made'[mem'[p].at]
    <3>1. Honest(chan[p])'
      <4>1. \A i \in 1..Len(chan[p]) : chan[p][i] \in Message
        BY ElementOfSeq DEF TypeInv, TypeOK, SalesOK
      <4>2. ASSUME NEW i \in 1..Len(chan[p]) PROVE chan[p][i].count <= made'[chan[p][i].session]
        <5>1. chan[p][i].session \in Sessions /\ chan[p][i].count \in Nat
          BY <4>1 DEF Message
        <5>2. chan[p][i].count <= made[chan[p][i].session]
          BY DEF SoldInv, Honest
        <5> QED
          BY <2>2, <2>3, <5>1, <5>2
      <4> QED
        BY <2>1, <4>2 DEF Honest
    <3>2. mem[p].read \in [Sessions -> {NoKey} \cup Nat] /\ mem[p].got \in Nat
      BY DEF TypeInv, TypeOK, Mem
    <3>3. ASSUME NEW x \in Sessions PROVE mem'[p].read[x] <= made'[x]
      <4>1. mem[p].read[x] \in Int /\ mem[p].read[x] <= made[x]
        BY <3>2 DEF SoldInv, NoKey
      <4> QED
        BY <2>1, <2>2, <2>3, <4>1
    <3>4. mem'[p].at \in Sessions => mem'[p].got <= made'[mem'[p].at]
      BY <2>1, <2>2, <2>3, <3>2 DEF SoldInv
    <3> QED
      BY <3>1, <3>3, <3>4
  <2>5. ASSUME NEW r \in Sellers, NEW m \in offer'[r] PROVE m.count <= made'[m.session]
    <3>1. CASE r = q
      <4>1. m = [session |-> s, count |-> Count(s) + 1]
        BY <2>1, <2>5, <3>1 DEF TypeInv, TypeOK
      <4>2. made'[s] = made[s] + 1
        BY <2>1 DEF TypeInv, TypeOK
      <4> QED
        BY <2>2, <4>1, <4>2
    <3>2. CASE r # q
      <4>1. m \in offer[r] /\ m \in Message
        BY <2>1, <2>5, <3>2 DEF TypeInv, TypeOK
      <4>2. m.session \in Sessions /\ m.count \in Nat /\ m.count <= made[m.session]
        BY <4>1 DEF Message, SoldInv
      <4> QED
        BY <2>2, <2>3, <4>2
    <3> QED
      BY <3>1, <3>2
  <2> QED
    BY <2>3, <2>4, <2>5 DEF SoldInv, NeverOvercounts
<1>5. ASSUME NEW q \in Sellers, Publish(q) PROVE SoldInv'
  <2>1. PICK m \in offer[q] : PublishTo(Pods, m.session, m.count)
    BY <1>5 DEF Publish
  <2>2. m \in Message /\ m = [session |-> m.session, count |-> m.count] /\ m.count <= made[m.session]
    BY DEF TypeInv, TypeOK, Message, SoldInv
  <2>3. UNCHANGED <<sales, made, row, mem>> /\ \A r \in Sellers : offer'[r] \subseteq offer[r]
    BY <1>5 DEF Publish, worker, keys, TypeInv, TypeOK
  <2>4. ASSUME NEW p \in Pods PROVE Honest(chan[p])'
    <3>1. chan'[p] = Append(chan[p], m)
      BY <2>1, <2>2 DEF PublishTo
    <3>2. Honest(Append(chan[p], m))
      BY <2>2, HonestAppend DEF SoldInv
    <3> QED
      BY <2>3, <3>1, <3>2 DEF Honest
  <2> QED
    BY <2>3, <2>4 DEF SoldInv, NeverOvercounts
<1>6. ASSUME NEW s \in Sessions, End(s, "stopped") \/ End(s, "completed") \/ Remove(s) \/ Expire(s)
      PROVE  SoldInv'
  <2>1. UNCHANGED <<chan, made, offer, row, mem>>
    BY <1>6 DEF End, Remove, Expire, worker, keys
  <2>2. \A x \in Sessions : sales'[x] \in {sales[x], NoKey}
    BY <1>6 DEF End, Remove, Expire, keys, TypeInv, TypeOK, SalesOK
  <2>3. \A x \in Sessions : sales'[x] <= made[x]
    BY <2>2 DEF SoldInv, NeverOvercounts, NoKey, TypeInv, TypeOK
  <2> QED
    BY <2>1, <2>3 DEF SoldInv, NeverOvercounts, Honest
<1>7. CASE UNCHANGED vars
  BY <1>7 DEF vars, worker, keys, SoldInv, NeverOvercounts, Honest
<1> QED
  BY <1>1, <1>2, <1>3, <1>4, <1>5, <1>6, <1>7 DEF Next, Fail, RunStep

\* Whoever overwrites whose count and however late, neither a key nor a row ever shows more
\* sales than were made.
THEOREM NoneOvercounted == Spec => []NeverOvercounts
<1>1. Init => SoldInv
  <2> SUFFICES ASSUME Init PROVE SoldInv
    OBVIOUS
  <2>1. \A p \in Pods : Honest(chan[p])
    BY EmptySeq DEF Init, Honest
  <2>2. NeverOvercounts
    BY DEF Init, NeverOvercounts, NoKey
  <2>3. ASSUME NEW p \in Pods
        PROVE  /\ \A s \in Sessions : mem[p].read[s] <= made[s]
               /\ mem[p].at \in Sessions => mem[p].got <= made[mem[p].at]
    BY DEF Init, Fresh, NoKey
  <2> QED
    BY <2>1, <2>2, <2>3 DEF SoldInv, Init
<1>2. SoldInv => NeverOvercounts
  BY DEF SoldInv
<1> QED
  BY <1>1, <1>2, StepSold, AlwaysTyped, PTL DEF Spec
=============================================================================
