--------------------------- MODULE PdoScanProofs ---------------------------
(***************************************************************************)
(* Proofs about PdoScan: the array is never overrun, a scan that succeeds   *)
(* is complete, and a scan returns unless an assignment object announces as *)
(* many PDOs as its subindex can count; for every number of slaves, every   *)
(* limit and every counter width that exceeds the limit.                    *)
(***************************************************************************)
EXTENDS PdoScan, RankInduction

\* A counter below its largest value does not wrap.
LEMMA SuccFacts ==
  ASSUME NEW n \in Counts
  PROVE  Succ(n) \in Counts /\ (n < MaxCount => Succ(n) = n + 1)
  BY ScanAssumption DEF Succ, Counts

\* What storing one more entry does to what is stored for the slave.
LEMMA StoreFacts ==
  ASSUME NEW s \in Slaves, entries \in [Slaves -> Seq(Entry)], NEW e \in Entry,
         entries' = [entries EXCEPT ![s] = Append(@, e)]
  PROVE  /\ entries' \in [Slaves -> Seq(Entry)]
         /\ \A t \in Slaves \ {s} : entries'[t] = entries[t]
         /\ Len(entries'[s]) = Len(entries[s]) + 1
         /\ Stored(s)' = Stored(s) \cup {e}
         /\ NoneTwice(s) /\ e \notin Stored(s) => NoneTwice(s)'
<1> DEFINE n == Len(entries[s])
<1>1. /\ entries[s] \in Seq(Entry) /\ n \in Nat /\ DOMAIN entries[s] = 1 .. n
      /\ entries'[s] = Append(entries[s], e)
  OBVIOUS
<1>2. /\ Len(entries'[s]) = n + 1 /\ DOMAIN entries'[s] = 1 .. n + 1
      /\ entries'[s][n + 1] = e
      /\ \A k \in 1 .. n : entries'[s][k] = entries[s][k]
  BY <1>1
<1>3. Stored(s)' = Stored(s) \cup {e}
  <2>1. ASSUME NEW x \in Stored(s)' PROVE x \in Stored(s) \cup {e}
    <3>1. PICK k \in 1 .. n + 1 : x = entries'[s][k]
      BY <1>2, <2>1 DEF Stored
    <3>2. k \in 1 .. n \/ k = n + 1
      BY <1>1
    <3> QED BY <1>1, <1>2, <3>1, <3>2 DEF Stored
  <2>2. ASSUME NEW x \in Stored(s) \cup {e} PROVE x \in Stored(s)'
    <3>1. CASE x = e
      BY <1>1, <1>2, <3>1 DEF Stored
    <3>2. CASE x \in Stored(s)
      <4>1. PICK k \in 1 .. n : x = entries[s][k]
        BY <1>1, <3>2 DEF Stored
      <4>2. k \in 1 .. n + 1 /\ x = entries'[s][k]
        BY <1>1, <1>2, <4>1
      <4> QED BY <1>2, <4>2 DEF Stored
    <3> QED BY <2>2, <3>1, <3>2
  <2> QED BY <2>1, <2>2
<1>4. NoneTwice(s) /\ e \notin Stored(s) => NoneTwice(s)'
  BY <1>1, <1>2 DEF Stored, NoneTwice
<1> QED BY <1>1, <1>2, <1>3, <1>4

\* Slaves whose entries do not change stay whole.
LEMMA SameStored ==
  ASSUME NEW s \in Slaves, entries'[s] = entries[s]
  PROVE  Stored(s)' = Stored(s) /\ NoneTwice(s)' = NoneTwice(s)
  BY DEF Stored, NoneTwice

\* The scan starts with nothing announced and nothing stored.
LEMMA InitInv == Init => IInv
<1> SUFFICES ASSUME Init PROVE IInv
  OBVIOUS
<1>1. TypeOK
  BY ScanAssumption DEF Init, TypeOK, Slaves, Directions, Counts, Errors
<1> QED BY <1>1, ScanAssumption DEF Init, IInv, ArrayBound, ScanInv, Slaves

\* Returning an error: nothing is claimed of the slave under way.
LEMMA ReturnInv ==
  ASSUME IInv, NEW error \in Errors \ {"NONE"}, Return(error),
         UNCHANGED <<hasCoe, slave, loops, announced>>,
         entries' = entries \/ (pc = "slave" /\ slave \in Slaves
                                /\ entries' = [entries EXCEPT ![slave] = <<>>])
  PROVE  IInv'
<1>1. \A s \in Slaves : entries'[s] = entries[s]
  BY DEF IInv, TypeOK, ScanInv
<1>2. entries' = entries
  BY <1>1 DEF IInv, TypeOK
<1>3. TypeOK'
  BY <1>2 DEF IInv, TypeOK, Return, loops, Errors
<1>4. ScanInv'
  BY <1>2 DEF IInv, ScanInv, Return, loops, Whole, Stored, NoneTwice
<1> QED BY <1>2, <1>3, <1>4 DEF IInv, ArrayBound

\* The steps between slaves.
LEMMA SlaveStepInv ==
  ASSUME IInv, AllRead \/ SkipSlave \/ BeginSlave
  PROVE  IInv'
<1>1. CASE AllRead
  <2>1. TypeOK'
    BY <1>1 DEF AllRead, Return, loops, IInv, TypeOK, Errors
  <2>2. ScanInv'
    BY <1>1 DEF AllRead, Return, loops, IInv, ScanInv, Whole, Stored, NoneTwice
  <2> QED BY <1>1, <2>1, <2>2 DEF AllRead, IInv, ArrayBound
<1>2. CASE SkipSlave
  <2>1. slave \in Slaves /\ entries[slave] = <<>> /\ announced[slave] = {}
    BY <1>2 DEF SkipSlave, IInv, ScanInv
  <2>2. entries' = entries
    BY <1>2, <2>1 DEF SkipSlave, IInv, TypeOK
  <2>3. Whole(slave)
    BY <2>1 DEF Whole, Stored, NoneTwice
  <2>4. TypeOK'
    BY <1>2, <2>2, ScanAssumption DEF SkipSlave, loops, IInv, TypeOK, Slaves
  <2>5. ScanInv'
    BY <1>2, <2>2, <2>3, ScanAssumption
    DEF SkipSlave, loops, IInv, TypeOK, ScanInv, Whole, Stored, NoneTwice, Slaves
  <2> QED BY <2>2, <2>4, <2>5 DEF IInv, ArrayBound
<1>3. CASE BeginSlave
  <2>1. /\ slave \in Slaves /\ pc = "slave"
        /\ entries[slave] = <<>> /\ announced[slave] = {}
    BY <1>3 DEF BeginSlave, IInv, TypeOK, ScanInv
  <2>2. CASE Return("READ_NODE_STATE_FAILED") /\ UNCHANGED loops
    BY <1>3, <2>1, <2>2, ReturnInv DEF BeginSlave, Errors
  <2>3. CASE /\ direction' = "OUTPUT" /\ pc' = "assignment"
             /\ UNCHANGED <<pdoCount, pdo, entryCount, entry, result>>
    <3>1. entries' = entries
      BY <1>3, <2>1 DEF BeginSlave, IInv, TypeOK
    <3>2. Whole(slave)
      BY <2>1 DEF Whole, Stored, NoneTwice
    <3>3. TypeOK'
      BY <1>3, <2>1, <2>3, <3>1 DEF BeginSlave, IInv, TypeOK, Directions
    <3>4. ScanInv'
      BY <1>3, <2>1, <2>3, <3>1, <3>2
      DEF BeginSlave, IInv, TypeOK, ScanInv, Whole, Stored, NoneTwice
    <3> QED BY <3>1, <3>3, <3>4 DEF IInv, ArrayBound
  <2> QED BY <1>3, <2>2, <2>3 DEF BeginSlave
<1> QED BY <1>1, <1>2, <1>3

\* The steps of an assignment object.
LEMMA AssignmentStepInv ==
  ASSUME IInv, ReadPdoCount \/ PdosDone \/ SkipPdo \/ ReadEntryCount
  PROVE  IInv'
<1>0. ASSUME ReadFails PROVE IInv'
  BY <1>0, ReturnInv DEF ReadFails, Errors
<1>1. CASE ReadPdoCount
  <2>1. CASE /\ pdoCount' \in Counts /\ pdo' = 1 /\ pc' = "pdo"
             /\ UNCHANGED <<hasCoe, slave, direction, entryCount, entry, entries, result,
                            announced>>
    <3>1. TypeOK'
      BY <1>1, <2>1, ScanAssumption DEF ReadPdoCount, IInv, TypeOK, Counts
    <3>2. ScanInv'
      BY <1>1, <2>1
      DEF ReadPdoCount, IInv, TypeOK, ScanInv, Whole, Stored, NoneTwice, BeforeThisPdo
    <3> QED BY <2>1, <3>1, <3>2 DEF IInv, ArrayBound
  <2> QED BY <1>0, <1>1, <2>1 DEF ReadPdoCount
<1>2. CASE PdosDone
  <2>1. pdoCount < MaxCount
    BY <1>2, ScanAssumption DEF PdosDone, IInv, TypeOK, Counts
  <2>2. Whole(slave) /\ slave \in Slaves
    BY <1>2, <2>1 DEF PdosDone, IInv, TypeOK, ScanInv
  <2>3. TypeOK'
    BY <1>2, <2>2, ScanAssumption DEF PdosDone, IInv, TypeOK, Directions, Slaves
  <2>4. ScanInv'
    <3>1. CASE direction = "OUTPUT"
      BY <1>2, <2>1, <2>2, <3>1
      DEF PdosDone, IInv, TypeOK, ScanInv, Whole, Stored, NoneTwice, BeforeThisPdo
    <3>2. CASE direction # "OUTPUT"
      <4>1. /\ slave' = slave + 1 /\ pc' = "slave" /\ result' = "none"
            /\ UNCHANGED <<entries, announced>>
        BY <1>2, <3>2 DEF PdosDone, IInv, TypeOK
      <4>2. \A s \in Slaves : s < slave' => Whole(s)'
        <5>1. \A s \in Slaves : s < slave' => s < slave \/ s = slave
          BY <2>2, <4>1, ScanAssumption DEF Slaves
        <5> QED BY <2>2, <4>1, <5>1 DEF IInv, ScanInv, Whole, Stored, NoneTwice
      <4>3. \A s \in Slaves : s >= slave' => announced'[s] = {} /\ entries'[s] = <<>>
        BY <2>2, <4>1, ScanAssumption DEF IInv, ScanInv, Slaves
      <4>4. \A s \in Slaves : s > slave' \/ s = slave' => s >= slave'
        BY <2>2, <4>1, ScanAssumption DEF Slaves
      <4> QED BY <4>1, <4>2, <4>3, <4>4 DEF ScanInv
    <3> QED BY <3>1, <3>2
  <2> QED BY <1>2, <2>3, <2>4 DEF PdosDone, IInv, ArrayBound
<1>3. CASE SkipPdo
  <2>1. /\ pdo' \in Counts
        /\ pdoCount < MaxCount => pdo' = pdo + 1
    BY <1>3, SuccFacts, ScanAssumption DEF SkipPdo, IInv, TypeOK, Counts
  <2>2. TypeOK'
    BY <1>3, <2>1 DEF SkipPdo, IInv, TypeOK
  <2>3. ASSUME pdoCount < MaxCount, NEW a \in announced[slave]
        PROVE  BeforeThisPdo(a)'
    <3>1. a \in Entry /\ pdo \in Nat /\ BeforeThisPdo(a)
      BY <1>3, <2>3, ScanAssumption DEF SkipPdo, IInv, TypeOK, ScanInv, Counts
    <3> QED BY <1>3, <2>1, <2>3, <3>1, ScanAssumption
        DEF SkipPdo, BeforeThisPdo, Entry, Counts
  <2>4. ScanInv'
    BY <1>3, <2>3 DEF SkipPdo, IInv, ScanInv, Whole, Stored, NoneTwice
  <2> QED BY <1>3, <2>2, <2>4 DEF SkipPdo, IInv, ArrayBound
<1>4. CASE ReadEntryCount
  <2>1. CASE /\ entryCount' \in Counts /\ entry' = 1 /\ pc' = "entry"
             /\ announced' = [announced EXCEPT ![slave] = @ \cup
                   [direction : {direction}, pdo : {pdo}, entry : 1 .. entryCount']]
             /\ UNCHANGED <<hasCoe, slave, direction, pdoCount, pdo, entries, result>>
    <3>1. slave \in Slaves /\ pc = "pdo" /\ pdo <= pdoCount
      BY <1>4 DEF ReadEntryCount, IInv, TypeOK
    <3>2. /\ announced'[slave] = announced[slave] \cup ThisPdo'
          /\ \A s \in Slaves \ {slave} : announced'[s] = announced[s]
      BY <2>1, <3>1 DEF IInv, TypeOK, ThisPdo
    <3>3. ThisPdo' \subseteq Entry
      BY <2>1, ScanAssumption DEF ThisPdo, Entry, IInv, TypeOK, Counts
    <3>4. TypeOK'
      BY <1>4, <2>1, <3>1, <3>2, <3>3, ScanAssumption DEF IInv, TypeOK, Counts
    <3>5. ASSUME pdoCount < MaxCount
          PROVE  /\ NoneTwice(slave)' /\ ThisPdo' \subseteq announced'[slave]
                 /\ \A a \in announced'[slave] : BeforeThisPdo(a)' \/ a \in ThisPdo'
                 /\ Stored(slave)'
                      = {a \in announced'[slave] : a \in ThisPdo' => a.entry < entry'}
      <4>1. /\ Whole(slave) /\ \A a \in announced[slave] : BeforeThisPdo(a)
        BY <3>1, <3>5 DEF IInv, ScanInv
      <4>2. \A a \in announced[slave] : BeforeThisPdo(a)' /\ a \in Entry
        BY <2>1, <3>1, <4>1 DEF BeforeThisPdo, IInv, TypeOK
      <4>3. \A a \in ThisPdo' : a.entry >= 1 /\ a.pdo = pdo /\ a.direction = direction
        BY <2>1 DEF ThisPdo
      <4>4. pdo \in Nat
        BY ScanAssumption DEF IInv, TypeOK, Counts
      <4>5. \A a \in announced[slave] : a \notin ThisPdo'
        BY <4>1, <4>2, <4>3, <4>4 DEF BeforeThisPdo, Entry, Directions
      <4>6. \A a \in ThisPdo' : ~(a.entry < entry')
        BY <2>1, <4>3, <3>3, ScanAssumption DEF Entry, Counts
      <4>7. Stored(slave)' = announced[slave]
        BY <2>1, <4>1 DEF Whole, Stored
      <4>8. announced[slave]
              = {a \in announced'[slave] : a \in ThisPdo' => a.entry < entry'}
        BY <3>2, <4>5, <4>6
      <4>9. NoneTwice(slave)'
        BY <2>1, <4>1 DEF Whole, NoneTwice
      <4> QED BY <3>2, <4>2, <4>7, <4>8, <4>9
    <3>6. 1 <= entry' /\ entry' <= Len(entries'[slave]) + 1
      BY <2>1, <3>1 DEF IInv, TypeOK
    <3>7. ScanInv'
      <4>1. slave' = slave /\ pc' = "entry" /\ result' = "none" /\ pdo' = pdo
            /\ pdoCount' = pdoCount /\ entries' = entries
        BY <2>1, <3>1 DEF IInv, TypeOK
      <4>2. \A s \in Slaves : s < slave => Whole(s)'
        BY <3>1, <3>2, <4>1, ScanAssumption DEF IInv, ScanInv, Whole, Stored, NoneTwice, Slaves
      <4>3. \A s \in Slaves : s > slave => announced'[s] = {} /\ entries'[s] = <<>>
        BY <3>1, <3>2, <4>1, ScanAssumption DEF IInv, ScanInv, Slaves
      <4> QED BY <3>1, <3>5, <3>6, <4>1, <4>2, <4>3 DEF ScanInv
    <3> QED BY <2>1, <3>4, <3>7 DEF IInv, ArrayBound
  <2> QED BY <1>0, <1>4, <2>1 DEF ReadEntryCount
<1> QED BY <1>1, <1>2, <1>3, <1>4

\* The steps of a PDO.
LEMMA PdoStepInv ==
  ASSUME IInv, EntriesDone \/ LimitExceeded \/ ReadEntry
  PROVE  IInv'
<1> slave \in Slaves /\ pc = "entry" /\ pdo \in Nat /\ entry \in Nat /\ entryCount \in Nat
  BY ScanAssumption DEF EntriesDone, LimitExceeded, ReadEntry, IInv, TypeOK, Counts
<1>1. CASE EntriesDone
  <2>1. /\ pdo' \in Counts
        /\ pdoCount < MaxCount => pdo' = pdo + 1
    BY <1>1, SuccFacts, ScanAssumption DEF EntriesDone, IInv, TypeOK, ScanInv, Counts
  <2>2. TypeOK'
    BY <1>1, <2>1 DEF EntriesDone, IInv, TypeOK
  <2>3. ASSUME pdoCount < MaxCount
        PROVE  Whole(slave) /\ \A a \in announced[slave] : BeforeThisPdo(a)'
    <3>1. \A a \in ThisPdo : a.entry < entry /\ a.pdo = pdo /\ a.direction = direction
      BY <1>1 DEF EntriesDone, ThisPdo
    <3>2. /\ NoneTwice(slave)
          /\ \A a \in announced[slave] : BeforeThisPdo(a) \/ a \in ThisPdo
          /\ Stored(slave) = {a \in announced[slave] : a \in ThisPdo => a.entry < entry}
      BY <2>3 DEF IInv, ScanInv
    <3>3. Whole(slave)
      BY <3>1, <3>2 DEF Whole
    <3>4. \A a \in announced[slave] : a.pdo \in Nat
      BY ScanAssumption DEF IInv, TypeOK, Entry, Counts
    <3>5. \A a \in announced[slave] : BeforeThisPdo(a)'
      BY <1>1, <2>1, <2>3, <3>1, <3>2, <3>4 DEF EntriesDone, BeforeThisPdo
    <3> QED BY <3>3, <3>5
  <2>4. ScanInv'
    BY <1>1, <2>3 DEF EntriesDone, IInv, TypeOK, ScanInv, Whole, Stored, NoneTwice
  <2> QED BY <1>1, <2>2, <2>4 DEF EntriesDone, IInv, ArrayBound
<1>2. CASE LimitExceeded
  BY <1>2, ReturnInv DEF LimitExceeded, Errors
<1>3. CASE ReadEntry
  <2> DEFINE e == [direction |-> direction, pdo |-> pdo, entry |-> entry]
  <2>1. CASE ReadFails
    BY <2>1, ReturnInv DEF ReadFails, Errors
  <2>2. CASE /\ entries' = [entries EXCEPT ![slave] = Append(@, e)]
             /\ entry' = Succ(entry)
             /\ UNCHANGED <<hasCoe, pc, slave, direction, pdoCount, pdo, entryCount,
                            result, announced>>
    <3>1. e \in Entry
      BY DEF IInv, TypeOK, Entry
    <3>2. /\ entries' \in [Slaves -> Seq(Entry)]
          /\ \A t \in Slaves \ {slave} : entries'[t] = entries[t]
          /\ Len(entries'[slave]) = Len(entries[slave]) + 1
          /\ Stored(slave)' = Stored(slave) \cup {e}
          /\ NoneTwice(slave) /\ e \notin Stored(slave) => NoneTwice(slave)'
      BY <2>2, <3>1, StoreFacts DEF IInv, TypeOK
    <3>3. Len(entries[slave]) \in Nat /\ Len(entries[slave]) < Limit
      BY <1>3, ScanAssumption DEF ReadEntry, Full, IInv, TypeOK
    <3>4. entry <= Len(entries[slave]) + 1 /\ 1 <= entry /\ entry <= entryCount
      BY <1>3 DEF ReadEntry, IInv, ScanInv
    <3>5. entry' = entry + 1 /\ entry' \in Counts
      BY <2>2, <3>3, <3>4, SuccFacts, ScanAssumption DEF IInv, TypeOK, Counts
    <3>6. TypeOK'
      BY <2>2, <3>2, <3>5 DEF IInv, TypeOK
    <3>7. ArrayBound'
      BY <2>2, <3>2, <3>3, ScanAssumption DEF IInv, ArrayBound
    <3>8. ASSUME pdoCount < MaxCount
          PROVE  /\ NoneTwice(slave)'
                 /\ Stored(slave)'
                      = {a \in announced[slave] : a \in ThisPdo => a.entry < entry'}
      <4>1. /\ NoneTwice(slave) /\ ThisPdo \subseteq announced[slave]
            /\ Stored(slave) = {a \in announced[slave] : a \in ThisPdo => a.entry < entry}
        BY <3>8 DEF IInv, ScanInv
      <4>2. e \in ThisPdo /\ e.entry = entry
        BY <3>4 DEF ThisPdo
      <4>3. e \notin Stored(slave)
        BY <4>1, <4>2
      <4>4. ASSUME NEW a \in ThisPdo, a.entry < entry'
            PROVE  a.entry < entry \/ a = e
        <5>1. /\ a = [direction |-> direction, pdo |-> pdo, entry |-> a.entry]
              /\ a.entry \in Nat
          BY <4>4 DEF ThisPdo
        <5> QED BY <3>5, <4>4, <5>1
      <4>5. \A a \in ThisPdo : a.entry \in Nat
        BY DEF ThisPdo
      <4>6. Stored(slave)'
              = {a \in announced[slave] : a \in ThisPdo => a.entry < entry'}
        BY <3>2, <3>5, <4>1, <4>2, <4>4, <4>5
      <4> QED BY <3>2, <4>1, <4>3, <4>6
    <3>9. ScanInv'
      <4>1. ThisPdo' = ThisPdo /\ \A a : BeforeThisPdo(a)' = BeforeThisPdo(a)
        BY <2>2 DEF ThisPdo, BeforeThisPdo
      <4>2. \A s \in Slaves : s < slave => Whole(s)'
        BY <2>2, <3>2, SameStored, ScanAssumption DEF IInv, ScanInv, Whole, Slaves
      <4>3. \A s \in Slaves : s > slave => announced'[s] = {} /\ entries'[s] = <<>>
        <5>1. \A s \in Slaves : s > slave => s \in Slaves \ {slave}
          BY ScanAssumption DEF Slaves
        <5> QED BY <2>2, <3>2, <5>1 DEF IInv, ScanInv
      <4>4. 1 <= entry' /\ entry' <= Len(entries'[slave]) + 1
        BY <3>2, <3>3, <3>4, <3>5
      <4>5. result' = "none"
        BY <2>2 DEF IInv, TypeOK
      <4>6. pdoCount < MaxCount =>
              /\ NoneTwice(slave)' /\ pdo <= pdoCount /\ ThisPdo \subseteq announced[slave]
              /\ \A a \in announced[slave] : BeforeThisPdo(a) \/ a \in ThisPdo
              /\ Stored(slave)'
                   = {a \in announced[slave] : a \in ThisPdo => a.entry < entry'}
        BY <3>8 DEF IInv, ScanInv
      <4> QED BY <2>2, <4>1, <4>2, <4>3, <4>4, <4>5, <4>6 DEF ScanInv
    <3> QED BY <3>6, <3>7, <3>9 DEF IInv
  <2> QED BY <1>3, <2>1, <2>2 DEF ReadEntry
<1> QED BY <1>1, <1>2, <1>3

\* Every place of the scan finds what ScanInv says of it.
THEOREM ScanInductive == Spec => []IInv
<1>1. IInv /\ [Next]_vars => IInv'
  <2> SUFFICES ASSUME IInv, [Next]_vars PROVE IInv'
    OBVIOUS
  <2>1. CASE UNCHANGED vars
    BY <2>1 DEF vars, loops, IInv, TypeOK, ArrayBound, ScanInv, Whole, Stored, NoneTwice,
       ThisPdo, BeforeThisPdo
  <2> QED BY <2>1, SlaveStepInv, AssignmentStepInv, PdoStepInv DEF Next, Returned
<1> QED BY InitInv, <1>1, PTL DEF Spec

\* The types of the scan's variables: subindices stay 8 bits wide.
THEOREM ScanTypeCorrect == Spec => []TypeOK
<1>1. IInv => TypeOK
  BY DEF IInv
<1> QED BY <1>1, ScanInductive, PTL

\* slave->pdo_entries is never written past its end (_read_pdo_assignment).
THEOREM ArrayNeverOverrun == Spec => []ArrayBound
<1>1. IInv => ArrayBound
  BY DEF IInv
<1> QED BY <1>1, ScanInductive, PTL

\* A scan that succeeds has every announced entry once
\* (soem_backend_read_pdo_entries).
THEOREM SuccessIsComplete == Spec => []ScanIsComplete
<1>1. IInv => ScanIsComplete
  BY ScanAssumption DEF IInv, ScanInv, ScanIsComplete, Whole, TypeOK, Slaves
<1> QED BY <1>1, ScanInductive, PTL

-----------------------------------------------------------------------------
(* The scan returns.  What is left of it is counted in a number with four    *)
(* digits: slaves, assignment objects of the slave, PDOs of the object,      *)
(* entries of the PDO.                                                       *)

\* No assignment object under way has MaxCount PDOs.
Ends == pdoCount # MaxCount

\* What the counting rests on: a subindex is never more than one past its count.
LoopInv ==
  /\ ~Ends => pc \in {"pdo", "entry", "done"}
  /\ Ends /\ pc = "pdo" => pdo <= pdoCount + 1
  /\ Ends /\ pc = "entry" => pdo <= pdoCount
  /\ pc = "entry" => entry <= entryCount + 1

LEMMA LoopStep ==
  ASSUME IInv, LoopInv, [Next]_vars
  PROVE  LoopInv' /\ (~Ends => ~Ends')
<1> USE DEF Ends
<1>1. CASE AllRead \/ SkipSlave \/ BeginSlave
  BY <1>1 DEF AllRead, SkipSlave, BeginSlave, Return, loops, LoopInv
<1>2. CASE ReadPdoCount \/ ReadEntryCount \/ LimitExceeded
  BY <1>2, ScanAssumption
  DEF ReadPdoCount, ReadEntryCount, LimitExceeded, ReadFails, Return, loops, LoopInv, Counts
<1>3. CASE PdosDone
  BY <1>3, ScanAssumption DEF PdosDone, LoopInv, IInv, TypeOK, Counts
<1>4. CASE SkipPdo \/ EntriesDone
  <2>1. pdo \in Counts /\ pdoCount \in Counts
    BY DEF IInv, TypeOK
  <2>2. Ends => pdo' = pdo + 1
    BY <1>4, <2>1, SuccFacts, ScanAssumption DEF SkipPdo, EntriesDone, LoopInv, Counts
  <2> QED BY <1>4, <2>1, <2>2, ScanAssumption DEF SkipPdo, EntriesDone, LoopInv, Counts
<1>5. CASE ReadEntry
  <2>1. CASE ReadFails
    BY <1>5, <2>1 DEF ReadEntry, ReadFails, Return, loops, LoopInv
  <2>2. CASE ~ReadFails
    <3>1. entry \in Counts /\ entryCount \in Counts /\ slave \in Slaves
          /\ entry <= entryCount
          /\ Len(entries[slave]) \in Nat /\ entry <= Len(entries[slave]) + 1
      BY <1>5 DEF ReadEntry, IInv, TypeOK, ScanInv
    <3>2. entry < MaxCount
      BY <1>5, <3>1, ScanAssumption DEF ReadEntry, Full, Counts
    <3>3. entry' = entry + 1
      BY <1>5, <2>2, <3>1, <3>2, SuccFacts DEF ReadEntry
    <3> QED BY <1>5, <2>2, <3>1, <3>3, ScanAssumption DEF ReadEntry, LoopInv, Counts
  <2> QED BY <2>1, <2>2
<1>6. CASE Returned \/ UNCHANGED vars
  BY <1>6 DEF Returned, vars, loops, LoopInv
<1> QED BY <1>1, <1>2, <1>3, <1>4, <1>5, <1>6 DEF Next

LEMMA LoopInductive == Spec => [](IInv /\ LoopInv)
<1>1. Init => LoopInv
  BY ScanAssumption DEF Init, LoopInv, Ends
<1> QED BY <1>1, LoopStep, ScanInductive, PTL DEF Spec

\* The digits, and the number they make in this base.
Base == MaxCount + 2

SlavesLeft == SlaveCount + 1 - slave
ObjectsLeft == CASE pc = "slave" -> 2
                 [] pc # "slave" /\ direction = "OUTPUT" -> 1
                 [] OTHER -> 0
PdosLeft == CASE pc = "assignment" -> MaxCount + 1
              [] pc \in {"pdo", "entry"} -> pdoCount + 1 - pdo
              [] OTHER -> 0
EntriesLeft == CASE pc = "pdo" -> MaxCount + 1
                 [] pc = "entry" -> entryCount + 1 - entry
                 [] OTHER -> 0

Number(s, o, p, e) == Then(Base, Then(Base, Then(Base, s, o), p), e)

Left == Number(SlavesLeft, ObjectsLeft, PdosLeft, EntriesLeft)

LEMMA DigitFacts ==
  ASSUME IInv, LoopInv, Ends
  PROVE  /\ SlavesLeft \in Nat
         /\ ObjectsLeft \in 0 .. Base - 1
         /\ PdosLeft \in 0 .. Base - 1
         /\ EntriesLeft \in 0 .. Base - 1
<1> pdoCount \in 0 .. MaxCount /\ entryCount \in 0 .. MaxCount
    /\ pdo \in 0 .. MaxCount /\ entry \in 0 .. MaxCount /\ slave \in 1 .. SlaveCount + 1
    /\ (pc = "entry" => 1 <= entry)
  BY DEF IInv, TypeOK, ScanInv, Counts
<1>1. SlavesLeft \in Nat
  BY ScanAssumption DEF SlavesLeft
<1>2. ObjectsLeft \in 0 .. Base - 1
  BY ScanAssumption DEF ObjectsLeft, Base
<1>3. PdosLeft \in 0 .. Base - 1
  BY ScanAssumption DEF PdosLeft, Base, LoopInv, Ends
<1>4. EntriesLeft \in 0 .. Base - 1
  BY ScanAssumption DEF EntriesLeft, Base, LoopInv
<1> QED BY <1>1, <1>2, <1>3, <1>4

LEMMA DigitFactsPrime ==
  ASSUME IInv', LoopInv', Ends'
  PROVE  /\ SlavesLeft' \in Nat
         /\ ObjectsLeft' \in 0 .. Base - 1
         /\ PdosLeft' \in 0 .. Base - 1
         /\ EntriesLeft' \in 0 .. Base - 1
<1> pdoCount' \in 0 .. MaxCount /\ entryCount' \in 0 .. MaxCount
    /\ pdo' \in 0 .. MaxCount /\ entry' \in 0 .. MaxCount /\ slave' \in 1 .. SlaveCount + 1
    /\ (pc' = "entry" => 1 <= entry')
  BY DEF IInv, TypeOK, ScanInv, Counts
<1>1. SlavesLeft' \in Nat
  <2>1. \A s \in 1 .. SlaveCount + 1 : SlaveCount + 1 - s \in Nat
    BY ScanAssumption
  <2> QED BY <2>1 DEF SlavesLeft
<1>2. ObjectsLeft' \in 0 .. Base - 1
  BY ScanAssumption DEF ObjectsLeft, Base
<1>3. PdosLeft' \in 0 .. Base - 1
  BY ScanAssumption DEF PdosLeft, Base, LoopInv, Ends
<1>4. EntriesLeft' \in 0 .. Base - 1
  BY ScanAssumption DEF EntriesLeft, Base, LoopInv
<1> QED BY <1>1, <1>2, <1>3, <1>4

LEMMA LeftIsNat ==
  ASSUME IInv, LoopInv, Ends
  PROVE  Left \in Nat
<1>1. /\ SlavesLeft \in Nat /\ ObjectsLeft \in Nat /\ PdosLeft \in Nat /\ EntriesLeft \in Nat
  BY DigitFacts, ScanAssumption DEF Base
<1>2. Base \in Nat
  BY ScanAssumption DEF Base
<1> QED BY <1>1, <1>2, ThenFacts DEF Left, Number

LEMMA LeftIsNatPrime ==
  ASSUME IInv', LoopInv', Ends'
  PROVE  Left' \in Nat
<1>1. /\ SlavesLeft' \in Nat /\ ObjectsLeft' \in Nat /\ PdosLeft' \in Nat
      /\ EntriesLeft' \in Nat
  BY DigitFactsPrime, ScanAssumption DEF Base
<1>2. Left' = Number(SlavesLeft', ObjectsLeft', PdosLeft', EntriesLeft')
  BY DEF Left, Number, Then, Base
<1>3. Base \in Nat
  BY ScanAssumption DEF Base
<1> QED BY <1>1, <1>2, <1>3, ThenFacts DEF Number

\* The first digit that changes gets smaller.
LEMMA Smaller ==
  ASSUME NEW a \in Nat, NEW b \in 0 .. Base - 1, NEW c \in 0 .. Base - 1, NEW d \in 0 .. Base - 1,
         NEW e \in Nat, NEW f \in 0 .. Base - 1, NEW g \in 0 .. Base - 1, NEW h \in 0 .. Base - 1,
         \/ e < a
         \/ e = a /\ f < b
         \/ e = a /\ f = b /\ g < c
         \/ e = a /\ f = b /\ g = c /\ h < d
  PROVE  Number(e, f, g, h) < Number(a, b, c, d)
<1>1. Base \in Nat /\ \A n \in 0 .. Base - 1 : n \in Nat
  BY ScanAssumption DEF Base
<1> DEFINE x == Then(Base, a, b)
           y == Then(Base, e, f)
           v == Then(Base, x, c)
           w == Then(Base, y, g)
<1>2. x \in Nat /\ y \in Nat /\ v \in Nat /\ w \in Nat
  BY <1>1, ThenFacts
<1>3. e < a \/ (e = a /\ f < b) => y < x
  BY <1>1, ThenFacts
<1> HIDE DEF x, y
<1>4. y < x \/ (y = x /\ g < c) => w < v
  BY <1>1, <1>2, ThenFacts
<1> HIDE DEF v, w
<1>5. w < v \/ (w = v /\ h < d) => Then(Base, w, h) < Then(Base, v, d)
  BY <1>1, <1>2, ThenFacts
<1>6. (e = a /\ f = b => y = x) /\ (y = x /\ g = c => w = v)
  BY DEF x, y, v, w
<1>7. Number(e, f, g, h) = Then(Base, w, h) /\ Number(a, b, c, d) = Then(Base, v, d)
  BY DEF Number, x, y, v, w
<1> QED BY <1>3, <1>4, <1>5, <1>6, <1>7

LEMMA FewerLeft ==
  ASSUME IInv, LoopInv, Ends, IInv', LoopInv', Ends',
         \/ SlavesLeft' < SlavesLeft
         \/ SlavesLeft' = SlavesLeft /\ ObjectsLeft' < ObjectsLeft
         \/ SlavesLeft' = SlavesLeft /\ ObjectsLeft' = ObjectsLeft /\ PdosLeft' < PdosLeft
         \/ /\ SlavesLeft' = SlavesLeft /\ ObjectsLeft' = ObjectsLeft
            /\ PdosLeft' = PdosLeft /\ EntriesLeft' < EntriesLeft
  PROVE  Left' < Left
<1>1. Left' = Number(SlavesLeft', ObjectsLeft', PdosLeft', EntriesLeft')
  BY DEF Left, Number, Then, Base
<1> QED BY <1>1, DigitFacts, DigitFactsPrime, Smaller DEF Left

\* Every step of the scan leaves less to do, or returns, or has met an
\* assignment object with MaxCount PDOs.
LEMMA ScanProceeds ==
  ASSUME IInv, LoopInv, Ends, pc # "done", Next
  PROVE  pc' = "done" \/ ~Ends' \/ Left' < Left
<1> SUFFICES ASSUME pc' # "done", Ends' PROVE Left' < Left
  OBVIOUS
<1>1. IInv' /\ LoopInv'
  BY LoopStep, SlaveStepInv, AssignmentStepInv, PdoStepInv DEF Next, Returned
<1>2. /\ pdoCount \in 0 .. MaxCount /\ entryCount \in 0 .. MaxCount
      /\ pdo \in 0 .. MaxCount /\ entry \in 0 .. MaxCount /\ slave \in 1 .. SlaveCount + 1
      /\ direction \in {"OUTPUT", "INPUT"} /\ direction' \in {"OUTPUT", "INPUT"}
      /\ pdoCount' \in 0 .. MaxCount /\ entryCount' \in 0 .. MaxCount
  BY <1>1 DEF IInv, TypeOK, Counts, Directions
<1> USE ScanAssumption DEF Return, ReadFails, loops
<1>3. CASE SkipSlave
  BY <1>1, <1>2, <1>3, FewerLeft DEF SkipSlave, SlavesLeft, Slaves
<1>4. CASE BeginSlave
  BY <1>1, <1>2, <1>4, FewerLeft DEF BeginSlave, SlavesLeft, ObjectsLeft
<1>5. CASE ReadPdoCount
  <2>1. SlavesLeft' = SlavesLeft /\ ObjectsLeft' = ObjectsLeft
    BY <1>5 DEF ReadPdoCount, SlavesLeft, ObjectsLeft
  <2>2. PdosLeft' < PdosLeft
    BY <1>2, <1>5 DEF ReadPdoCount, PdosLeft
  <2> QED BY <1>1, <2>1, <2>2, FewerLeft
<1>6. CASE PdosDone
  BY <1>1, <1>2, <1>6, FewerLeft DEF PdosDone, SlavesLeft, ObjectsLeft
<1>7. CASE SkipPdo \/ EntriesDone
  <2>1. SlavesLeft' = SlavesLeft /\ ObjectsLeft' = ObjectsLeft
    BY <1>7 DEF SkipPdo, EntriesDone, SlavesLeft, ObjectsLeft
  <2>2. pdo' = pdo + 1
    BY <1>2, <1>7, SuccFacts DEF SkipPdo, EntriesDone, LoopInv, Ends, Counts
  <2>3. PdosLeft' < PdosLeft
    BY <1>2, <1>7, <2>2 DEF SkipPdo, EntriesDone, PdosLeft
  <2> QED BY <1>1, <2>1, <2>3, FewerLeft
<1>8. CASE ReadEntryCount
  <2>1. SlavesLeft' = SlavesLeft /\ ObjectsLeft' = ObjectsLeft /\ PdosLeft' = PdosLeft
    BY <1>8 DEF ReadEntryCount, SlavesLeft, ObjectsLeft, PdosLeft
  <2>2. EntriesLeft' < EntriesLeft
    BY <1>2, <1>8 DEF ReadEntryCount, EntriesLeft
  <2> QED BY <1>1, <2>1, <2>2, FewerLeft
<1>9. CASE ReadEntry
  <2>1. SlavesLeft' = SlavesLeft /\ ObjectsLeft' = ObjectsLeft /\ PdosLeft' = PdosLeft
    BY <1>9 DEF ReadEntry, SlavesLeft, ObjectsLeft, PdosLeft
  <2>2. entry < MaxCount
    BY <1>2, <1>9 DEF ReadEntry, Full, IInv, TypeOK, ScanInv
  <2>3. entry' = entry + 1
    BY <1>2, <1>9, <2>2, SuccFacts DEF ReadEntry, Counts
  <2>4. EntriesLeft' < EntriesLeft
    BY <1>2, <1>9, <2>3 DEF ReadEntry, EntriesLeft
  <2> QED BY <1>1, <2>1, <2>4, FewerLeft
<1>10. CASE AllRead \/ LimitExceeded \/ Returned
  BY <1>10 DEF AllRead, LimitExceeded, Returned
<1> QED BY <1>3, <1>4, <1>5, <1>6, <1>7, <1>8, <1>9, <1>10 DEF Next


\* There is always a next step: no answer of a slave leaves the scan between
\* two of its loops.  As every step but that of a scan that has returned changes
\* something, this is what TLC's check for deadlock establishes.
ScanNeverStuck == pc # "done" => ENABLED <<Next>>_vars

LEMMA StepsMove ==
  ASSUME IInv, pc # "done", Next
  PROVE  vars' # vars
<1> SUFFICES ASSUME UNCHANGED <<pc, slave, direction, pdo, entry>> PROVE FALSE
  BY DEF vars, loops
<1> USE DEF Return, ReadFails
<1>1. slave # slave + 1
  BY DEF IInv, TypeOK
<1>2. \A n \in Counts : Succ(n) # n
  BY ScanAssumption DEF Succ, Counts
<1>3. pdo \in Counts /\ entry \in Counts
  BY DEF IInv, TypeOK
<1>4. CASE AllRead \/ SkipSlave \/ BeginSlave
  BY <1>1, <1>4 DEF AllRead, SkipSlave, BeginSlave
<1>5. CASE ReadPdoCount \/ ReadEntryCount \/ LimitExceeded \/ Returned
  BY <1>5 DEF ReadPdoCount, ReadEntryCount, LimitExceeded, Returned
<1>6. CASE PdosDone
  BY <1>1, <1>6 DEF PdosDone
<1>7. CASE SkipPdo \/ EntriesDone \/ ReadEntry
  BY <1>2, <1>3, <1>7 DEF SkipPdo, EntriesDone, ReadEntry
<1> QED BY <1>4, <1>5, <1>6, <1>7 DEF Next

\* The scan, with what TLC checks of it.
LiveScan == FairSpec /\ []ScanNeverStuck

LEMMA LiveScanInv == LiveScan => [](IInv /\ LoopInv)
  BY LoopInductive, PTL DEF LiveScan, FairSpec

\* A scan that has at most k left to do returns, or meets such an object.
ReturnsWithin(k) ==
  LiveScan => (pc # "done" /\ Ends /\ Left <= k ~> pc = "done" \/ ~Ends)

\* A step that does not end it leaves less to do, and never less than nothing.
LEMMA ScanFalls ==
  ASSUME IInv, LoopInv, pc # "done", Ends, Next, pc' # "done", Ends'
  PROVE  Left \in Nat /\ Left' \in Nat /\ Left' < Left
<1>1. IInv' /\ LoopInv'
  BY LoopStep, SlaveStepInv, AssignmentStepInv, PdoStepInv DEF Next, Returned
<1>2. Left' \in Nat
  BY <1>1, LeftIsNatPrime
<1> QED BY <1>2, LeftIsNat, ScanProceeds

\* A step that changes nothing leaves as much to do.
LEMMA ScanStays ==
  ASSUME UNCHANGED vars
  PROVE  pc' = pc /\ Ends' = Ends /\ Left' = Left
  BY DEF vars, loops, Ends, Left, Number, Then, Base, SlavesLeft, ObjectsLeft, PdosLeft, EntriesLeft

LEMMA ReturnsNow == ReturnsWithin(0)
<1> DEFINE Here == pc # "done" /\ Ends /\ Left <= 0
           Over == pc = "done" \/ ~Ends
<1>1. ASSUME IInv, LoopInv, Here, Next PROVE Over'
  BY <1>1, ScanFalls
<1>2. ASSUME IInv, LoopInv, Here, [Next]_vars PROVE Here' \/ Over'
  BY <1>1, <1>2, ScanStays
<1> QED BY <1>1, <1>2, LiveScanInv, PTL
    DEF ReturnsWithin, LiveScan, FairSpec, Spec, ScanNeverStuck

LEMMA ReturnsSooner == ASSUME NEW k \in Nat PROVE ReturnsWithin(k) => ReturnsWithin(k + 1)
<1> DEFINE Here == pc # "done" /\ Ends /\ Left <= k + 1
           Near == pc # "done" /\ Ends /\ Left <= k
           Over == pc = "done" \/ ~Ends
<1>1. ASSUME IInv, LoopInv, Here, Next PROVE Near' \/ Over'
  BY <1>1, ScanFalls
<1>2. ASSUME IInv, LoopInv, Here, [Next]_vars PROVE Here' \/ Near' \/ Over'
  BY <1>1, <1>2, ScanStays
<1> QED BY <1>1, <1>2, LiveScanInv, PTL
    DEF ReturnsWithin, LiveScan, FairSpec, Spec, ScanNeverStuck

\* What there is to do at the start.
AllLeft == Number(SlaveCount, 2, 0, 0)

\* The scan returns, for any number of slaves and any width of the counters,
\* unless an assignment object announces as many PDOs as its 8-bit subindex can
\* count (_read_pdo_assignment).
THEOREM ScanComesBack == FairSpec /\ []ScanNeverStuck => ScanReturns
<1>1. Family([k \in Nat |-> ReturnsWithin(k)])
  BY DEF Family
<1>2. \A k \in Nat : ReturnsWithin(k) => ReturnsWithin(k + 1)
  BY ReturnsSooner
<1>3. \A k \in Nat : ReturnsWithin(k)
  BY <1>1, <1>2, ReturnsNow, RankInduct, SMT
<1>4. AllLeft \in Nat
  <2>1. Base \in Nat
    BY ScanAssumption DEF Base
  <2> QED BY <2>1, ThenFacts, ScanAssumption DEF AllLeft, Number
<1>5. ReturnsWithin(AllLeft)
  BY <1>3, <1>4
<1>6. Init => pc # "done" /\ Ends /\ Left <= AllLeft
  <2> SUFFICES ASSUME Init PROVE pc # "done" /\ Ends /\ Left <= AllLeft
    OBVIOUS
  <2>1. SlavesLeft = SlaveCount /\ ObjectsLeft = 2 /\ PdosLeft = 0 /\ EntriesLeft = 0
    BY ScanAssumption DEF Init, SlavesLeft, ObjectsLeft, PdosLeft, EntriesLeft
  <2>2. Left = AllLeft
    BY <2>1 DEF Left, AllLeft
  <2>3. Left <= AllLeft
    BY <1>4, <2>2
  <2> QED BY <2>3, ScanAssumption DEF Init, Ends
<1>7. ASSUME IInv, LoopInv, ~Ends, [Next]_vars PROVE ~Ends'
  BY <1>7, LoopStep
<1>8. ~Ends => pdoCount = MaxCount
  BY DEF Ends
<1> QED BY <1>5, <1>6, <1>7, <1>8, LiveScanInv, PTL
    DEF ReturnsWithin, LiveScan, FairSpec, Spec, ScanReturns
=============================================================================
