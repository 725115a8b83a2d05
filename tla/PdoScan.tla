------------------------------ MODULE PdoScan ------------------------------
(***************************************************************************)
(* Reading the slaves' PDO descriptions over SDO: the two assignment        *)
(* objects of each slave name its PDOs, each PDO names its entries.  Both   *)
(* subindices are 8 bits wide, and an entry is stored in an array of fixed  *)
(* size.  An entry is modelled by where it was read from.                   *)
(***************************************************************************)
EXTENDS Integers, Sequences

CONSTANTS
  SlaveCount,   \* the slaves of the table
  Limit,        \* SLAVE_MAX_PDO_ENTRIES
  MaxCount      \* the largest 8-bit value

\* As built, 32 and 255: the array is smaller than what a slave may announce.
ASSUME ScanAssumption ==
  SlaveCount \in Nat /\ Limit \in Nat /\ MaxCount \in Nat /\ Limit < MaxCount

VARIABLES
  hasCoe,       \* the slaves with a CoE mailbox
  pc,           \* what is read next
  slave,        \* the slave under way
  direction,    \* the assignment object under way: outputs first
  pdoCount, pdo,        \* its number of PDOs, the subindex
  entryCount, entry,    \* the PDO's number of entries, the subindex
  entries,      \* what has been stored, for each slave
  result,
  announced     \* ghost: the entries each slave has announced so far

loops == <<direction, pdoCount, pdo, entryCount, entry>>
vars == <<hasCoe, pc, slave, loops, entries, result, announced>>

Slaves == 1 .. SlaveCount
Counts == 0 .. MaxCount
Directions == {"OUTPUT", "INPUT"}
Entry == [direction : Directions, pdo : Counts, entry : Counts]

Init ==
  /\ hasCoe \in SUBSET Slaves
  /\ pc = "slave" /\ slave = 1
  /\ direction = "OUTPUT" /\ pdoCount = 0 /\ pdo = 0 /\ entryCount = 0 /\ entry = 0
  /\ entries = [s \in Slaves |-> <<>>]
  /\ result = "none"
  /\ announced = [s \in Slaves |-> {}]

\* A mutation of Succ: a counter wider than 8 bits.
Succ_Wide(n) == n + 1

\* uint8_t: ++ wraps.
Succ(n) == (n + 1) % (MaxCount + 1)

Return(error) == pc' = "done" /\ result' = error

\* An SDO read that has failed in all its attempts ends the whole scan.
ReadFails ==
  /\ Return("SDO_READ_FAILED")
  /\ UNCHANGED <<hasCoe, slave, loops, entries, announced>>

-----------------------------------------------------------------------------
(* The loop over the slaves.                                                *)

AllRead ==
  /\ pc = "slave" /\ slave > SlaveCount
  /\ Return("NONE")
  /\ UNCHANGED <<hasCoe, slave, loops, entries, announced>>

\* Without a mailbox the slave has no entries.
SkipSlave ==
  /\ pc = "slave" /\ slave \in Slaves \ hasCoe
  /\ entries' = [entries EXCEPT ![slave] = <<>>]
  /\ slave' = slave + 1
  /\ UNCHANGED <<hasCoe, pc, loops, result, announced>>

\* The slave is asked for its outputs if it is in PRE_OP.
BeginSlave ==
  /\ pc = "slave" /\ slave \in hasCoe
  /\ entries' = [entries EXCEPT ![slave] = <<>>]
  /\ \/ /\ direction' = "OUTPUT" /\ pc' = "assignment"
        /\ UNCHANGED <<pdoCount, pdo, entryCount, entry, result>>
     \/ Return("READ_NODE_STATE_FAILED") /\ UNCHANGED loops
  /\ UNCHANGED <<hasCoe, slave, announced>>

-----------------------------------------------------------------------------
(* One assignment object.                                                   *)

ReadPdoCount ==
  /\ pc = "assignment"
  /\ \/ /\ pdoCount' \in Counts /\ pdo' = 1 /\ pc' = "pdo"
        /\ UNCHANGED <<hasCoe, slave, direction, entryCount, entry, entries, result, announced>>
     \/ ReadFails

\* Outputs are followed by inputs, inputs by the next slave.
PdosDone ==
  /\ pc = "pdo" /\ pdo > pdoCount
  /\ IF direction = "OUTPUT"
     THEN direction' = "INPUT" /\ pc' = "assignment" /\ UNCHANGED slave
     ELSE slave' = slave + 1 /\ pc' = "slave" /\ UNCHANGED direction
  /\ UNCHANGED <<hasCoe, pdoCount, pdo, entryCount, entry, entries, result, announced>>

\* A PDO index of 0 is an empty place of the assignment.
SkipPdo ==
  /\ pc = "pdo" /\ pdo <= pdoCount
  /\ pdo' = Succ(pdo)
  /\ UNCHANGED <<hasCoe, pc, slave, direction, pdoCount, entryCount, entry, entries,
                 result, announced>>

ReadEntryCount ==
  /\ pc = "pdo" /\ pdo <= pdoCount
  /\ \/ /\ entryCount' \in Counts /\ entry' = 1 /\ pc' = "entry"
        /\ announced' = [announced EXCEPT ![slave] = @ \cup
              [direction : {direction}, pdo : {pdo}, entry : 1 .. entryCount']]
        /\ UNCHANGED <<hasCoe, slave, direction, pdoCount, pdo, entries, result>>
     \/ ReadFails

-----------------------------------------------------------------------------
(* One PDO.                                                                 *)

\* A mutation of EntriesDone: the PDO's subindex is not incremented.
EntriesDone_SamePdo ==
  /\ pc = "entry" /\ entry > entryCount
  /\ pc' = "pdo"
  /\ UNCHANGED <<hasCoe, slave, direction, pdoCount, pdo, entryCount, entry, entries,
                 result, announced>>

EntriesDone ==
  /\ pc = "entry" /\ entry > entryCount
  /\ pdo' = Succ(pdo) /\ pc' = "pdo"
  /\ UNCHANGED <<hasCoe, slave, direction, pdoCount, entryCount, entry, entries,
                 result, announced>>

\* A mutation of Full: one entry too many.
Full_OneMore == Len(entries[slave]) > Limit

Full == Len(entries[slave]) >= Limit

LimitExceeded ==
  /\ pc = "entry" /\ entry <= entryCount /\ Full
  /\ Return("PDO_ENTRY_LIMIT_EXCEEDED")
  /\ UNCHANGED <<hasCoe, slave, loops, entries, announced>>

\* A mutation of ReadEntry: an entry that cannot be read is left out.
ReadEntry_LeavesOut ==
  /\ pc = "entry" /\ entry <= entryCount /\ ~Full
  /\ entries' \in {entries, [entries EXCEPT ![slave] =
        Append(@, [direction |-> direction, pdo |-> pdo, entry |-> entry])]}
  /\ entry' = Succ(entry)
  /\ UNCHANGED <<hasCoe, pc, slave, direction, pdoCount, pdo, entryCount,
                 result, announced>>

ReadEntry ==
  /\ pc = "entry" /\ entry <= entryCount /\ ~Full
  /\ \/ /\ entries' = [entries EXCEPT ![slave] =
              Append(@, [direction |-> direction, pdo |-> pdo, entry |-> entry])]
        /\ entry' = Succ(entry)
        /\ UNCHANGED <<hasCoe, pc, slave, direction, pdoCount, pdo, entryCount,
                       result, announced>>
     \/ ReadFails

\* The scan has returned.
Returned == pc = "done" /\ UNCHANGED vars

Next ==
  \/ AllRead \/ SkipSlave \/ BeginSlave
  \/ ReadPdoCount \/ PdosDone \/ SkipPdo \/ ReadEntryCount
  \/ EntriesDone \/ LimitExceeded \/ ReadEntry
  \/ Returned

Spec == Init /\ [][Next]_vars

\* Every call of the library returns within its timeout.
FairSpec == Spec /\ WF_vars(Next)

-----------------------------------------------------------------------------
(* Correctness.                                                             *)

Errors == {"NONE", "READ_NODE_STATE_FAILED", "SDO_READ_FAILED", "PDO_ENTRY_LIMIT_EXCEEDED"}

TypeOK ==
  /\ hasCoe \subseteq Slaves
  /\ pc \in {"slave", "assignment", "pdo", "entry", "done"}
  /\ slave \in 1 .. SlaveCount + 1
  /\ pc \in {"assignment", "pdo", "entry"} => slave \in Slaves
  /\ direction \in Directions
  /\ pdoCount \in Counts /\ pdo \in Counts /\ entryCount \in Counts /\ entry \in Counts
  /\ entries \in [Slaves -> Seq(Entry)]
  /\ result \in Errors \cup {"none"} /\ (result = "none" <=> pc # "done")
  /\ announced \in [Slaves -> SUBSET Entry]

Stored(s) == {entries[s][k] : k \in DOMAIN entries[s]}

NoneTwice(s) == \A k, l \in DOMAIN entries[s] : entries[s][k] = entries[s][l] => k = l

\* No entry is stored past the end of slave->pdo_entries, whatever the slaves
\* announce (_read_pdo_assignment).
ArrayBound == \A s \in Slaves : Len(entries[s]) <= Limit

\* A scan that succeeds has every announced entry of every slave, once: neither
\* the 8-bit counters nor the limit lose or repeat one in silence
\* (soem_backend_read_pdo_entries).
ScanIsComplete ==
  result = "NONE" => \A s \in Slaves : Stored(s) = announced[s] /\ NoneTwice(s)

\* What holds at each place of the scan: slaves before this one are whole, slaves
\* after it untouched; of this one, all that was announced is stored but the
\* rest of the PDO under way.  Of an assignment object with MaxCount PDOs
\* nothing is claimed: its loop does not end.
Whole(s) == Stored(s) = announced[s] /\ NoneTwice(s)

ThisPdo == [direction : {direction}, pdo : {pdo}, entry : 1 .. entryCount]

BeforeThisPdo(a) ==
  \/ a.direction = "OUTPUT" /\ direction = "INPUT"
  \/ a.direction = direction /\ a.pdo < pdo

ScanInv ==
  /\ \A s \in Slaves : s < slave => Whole(s)
  /\ \A s \in Slaves : s > slave \/ (s = slave /\ pc = "slave")
       => announced[s] = {} /\ entries[s] = <<>>
  /\ pc = "assignment" =>
       /\ Whole(slave)
       /\ \A a \in announced[slave] : a.direction = "OUTPUT" /\ direction = "INPUT"
  /\ pc = "pdo" /\ pdoCount < MaxCount =>
       Whole(slave) /\ \A a \in announced[slave] : BeforeThisPdo(a)
  /\ pc = "entry" => 1 <= entry /\ entry <= Len(entries[slave]) + 1
  /\ pc = "entry" /\ pdoCount < MaxCount =>
       /\ NoneTwice(slave) /\ pdo <= pdoCount /\ ThisPdo \subseteq announced[slave]
       /\ \A a \in announced[slave] : BeforeThisPdo(a) \/ a \in ThisPdo
       /\ Stored(slave) = {a \in announced[slave] : a \in ThisPdo => a.entry < entry}
  /\ result = "NONE" => slave > SlaveCount

IInv == TypeOK /\ ArrayBound /\ ScanInv

\* The scan returns, unless an assignment object announces MaxCount PDOs: its
\* 8-bit subindex never exceeds that (_read_pdo_assignment).
ScanReturns == <>(pc = "done") \/ <>[](pdoCount = MaxCount)
=============================================================================
