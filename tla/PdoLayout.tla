----------------------------- MODULE PdoLayout -----------------------------
(***************************************************************************)
(* The PDO layout: the scanned entries of all slaves, in one array, each    *)
(* with its place in the process image, and the accessors that turn an      *)
(* entry_id into a pointer.  The backend gives each slave an area of the    *)
(* image per direction; the entries are laid out in it one after another.   *)
(***************************************************************************)
EXTENDS Integers, Sequences

CONSTANTS
  SlaveCount,
  Descriptions,  \* the entry lists a scan may leave with a slave
  Mappings       \* the images ecx_config_map_group may lay out

Slaves == 1 .. SlaveCount
Directions == {"OUTPUT", "INPUT"}
Areas == Slaves \X Directions
EntrySpec == [direction : Directions, bitLength : Nat]

\* The byte of a bit.
ByteOf(bit) == bit \div 8

\* An area has a base, as a byte of the image, unless the slave has no data in
\* that direction, and a start bit in that byte, which the code does not read.
NoBase == -1
Area == [base : Nat \cup {NoBase}, start : 0 .. 7, bits : Nat]

NoArea == [base |-> NoBase, start |-> 0, bits |-> 0]

\* SOEM packs the areas of one direction that have fewer than 8 bits, one right
\* after the other: they may lie in the same byte.
Packed(area, a, b) == a # b /\ a[2] = b[2] /\ area[a].bits < 8 /\ area[b].bits < 8

\* Two areas that hold data share no byte.
Beyond(a) == 8 * a.base + a.start + a.bits
AreasApart(a, b) ==
  \/ a.base = NoBase \/ b.base = NoBase \/ a.bits = 0 \/ b.bits = 0
  \/ Beyond(a) <= 8 * b.base \/ Beyond(b) <= 8 * a.base

\* All others have their bytes for themselves.
Separate(area) ==
  \A a, b \in Areas : a # b /\ ~Packed(area, a, b) => AreasApart(area[a], area[b])

ASSUME LayoutAssumption ==
  /\ SlaveCount \in Nat
  /\ \A d \in Descriptions : d \in Seq(EntrySpec)
  /\ \A m \in Mappings :
       /\ m.size \in Nat /\ m.area \in [Areas -> Area] /\ Separate(m.area)

VARIABLES
  table,        \* the slaves' entries, as scanned
  pc,
  i, j,         \* the slave and the entry under way
  entries,      \* the array of pdo_image_entry
  mapping,      \* the areas and the image's size
  used,         \* bits laid out so far, per slave and direction
  k,            \* the entry being resolved
  active        \* pdo_layout.is_active

vars == <<table, pc, i, j, entries, mapping, used, k, active>>

NoMapping == [size |-> 0, area |-> [a \in Areas |-> NoArea]]

Init ==
  /\ table \in [Slaves -> Descriptions]
  /\ pc = "build" /\ i = 1 /\ j = 1
  /\ entries = <<>>
  /\ mapping = NoMapping
  /\ used = [a \in Areas |-> 0]
  /\ k = 1
  /\ active = FALSE

\* A failing step frees the array.
Fail ==
  /\ pc' = "failed" /\ entries' = <<>>
  /\ UNCHANGED <<table, i, j, mapping, used, k, active>>

-----------------------------------------------------------------------------
(* _pdo_image_entries_build: entry_id is the index, starting at 0.          *)

BuildEntry ==
  /\ pc = "build" /\ i \in Slaves /\ j <= Len(table[i])
  /\ entries' = Append(entries,
        [id |-> Len(entries), slave |-> i, direction |-> table[i][j].direction,
         bitLength |-> table[i][j].bitLength, byteOffset |-> 0, bitOffset |-> 0])
  /\ j' = j + 1
  /\ UNCHANGED <<table, pc, i, mapping, used, k, active>>

\* A mutation of BuildSlaveDone: the next slave's entries are not taken from
\* the first one on.
BuildSlaveDone_KeepsEntry ==
  /\ pc = "build" /\ i \in Slaves /\ j > Len(table[i])
  /\ i' = i + 1
  /\ UNCHANGED <<table, pc, j, entries, mapping, used, k, active>>

BuildSlaveDone ==
  /\ pc = "build" /\ i \in Slaves /\ j > Len(table[i])
  /\ i' = i + 1 /\ j' = 1
  /\ UNCHANGED <<table, pc, entries, mapping, used, k, active>>

\* The backend maps the image, or the array or the mapping fails.
Map ==
  /\ pc = "build" /\ i > SlaveCount
  /\ \/ /\ mapping' \in Mappings
        /\ used' = [a \in Areas |-> 0] /\ k' = 1 /\ pc' = "resolve"
        /\ UNCHANGED <<table, i, j, entries, active>>
     \/ Fail

-----------------------------------------------------------------------------
(* _resolve_pdo_entry_offsets.                                              *)

AreaOf(e) == <<e.slave, e.direction>>
Start(e) == 8 * e.byteOffset + e.bitOffset
End(e) == Start(e) + e.bitLength

\* A mutation of Placed: the byte takes all bits, the bit offset as well.
Placed_BitsTwice(e) ==
  LET bits == used[AreaOf(e)]
  IN  [e EXCEPT !.byteOffset = mapping.area[AreaOf(e)].base + ByteOf(bits),
                !.bitOffset = bits]

\* Where the next bits of its area are, if the area starts at its base.
Placed(e) ==
  LET bits == used[AreaOf(e)]
  IN  [id |-> e.id, slave |-> e.slave, direction |-> e.direction, bitLength |-> e.bitLength,
       byteOffset |-> mapping.area[AreaOf(e)].base + ByteOf(bits), bitOffset |-> bits % 8]

\* A mutation of Fits: the area is believed to be in the image.
Fits_AreaOnly(e) ==
  /\ mapping.area[AreaOf(e)].base # NoBase
  /\ used[AreaOf(e)] + e.bitLength <= mapping.area[AreaOf(e)].bits

Fits(e) ==
  /\ e.slave \in Slaves
  /\ mapping.area[AreaOf(e)].base # NoBase
  /\ used[AreaOf(e)] + e.bitLength <= mapping.area[AreaOf(e)].bits
  /\ End(Placed(e)) <= 8 * mapping.size

\* A mutation of ResolveEntry: only whole bytes are counted.
ResolveEntry_WholeBytes ==
  /\ pc = "resolve" /\ k <= Len(entries)
  /\ IF Fits(entries[k])
     THEN /\ entries' = [entries EXCEPT ![k] = Placed(entries[k])]
          /\ used' = [used EXCEPT ![AreaOf(entries[k])] = @ + 8 * ByteOf(entries[k].bitLength)]
          /\ k' = k + 1
          /\ UNCHANGED <<table, pc, i, j, mapping, active>>
     ELSE Fail

ResolveEntry ==
  /\ pc = "resolve" /\ k <= Len(entries)
  /\ IF Fits(entries[k])
     THEN /\ entries' = [entries EXCEPT ![k] = Placed(entries[k])]
          /\ used' = [used EXCEPT ![AreaOf(entries[k])] = @ + entries[k].bitLength]
          /\ k' = k + 1
          /\ UNCHANGED <<table, pc, i, j, mapping, active>>
     ELSE Fail

\* The layout is published, not active, unless the image or the slaves'
\* description cannot be had.
Publish ==
  /\ pc = "resolve" /\ k > Len(entries)
  /\ \/ pc' = "built" /\ active' = FALSE /\ UNCHANGED <<table, i, j, entries, mapping, used, k>>
     \/ Fail

\* The life cycle activates and deactivates the exchange, and drops the layout.
Activate ==
  /\ pc = "built" /\ active' = TRUE
  /\ UNCHANGED <<table, pc, i, j, entries, mapping, used, k>>

Deactivate ==
  /\ pc = "built" /\ active' = FALSE
  /\ UNCHANGED <<table, pc, i, j, entries, mapping, used, k>>

Release ==
  /\ pc = "built" /\ pc' = "released" /\ active' = FALSE /\ entries' = <<>>
  /\ mapping' = NoMapping
  /\ UNCHANGED <<table, i, j, used, k>>

Ended == pc \in {"failed", "released"} /\ UNCHANGED vars

Next ==
  \/ BuildEntry \/ BuildSlaveDone \/ Map \/ ResolveEntry \/ Publish
  \/ Activate \/ Deactivate \/ Release \/ Ended

Spec == Init /\ [][Next]_vars

-----------------------------------------------------------------------------
(* The accessors.                                                           *)

\* A mutation of InBounds: the last byte of the image is out of bounds.
InBounds_Short(e) ==
  e.bitLength # 0 /\ e.byteOffset < mapping.size /\ End(e) < 8 * mapping.size

InBounds(e) ==
  e.bitLength # 0 /\ e.byteOffset < mapping.size /\ End(e) <= 8 * mapping.size

\* A mutation of HasPointer: an entry that starts within a byte has one.
HasPointer_Unaligned(id, direction) ==
  /\ active /\ id < Len(entries)
  /\ LET e == entries[id + 1]
     IN  e.id = id /\ e.direction = direction /\ InBounds(e)

\* mo_ecat_pdo_read and mo_ecat_pdo_write give a pointer for this id.
HasPointer(id, direction) ==
  /\ active /\ id < Len(entries)
  /\ LET e == entries[id + 1]
     IN  e.id = id /\ e.direction = direction /\ e.bitOffset = 0 /\ InBounds(e)

\* The bytes its user reads or writes.
Bytes(id) ==
  LET e == entries[id + 1] IN e.byteOffset .. ByteOf(End(e) + 7) - 1

-----------------------------------------------------------------------------
(* Correctness.                                                             *)

Ids == 0 .. Len(entries) - 1
Pointers == {p \in Ids \X Directions : HasPointer(p[1], p[2])}

ImageEntry == [id : Nat, slave : Slaves, direction : Directions, bitLength : Nat,
               byteOffset : Nat, bitOffset : 0 .. 7]

TypeOK ==
  /\ table \in [Slaves -> Seq(EntrySpec)]
  /\ pc \in {"build", "resolve", "built", "failed", "released"}
  /\ i \in 1 .. SlaveCount + 1 /\ j \in Nat \ {0} /\ k \in Nat \ {0}
  /\ entries \in Seq(ImageEntry)
  /\ mapping.size \in Nat /\ mapping.area \in [Areas -> Area]
  /\ used \in [Areas -> Nat]
  /\ active \in BOOLEAN /\ (active => pc = "built")

\* Every entry of a published layout lies in the image, whatever the slaves
\* described and wherever their areas are (_resolve_pdo_entry_offsets).
EntriesInImage ==
  pc = "built" => \A n \in DOMAIN entries : End(entries[n]) <= 8 * mapping.size

\* The areas of two entries are packed.
MayShareByte(m, n) == Packed(mapping.area, AreaOf(entries[m]), AreaOf(entries[n]))

\* No two entries of a published layout share a bit: neither two of one area,
\* laid out by the running bit count, nor two of different areas, unless both
\* areas have fewer than 8 bits in the same direction (PointersLocateData).
EntriesApart ==
  pc = "built" => \A m, n \in DOMAIN entries :
    m # n /\ entries[m].bitLength > 0 /\ entries[n].bitLength > 0 /\ ~MayShareByte(m, n) =>
      End(entries[m]) <= Start(entries[n]) \/ End(entries[n]) <= Start(entries[m])

\* The bytes behind two pointers the accessors give are in the image and, with
\* the same exception, never the same, though entries may start within a byte:
\* an application that writes whole bytes touches no entry of its slave, nor of
\* one with 8 bits or more, that can be reached by another pointer.
PointersApart ==
  \A p, q \in Pointers :
    /\ Bytes(p[1]) \subseteq 0 .. mapping.size - 1
    /\ p[1] # q[1] /\ ~MayShareByte(p[1] + 1, q[1] + 1) => Bytes(p[1]) \cap Bytes(q[1]) = {}

\* The bit of the image at which SOEM exchanges an entry's data.
DataStart(e) == Start(e) + mapping.area[AreaOf(e)].start

\* "两个访问函数按 `entry_id` 定位条目，同时校验…字节对齐和映像边界"
\* (主站解耦架构设计.md:230): a pointer is to the byte at whose first bit the
\* entry's data starts.
PointersLocateData ==
  \A p \in Pointers :
    LET e == entries[p[1] + 1] IN DataStart(e) = 8 * e.byteOffset

\* After position from the array holds the first count entries of slave s.
Stretch(s, from, count) ==
  /\ from + count <= Len(entries)
  /\ \A n \in 1 .. count :
       LET e == entries[from + n] IN
         e.slave = s /\ e.direction = table[s][n].direction /\ e.bitLength = table[s][n].bitLength

\* The stretches of the slaves before slave m follow one another.
Cut(first, m) ==
  /\ first[1] = 0
  /\ \A s \in 1 .. m - 1 :
       first[s + 1] = first[s] + Len(table[s]) /\ Stretch(s, first[s], Len(table[s]))

Cuts == [1 .. SlaveCount + 1 -> 0 .. Len(entries)]

\* The published entries are the scanned ones, slave by slave and in their
\* order, none lost, repeated or given to another slave, and each is found
\* under its own id.
EntriesAreTheScanned ==
  pc = "built" =>
    /\ \A n \in DOMAIN entries : entries[n].id = n - 1
    /\ \E first \in Cuts :
         Cut(first, SlaveCount + 1) /\ first[SlaveCount + 1] = Len(entries)

\* While the exchange is active, every entry that starts at a byte has a
\* pointer in its own direction; no entry has one in the other direction.
AlignedEntriesReachable ==
  active => \A n \in DOMAIN entries, d \in Directions :
    HasPointer(entries[n].id, d) <=>
      /\ entries[n].direction = d /\ entries[n].bitLength > 0
      /\ Start(entries[n]) % 8 = 0

\* Why: the entries resolved so far lie one after another in their areas, up to
\* the bits counted, and the areas are large enough and separate.
Resolved(n) ==
  LET a == AreaOf(entries[n])
  IN  /\ mapping.area[a].base # NoBase
      /\ 8 * mapping.area[a].base <= Start(entries[n])
      /\ End(entries[n]) <= 8 * mapping.area[a].base + used[a]
      /\ End(entries[n]) <= 8 * mapping.size

LayoutInv ==
  /\ Separate(mapping.area)
  /\ \A n \in DOMAIN entries : entries[n].id = n - 1
  /\ pc \in {"resolve", "built"} =>
       /\ k <= Len(entries) + 1 /\ (pc = "built" => k = Len(entries) + 1)
       /\ \A a \in Areas : used[a] <= mapping.area[a].bits
       /\ \A n \in DOMAIN entries : n < k => Resolved(n)
       /\ \A m, n \in DOMAIN entries :
            m < n /\ n < k /\ AreaOf(entries[m]) = AreaOf(entries[n])
              => End(entries[m]) <= Start(entries[n])

\* The array is a copy of the slaves before i, and of j - 1 entries of i.
CopyInv ==
  pc \in {"build", "resolve", "built"} =>
    /\ i > SlaveCount => j = 1
    /\ pc # "build" => i > SlaveCount
    /\ i \in Slaves => j - 1 <= Len(table[i])
    /\ \E first \in Cuts :
         /\ Cut(first, i) /\ Len(entries) = first[i] + j - 1
         /\ i \in Slaves => Stretch(i, first[i], j - 1)

IInv == TypeOK /\ LayoutInv
=============================================================================
