-------------------------- MODULE PdoLayoutProofs --------------------------
(***************************************************************************)
(* Proofs about PdoLayout, for any number of slaves, any descriptions and   *)
(* every image in which SOEM packs small areas only: the published entries  *)
(* lie in the image; those of one area, or of areas that are not packed,    *)
(* share no bit, and the pointers given for them share no byte.             *)
(***************************************************************************)
EXTENDS PdoLayout, TLAPS

\* A bit is in its byte.
LEMMA ByteFacts ==
  ASSUME NEW bit \in Nat
  PROVE  /\ ByteOf(bit) \in Nat /\ bit % 8 \in 0 .. 7
         /\ 8 * ByteOf(bit) + (bit % 8) = bit
<1>1. bit \div 8 \in Nat
  OBVIOUS
<1>2. bit % 8 \in 0 .. 7
  OBVIOUS
<1>3. 8 * (bit \div 8) + (bit % 8) = bit
  OBVIOUS
<1> QED BY <1>1, <1>2, <1>3 DEF ByteOf

\* Rounding up to bytes keeps below a byte boundary.
LEMMA RoundUp ==
  ASSUME NEW bits \in Nat, NEW bytes \in Nat, bits <= 8 * bytes
  PROVE  ByteOf(bits + 7) <= bytes
  BY DEF ByteOf

\* An entry's area, start and end.
LEMMA EntryFacts ==
  ASSUME NEW e \in ImageEntry
  PROVE  /\ AreaOf(e) \in Areas
         /\ Start(e) \in Nat /\ End(e) \in Nat /\ End(e) = Start(e) + e.bitLength
  BY DEF ImageEntry, AreaOf, Areas, Start, End

\* The bit u bits after byte b.
LEMMA PlaceArithmetic ==
  ASSUME NEW b \in Nat, NEW u \in Nat
  PROVE  /\ b + ByteOf(u) \in Nat /\ u % 8 \in 0 .. 7
         /\ 8 * (b + ByteOf(u)) + (u % 8) = 8 * b + u
<1>1. /\ ByteOf(u) \in Nat /\ u % 8 \in 0 .. 7 /\ 8 * ByteOf(u) + (u % 8) = u
  BY ByteFacts
<1>2. PICK x \in Nat : x = ByteOf(u)
  BY <1>1
<1>3. PICK r \in 0 .. 7 : r = u % 8
  BY <1>1
<1>4. 8 * x + r = u
  BY <1>1, <1>2, <1>3
<1>5. b + x \in Nat /\ 8 * (b + x) + r = 8 * b + u
  BY <1>4
<1> QED BY <1>2, <1>3, <1>5

\* A placed entry begins where its area's bits so far end, and is otherwise
\* what it was.
LEMMA PlacedFacts ==
  ASSUME TypeOK, NEW e \in ImageEntry, mapping.area[AreaOf(e)].base # NoBase
  PROVE  /\ Placed(e) \in ImageEntry
         /\ AreaOf(Placed(e)) = AreaOf(e) /\ Placed(e).id = e.id
         /\ Placed(e).bitLength = e.bitLength
         /\ Start(Placed(e)) = 8 * mapping.area[AreaOf(e)].base + used[AreaOf(e)]
         /\ End(Placed(e)) = Start(Placed(e)) + e.bitLength
<1>1. AreaOf(e) \in Areas
  BY EntryFacts
<1>2. PICK b \in Nat : b = mapping.area[AreaOf(e)].base
  BY <1>1 DEF TypeOK, Area
<1>3. PICK u \in Nat : u = used[AreaOf(e)]
  BY <1>1 DEF TypeOK
<1>4. Placed(e) = [id |-> e.id, slave |-> e.slave, direction |-> e.direction,
                   bitLength |-> e.bitLength, byteOffset |-> b + ByteOf(u),
                   bitOffset |-> u % 8]
  BY <1>2, <1>3 DEF Placed
<1>5. /\ Placed(e).slave = e.slave /\ Placed(e).direction = e.direction
      /\ Placed(e).id = e.id /\ Placed(e).bitLength = e.bitLength
      /\ Placed(e).byteOffset = b + ByteOf(u) /\ Placed(e).bitOffset = u % 8
  BY <1>4
<1>6. Placed(e) \in ImageEntry
  <2>1. /\ e.id \in Nat /\ e.slave \in Slaves /\ e.direction \in Directions
        /\ e.bitLength \in Nat
    BY DEF ImageEntry
  <2>2. b + ByteOf(u) \in Nat /\ u % 8 \in 0 .. 7
    BY PlaceArithmetic
  <2>3. PICK byte \in Nat, bit \in 0 .. 7 : byte = b + ByteOf(u) /\ bit = u % 8
    BY <2>2
  <2> QED BY <1>4, <2>1, <2>3 DEF ImageEntry
<1>7. Start(Placed(e)) = 8 * b + u
  BY <1>5, PlaceArithmetic DEF Start
<1> QED BY <1>2, <1>3, <1>5, <1>6, <1>7 DEF AreaOf, End

\* The array starts empty.
LEMMA InitInv == Init => IInv
<1> SUFFICES ASSUME Init PROVE IInv
  OBVIOUS
<1>1. mapping.size \in Nat /\ mapping.area \in [Areas -> Area]
  BY DEF Init, NoMapping, NoArea, Area, NoBase
<1>2. table \in [Slaves -> Seq(EntrySpec)]
  BY LayoutAssumption DEF Init
<1>3. entries \in Seq(ImageEntry) /\ used \in [Areas -> Nat]
  BY DEF Init
<1>4. i \in 1 .. SlaveCount + 1 /\ j \in Nat \ {0} /\ k \in Nat \ {0}
  BY LayoutAssumption DEF Init
<1>5. TypeOK
  BY <1>1, <1>2, <1>3, <1>4 DEF Init, TypeOK
<1>6. LayoutInv
  BY DEF Init, LayoutInv, NoMapping, NoArea, Separate, Packed, AreasApart
<1> QED BY <1>5, <1>6 DEF IInv

\* Nothing is claimed of a layout that has failed or was dropped.
LEMMA EmptyInv ==
  ASSUME IInv, entries' = <<>>, active' = active, pc' \in {"failed", "released"}, ~active',
         mapping' \in {mapping, NoMapping}, UNCHANGED <<table, i, j, used, k>>
  PROVE  IInv'
<1>1. entries' \in Seq(ImageEntry)
  OBVIOUS
<1>2. mapping'.size \in Nat /\ mapping'.area \in [Areas -> Area]
  BY DEF IInv, TypeOK, NoMapping, NoArea, Area, NoBase
<1>3. TypeOK'
  BY <1>1, <1>2 DEF IInv, TypeOK
<1>4. Separate(mapping'.area)
  BY DEF IInv, LayoutInv, NoMapping, NoArea, Separate, Packed, AreasApart
<1>5. LayoutInv'
  BY <1>4 DEF LayoutInv, Separate, Packed, AreasApart
<1> QED BY <1>3, <1>5 DEF IInv

\* A step that fails before anything is published.
LEMMA FailInv ==
  ASSUME IInv, Fail, pc # "built"
  PROVE  IInv'
  BY EmptyInv DEF Fail, IInv, TypeOK

\* Building the array: each entry's id is its index.
LEMMA BuildInv ==
  ASSUME IInv, BuildEntry \/ BuildSlaveDone
  PROVE  IInv'
<1>1. CASE BuildEntry
  <2> DEFINE e == [id |-> Len(entries), slave |-> i, direction |-> table[i][j].direction,
                   bitLength |-> table[i][j].bitLength, byteOffset |-> 0, bitOffset |-> 0]
  <2>1. e \in ImageEntry
    <3>1. i \in Slaves /\ table[i] \in Seq(EntrySpec) /\ j \in 1 .. Len(table[i])
      BY <1>1 DEF BuildEntry, IInv, TypeOK
    <3>2. table[i][j] \in EntrySpec
      BY <3>1
    <3>3. Len(entries) \in Nat
      BY DEF IInv, TypeOK
    <3> QED BY <3>1, <3>2, <3>3 DEF ImageEntry, EntrySpec
  <2>2. /\ entries' \in Seq(ImageEntry) /\ Len(entries') = Len(entries) + 1
        /\ DOMAIN entries' = 1 .. Len(entries) + 1
        /\ entries'[Len(entries) + 1].id = Len(entries)
        /\ \A n \in DOMAIN entries : entries'[n] = entries[n]
    BY <1>1, <2>1 DEF BuildEntry, IInv, TypeOK
  <2>3. TypeOK'
    BY <1>1, <2>2 DEF BuildEntry, IInv, TypeOK
  <2>4. \A n \in DOMAIN entries' : entries'[n].id = n - 1
    <3>1. /\ Len(entries) \in Nat /\ DOMAIN entries = 1 .. Len(entries)
          /\ \A n \in DOMAIN entries : entries[n].id = n - 1
      BY DEF IInv, TypeOK, LayoutInv
    <3> QED BY <2>2, <3>1
  <2>5. LayoutInv'
    BY <1>1, <2>4 DEF BuildEntry, IInv, LayoutInv, Separate, Packed, AreasApart
  <2> QED BY <2>3, <2>5 DEF IInv
<1>2. CASE BuildSlaveDone
  <2>1. TypeOK'
    BY <1>2, LayoutAssumption DEF BuildSlaveDone, IInv, TypeOK, Slaves
  <2>2. LayoutInv'
    BY <1>2 DEF BuildSlaveDone, IInv, LayoutInv, Separate, Packed, AreasApart
  <2> QED BY <2>1, <2>2 DEF IInv
<1> QED BY <1>1, <1>2

\* Mapping: nothing resolved yet, no bits used.
LEMMA MapInv ==
  ASSUME IInv, Map
  PROVE  IInv'
<1>1. CASE Fail
  BY <1>1, FailInv DEF Map
<1>2. CASE /\ mapping' \in Mappings
           /\ used' = [a \in Areas |-> 0] /\ k' = 1 /\ pc' = "resolve"
           /\ UNCHANGED <<table, i, j, entries, active>>
  <2>1. /\ mapping'.size \in Nat /\ mapping'.area \in [Areas -> Area]
        /\ Separate(mapping'.area)
    BY <1>2, LayoutAssumption
  <2>2. TypeOK'
    BY <1>2, <2>1 DEF Map, IInv, TypeOK
  <2>3. /\ \A a \in Areas : used'[a] <= mapping'.area[a].bits
        /\ k' <= Len(entries') + 1
        /\ \A n \in DOMAIN entries' : ~(n < k')
    BY <1>2, <2>1 DEF IInv, TypeOK, Area
  <2>4. LayoutInv'
    BY <1>2, <2>1, <2>3 DEF IInv, LayoutInv, Separate, Packed, AreasApart
  <2> QED BY <2>2, <2>4 DEF IInv
<1> QED BY <1>1, <1>2 DEF Map

\* Resolving one more entry: it begins where its area's bits end, so after all
\* that were resolved in that area before.
LEMMA ResolveInv ==
  ASSUME IInv, ResolveEntry
  PROVE  IInv'
<1> DEFINE e == entries[k]
           p == Placed(e)
           a == AreaOf(e)
<1>1. /\ pc = "resolve" /\ k \in DOMAIN entries /\ e \in ImageEntry
      /\ DOMAIN entries = 1 .. Len(entries) /\ Len(entries) \in Nat
  BY DEF ResolveEntry, IInv, TypeOK
<1>2. CASE ~Fits(e)
  BY <1>1, <1>2, FailInv DEF ResolveEntry
<1>3. CASE Fits(e)
  <2>1. /\ entries' = [entries EXCEPT ![k] = p]
        /\ used' = [used EXCEPT ![a] = @ + e.bitLength]
        /\ k' = k + 1 /\ UNCHANGED <<table, pc, i, j, mapping, active>>
    BY <1>3 DEF ResolveEntry
  <2>2. /\ mapping.area[a].base # NoBase
        /\ used[a] + e.bitLength <= mapping.area[a].bits
        /\ End(p) <= 8 * mapping.size
    BY <1>3 DEF Fits
  <2>3. /\ p \in ImageEntry /\ AreaOf(p) = a /\ p.id = e.id /\ p.bitLength = e.bitLength
        /\ Start(p) = 8 * mapping.area[a].base + used[a]
        /\ End(p) = Start(p) + e.bitLength
    BY <1>1, <2>2, PlacedFacts DEF IInv
  <2>4. /\ a \in Areas /\ used[a] \in Nat /\ e.bitLength \in Nat
        /\ mapping.area[a].base \in Nat /\ mapping.size \in Nat /\ k \in Nat
    BY <1>1, <2>2, EntryFacts DEF IInv, TypeOK, Area, ImageEntry
  <2>5. /\ entries' \in Seq(ImageEntry) /\ Len(entries') = Len(entries)
        /\ DOMAIN entries' = DOMAIN entries
        /\ entries'[k] = p
        /\ \A n \in DOMAIN entries : n # k => entries'[n] = entries[n]
    BY <1>1, <2>1, <2>3 DEF IInv, TypeOK
  <2>6. /\ used' \in [Areas -> Nat] /\ used'[a] = used[a] + e.bitLength
        /\ \A x \in Areas : used'[x] >= used[x] /\ (x # a => used'[x] = used[x])
    BY <2>1, <2>4 DEF IInv, TypeOK
  <2>7. TypeOK'
    BY <2>1, <2>4, <2>5, <2>6 DEF IInv, TypeOK
  <2>8. \A n \in DOMAIN entries' : entries'[n].id = n - 1
    BY <1>1, <2>3, <2>5 DEF IInv, LayoutInv
  <2>9. \A x \in Areas : used'[x] <= mapping'.area[x].bits
    BY <1>1, <2>1, <2>2, <2>6 DEF IInv, LayoutInv
  <2>10. ASSUME NEW n \in DOMAIN entries', n < k' PROVE Resolved(n)'
    <3>1. CASE n = k
      <4>1. /\ entries'[n] = p /\ AreaOf(entries'[n]) = a /\ mapping' = mapping
            /\ End(entries'[n]) = End(p) /\ Start(entries'[n]) = Start(p)
        BY <2>1, <2>3, <2>5, <3>1
      <4>2. /\ 8 * mapping.area[a].base <= Start(p)
            /\ End(p) <= 8 * mapping.area[a].base + used'[a]
        BY <2>3, <2>4, <2>6
      <4> QED BY <2>2, <4>1, <4>2 DEF Resolved, AreaOf, End, Start
    <3>2. CASE n # k
      <4>1. n \in DOMAIN entries /\ n < k /\ entries'[n] = entries[n]
        BY <1>1, <2>1, <2>4, <2>5, <2>10, <3>2
      <4>2. /\ Resolved(n) /\ AreaOf(entries[n]) \in Areas
            /\ End(entries[n]) \in Nat
        BY <1>1, <4>1, EntryFacts DEF IInv, TypeOK, LayoutInv
      <4>3. /\ used[AreaOf(entries[n])] \in Nat /\ used'[AreaOf(entries[n])] \in Nat
            /\ used'[AreaOf(entries[n])] >= used[AreaOf(entries[n])]
            /\ mapping.area[AreaOf(entries[n])].base \in Nat
        BY <2>6, <4>2 DEF IInv, TypeOK, Resolved, Area
      <4> QED BY <2>1, <4>1, <4>2, <4>3 DEF Resolved
    <3> QED BY <3>1, <3>2
  <2>11. ASSUME NEW m \in DOMAIN entries', NEW n \in DOMAIN entries', m < n, n < k',
                AreaOf(entries'[m]) = AreaOf(entries'[n])
         PROVE  End(entries'[m]) <= Start(entries'[n])
    <3>1. m \in DOMAIN entries /\ m < k /\ m # k /\ entries'[m] = entries[m]
      BY <1>1, <2>1, <2>4, <2>5, <2>11
    <3>2. CASE n = k
      <4>1. Resolved(m) /\ AreaOf(entries[m]) = a
        BY <1>1, <2>3, <2>5, <2>11, <3>1, <3>2 DEF IInv, LayoutInv
      <4> QED BY <2>3, <2>5, <3>1, <3>2, <4>1 DEF Resolved
    <3>3. CASE n # k
      <4>1. n \in DOMAIN entries /\ n < k /\ entries'[n] = entries[n]
        BY <1>1, <2>1, <2>4, <2>5, <2>11, <3>3
      <4> QED BY <1>1, <2>11, <3>1, <4>1 DEF IInv, LayoutInv
    <3> QED BY <3>2, <3>3
  <2>12. k' <= Len(entries') + 1 /\ pc' = "resolve"
    BY <1>1, <2>1, <2>4, <2>5
  <2>13. Separate(mapping'.area)
    BY <2>1 DEF IInv, LayoutInv
  <2>14. LayoutInv'
    BY <2>8, <2>9, <2>10, <2>11, <2>12, <2>13 DEF LayoutInv, Separate, Packed, AreasApart
  <2> QED BY <2>7, <2>14 DEF IInv
<1> QED BY <1>2, <1>3

\* Publishing keeps what was resolved: all of it.
LEMMA PublishInv ==
  ASSUME IInv, Publish
  PROVE  IInv'
<1>1. CASE Fail
  BY <1>1, FailInv DEF Publish
<1>2. CASE pc' = "built" /\ active' = FALSE /\ UNCHANGED <<table, i, j, entries, mapping, used, k>>
  <2>1. k = Len(entries) + 1 /\ pc = "resolve"
    BY DEF Publish, IInv, TypeOK, LayoutInv
  <2>2. TypeOK'
    BY <1>2 DEF IInv, TypeOK
  <2>3. LayoutInv'
    BY <1>2, <2>1 DEF IInv, LayoutInv, Separate, Packed, AreasApart, Resolved, AreaOf, Start, End
  <2> QED BY <2>2, <2>3 DEF IInv
<1> QED BY <1>1, <1>2 DEF Publish

\* Activation does not move anything; a dropped layout is empty.
LEMMA UseInv ==
  ASSUME IInv, Activate \/ Deactivate \/ Release
  PROVE  IInv'
<1>1. CASE Activate \/ Deactivate
  <2>1. UNCHANGED <<table, pc, i, j, entries, mapping, used, k>> /\ pc = "built"
        /\ active' \in BOOLEAN
    BY <1>1 DEF Activate, Deactivate
  <2>2. TypeOK'
    BY <2>1 DEF IInv, TypeOK
  <2>3. LayoutInv'
    BY <2>1 DEF IInv, LayoutInv, Separate, Packed, AreasApart, Resolved, AreaOf, Start, End
  <2> QED BY <2>2, <2>3 DEF IInv
<1>2. CASE Release
  <2>1. /\ entries' \in Seq(ImageEntry) /\ mapping' = NoMapping
        /\ NoMapping.size \in Nat /\ NoMapping.area \in [Areas -> Area]
    BY <1>2 DEF Release, NoMapping, NoArea, Area, NoBase
  <2>2. TypeOK'
    BY <1>2, <2>1 DEF Release, IInv, TypeOK
  <2>3. LayoutInv'
    BY <1>2, <2>1 DEF Release, LayoutInv, NoMapping, NoArea, Separate, Packed, AreasApart
  <2> QED BY <2>2, <2>3 DEF IInv
<1> QED BY <1>1, <1>2

\* Entries resolved so far lie in their areas, one after another.
THEOREM LayoutInductive == Spec => []IInv
<1>1. IInv /\ [Next]_vars => IInv'
  <2> SUFFICES ASSUME IInv, [Next]_vars PROVE IInv'
    OBVIOUS
  <2>1. CASE UNCHANGED vars
    BY <2>1 DEF vars, IInv, TypeOK, LayoutInv, Separate, Packed, AreasApart, Resolved, AreaOf, Start, End
  <2> QED BY <2>1, BuildInv, MapInv, ResolveInv, PublishInv, UseInv DEF Next, Ended
<1> QED BY InitInv, <1>1, PTL DEF Spec

\* The types of the layout's variables.
THEOREM LayoutTypeCorrect == Spec => []TypeOK
<1>1. IInv => TypeOK
  BY DEF IInv
<1> QED BY <1>1, LayoutInductive, PTL

\* A published entry lies in the image (_resolve_pdo_entry_offsets).
THEOREM EntriesAlwaysInImage == Spec => []EntriesInImage
<1>1. IInv => EntriesInImage
  <2> SUFFICES ASSUME IInv, pc = "built", NEW n \in DOMAIN entries
               PROVE  End(entries[n]) <= 8 * mapping.size
    BY DEF EntriesInImage
  <2>1. n < k
    BY DEF IInv, TypeOK, LayoutInv
  <2> QED BY <2>1 DEF IInv, LayoutInv, Resolved
<1> QED BY <1>1, LayoutInductive, PTL

\* Of two published entries with data, one ends before the other starts.
LEMMA ApartFacts ==
  ASSUME IInv, pc = "built", NEW m \in DOMAIN entries, NEW n \in DOMAIN entries, m # n,
         entries[m].bitLength > 0, entries[n].bitLength > 0, ~MayShareByte(m, n)
  PROVE  End(entries[m]) <= Start(entries[n]) \/ End(entries[n]) <= Start(entries[m])
<1> DEFINE a == AreaOf(entries[m])
           b == AreaOf(entries[n])
<1>1. /\ m \in Nat /\ n \in Nat /\ m < k /\ n < k
      /\ entries[m] \in ImageEntry /\ entries[n] \in ImageEntry
  BY DEF IInv, TypeOK, LayoutInv
<1>2. Resolved(m) /\ Resolved(n)
  BY <1>1 DEF IInv, LayoutInv
<1>3. CASE a = b
  <2>1. m < n \/ n < m
    BY <1>1
  <2> QED BY <1>1, <1>3, <2>1 DEF IInv, LayoutInv
<1>4. CASE a # b
  <2>1. /\ a \in Areas /\ b \in Areas
        /\ Start(entries[m]) \in Nat /\ Start(entries[n]) \in Nat
        /\ End(entries[m]) = Start(entries[m]) + entries[m].bitLength
        /\ End(entries[n]) = Start(entries[n]) + entries[n].bitLength
        /\ entries[m].bitLength \in Nat /\ entries[n].bitLength \in Nat
    BY <1>1, EntryFacts DEF ImageEntry
  <2>2. /\ used[a] \in Nat /\ used[b] \in Nat
        /\ mapping.area[a] \in Area /\ mapping.area[b] \in Area
        /\ used[a] <= mapping.area[a].bits /\ used[b] <= mapping.area[b].bits
        /\ AreasApart(mapping.area[a], mapping.area[b])
    BY <1>4, <2>1 DEF IInv, TypeOK, LayoutInv, Separate, MayShareByte
  <2>3. /\ mapping.area[a].base \in Nat /\ mapping.area[b].base \in Nat
        /\ mapping.area[a].bits \in Nat /\ mapping.area[b].bits \in Nat
        /\ mapping.area[a].start \in Nat /\ mapping.area[b].start \in Nat
    BY <1>2, <2>2 DEF Resolved, Area
  <2>4. mapping.area[a].bits # 0 /\ mapping.area[b].bits # 0
    BY <1>2, <2>1, <2>2, <2>3 DEF Resolved
  <2> QED BY <1>2, <2>1, <2>2, <2>3, <2>4 DEF Resolved, AreasApart, Beyond
<1> QED BY <1>3, <1>4

\* Two published entries share no bit, unless they lie in two areas of the same
\* direction with fewer than 8 bits each, which SOEM may put in one byte and
\* _resolve_pdo_entry_offsets does not tell apart.
THEOREM UnpackedEntriesNeverOverlap == Spec => []EntriesApart
<1>1. IInv => EntriesApart
  BY ApartFacts DEF EntriesApart
<1> QED BY <1>1, LayoutInductive, PTL

\* Two pointers given by mo_ecat_pdo_read and mo_ecat_pdo_write stay in the image
\* and, with the same exception, share no byte.
THEOREM UnpackedPointersShareNoByte == Spec => []PointersApart
<1>1. IInv => PointersApart
  <2> SUFFICES ASSUME IInv, NEW p \in Pointers, NEW q \in Pointers
               PROVE  /\ Bytes(p[1]) \subseteq 0 .. mapping.size - 1
                      /\ p[1] # q[1] /\ ~MayShareByte(p[1] + 1, q[1] + 1)
                           => Bytes(p[1]) \cap Bytes(q[1]) = {}
    BY DEF PointersApart
  <2> DEFINE Held(id) == entries[id + 1]
  <2>1. ASSUME NEW r \in Pointers
        PROVE  /\ pc = "built" /\ r[1] + 1 \in DOMAIN entries /\ r[1] \in Nat
               /\ Held(r[1]) \in ImageEntry
               /\ Held(r[1]).bitOffset = 0 /\ Held(r[1]).bitLength > 0
               /\ End(Held(r[1])) <= 8 * mapping.size
    <3>1. r[1] \in Ids /\ HasPointer(r[1], r[2])
      BY <2>1 DEF Pointers
    <3>2. r[1] + 1 \in DOMAIN entries /\ r[1] \in Nat /\ entries[r[1] + 1] \in ImageEntry
      BY <3>1 DEF Ids, IInv, TypeOK
    <3>3. pc = "built"
      BY <3>1 DEF HasPointer, IInv, TypeOK
    <3>4. /\ Held(r[1]).bitOffset = 0 /\ Held(r[1]).bitLength # 0
          /\ End(Held(r[1])) <= 8 * mapping.size
      BY <3>1 DEF HasPointer, InBounds
    <3>5. Held(r[1]).bitLength > 0
      BY <3>2, <3>4 DEF ImageEntry
    <3> QED BY <3>2, <3>3, <3>4, <3>5
  <2>2. ASSUME NEW r \in Pointers
        PROVE  /\ Held(r[1]).byteOffset \in Nat /\ End(Held(r[1])) \in Nat
               /\ Start(Held(r[1])) = 8 * Held(r[1]).byteOffset
               /\ ByteOf(End(Held(r[1])) + 7) \in Nat
    <3>1. ASSUME NEW e \in ImageEntry, e.bitOffset = 0
          PROVE  /\ e.byteOffset \in Nat /\ End(e) \in Nat
                 /\ Start(e) = 8 * e.byteOffset /\ End(e) + 7 \in Nat
      BY <3>1, EntryFacts DEF ImageEntry, Start
    <3> QED BY <2>1, <3>1, ByteFacts
  <2>3. Bytes(p[1]) \subseteq 0 .. mapping.size - 1
    <3>1. mapping.size \in Nat
      BY DEF IInv, TypeOK
    <3>2. ByteOf(End(Held(p[1])) + 7) <= mapping.size
      BY <2>1, <2>2, <3>1, RoundUp
    <3> QED BY <2>2, <3>1, <3>2 DEF Bytes
  <2>4. ASSUME p[1] # q[1], ~MayShareByte(p[1] + 1, q[1] + 1)
        PROVE  Bytes(p[1]) \cap Bytes(q[1]) = {}
    <3>1. \/ End(Held(p[1])) <= Start(Held(q[1]))
          \/ End(Held(q[1])) <= Start(Held(p[1]))
      BY <2>1, <2>4, ApartFacts
    <3>2. \/ ByteOf(End(Held(p[1])) + 7) <= Held(q[1]).byteOffset
          \/ ByteOf(End(Held(q[1])) + 7) <= Held(p[1]).byteOffset
      BY <2>2, <3>1, RoundUp
    <3> QED BY <2>2, <3>2 DEF Bytes
  <2> QED BY <2>3, <2>4
<1> QED BY <1>1, LayoutInductive, PTL

\* While the exchange is active an entry is reached through its own id, in its
\* own direction, exactly when it has data and starts at a byte: no check of
\* _pdo_image_entry_data refuses an entry that it could give a pointer to.
THEOREM AlignedEntriesAreReached == Spec => []AlignedEntriesReachable
<1>1. IInv => AlignedEntriesReachable
  <2> SUFFICES ASSUME IInv, active, NEW n \in DOMAIN entries, NEW d \in Directions
               PROVE  HasPointer(entries[n].id, d) <=>
                        /\ entries[n].direction = d /\ entries[n].bitLength > 0
                        /\ Start(entries[n]) % 8 = 0
    BY DEF AlignedEntriesReachable
  <2> DEFINE e == entries[n]
  <2>1. /\ e \in ImageEntry /\ n \in 1 .. Len(entries) /\ Len(entries) \in Nat
        /\ mapping.size \in Nat
    BY DEF IInv, TypeOK
  <2>2. pc = "built" /\ n < k /\ e.id = n - 1
    BY <2>1 DEF IInv, TypeOK, LayoutInv
  <2>3. End(e) <= 8 * mapping.size
    BY <2>2 DEF IInv, LayoutInv, Resolved
  <2>4. /\ e.bitLength \in Nat /\ e.byteOffset \in Nat /\ e.bitOffset \in 0 .. 7
        /\ End(e) = 8 * e.byteOffset + e.bitOffset + e.bitLength
    BY <2>1 DEF ImageEntry, Start, End
  <2>5. e.id < Len(entries) /\ entries[e.id + 1] = e
    BY <2>1, <2>2
  <2>6. InBounds(e) <=> e.bitLength > 0
    <3>1. PICK length \in Nat, byte \in Nat, bit \in 0 .. 7, size \in Nat :
            length = e.bitLength /\ byte = e.byteOffset /\ bit = e.bitOffset /\ size = mapping.size
      BY <2>1, <2>4
    <3>2. 8 * byte + bit + length <= 8 * size
      BY <2>3, <2>4, <3>1
    <3>3. length > 0 => byte < size
      BY <3>2
    <3> QED BY <2>3, <3>1, <3>3 DEF InBounds
  <2>7. Start(e) % 8 = 0 <=> e.bitOffset = 0
    <3>1. PICK byte \in Nat, bit \in 0 .. 7 : byte = e.byteOffset /\ bit = e.bitOffset
      BY <2>4
    <3>2. ((8 * byte + bit) % 8) = bit
      <4>1. PICK start \in Nat : start = 8 * byte + bit
        OBVIOUS
      <4>2. (start % 8) \in 0 .. 7 /\ 8 * ByteOf(start) + (start % 8) = start /\ ByteOf(start) \in Nat
        BY ByteFacts
      <4> QED BY <4>1, <4>2
    <3> QED BY <3>1, <3>2 DEF Start
  <2> QED BY <2>5, <2>6, <2>7 DEF HasPointer
<1> QED BY <1>1, LayoutInductive, PTL

-----------------------------------------------------------------------------
(* The entries are the scanned ones.                                        *)

\* The array is at least as long, and its entries are of the same slaves, the
\* same directions and the same lengths.
SameEntries ==
  /\ Len(entries) \in Nat /\ Len(entries') \in Nat /\ Len(entries) <= Len(entries')
  /\ \A n \in 1 .. Len(entries) :
       /\ entries'[n].slave = entries[n].slave
       /\ entries'[n].direction = entries[n].direction
       /\ entries'[n].bitLength = entries[n].bitLength
  /\ table' = table

\* Then what was copied still is.
LEMMA StretchKept ==
  ASSUME SameEntries, NEW s, NEW from \in Nat, NEW count \in Nat, Stretch(s, from, count)
  PROVE  Stretch(s, from, count)'
<1>1. PICK length \in Nat : length = Len(entries)
  BY DEF SameEntries
<1>2. \A n \in 1 .. count : from + n \in 1 .. length
  BY <1>1 DEF Stretch
<1> QED BY <1>1, <1>2 DEF Stretch, SameEntries

LEMMA CutKept ==
  ASSUME SameEntries, TypeOK, NEW first \in Cuts, NEW m \in 1 .. SlaveCount + 1, Cut(first, m)
  PROVE  first \in Cuts' /\ Cut(first, m)'
<1>1. first \in Cuts'
  BY DEF SameEntries, Cuts
<1>2. ASSUME NEW s \in 1 .. m - 1 PROVE Stretch(s, first[s], Len(table[s]))'
  <2>1. s \in Slaves /\ s \in 1 .. SlaveCount + 1
    BY LayoutAssumption DEF Slaves
  <2>2. first[s] \in Nat
    BY <2>1 DEF Cuts, SameEntries
  <2>3. PICK count \in Nat : count = Len(table[s])
    BY <2>1 DEF TypeOK
  <2>4. Stretch(s, first[s], count)
    BY <2>3 DEF Cut
  <2>5. Stretch(s, first[s], count)'
    BY <2>2, <2>4, StretchKept
  <2> QED BY <2>3, <2>5 DEF SameEntries
<1> QED BY <1>1, <1>2 DEF Cut, SameEntries

\* An entry is copied, of the slave under way.
LEMMA BuildEntryCopy ==
  ASSUME IInv, CopyInv, BuildEntry
  PROVE  CopyInv'
<1> DEFINE e == [id |-> Len(entries), slave |-> i, direction |-> table[i][j].direction,
                 bitLength |-> table[i][j].bitLength, byteOffset |-> 0, bitOffset |-> 0]
<1>1. /\ pc = "build" /\ i \in Slaves /\ j \in 1 .. Len(table[i]) /\ Len(table[i]) \in Nat
      /\ entries' = Append(entries, e) /\ j' = j + 1
      /\ UNCHANGED <<table, pc, i, mapping, used, k, active>>
  BY DEF BuildEntry, IInv, TypeOK
<1>2. /\ Len(entries') = Len(entries) + 1 /\ Len(entries) \in Nat
      /\ entries'[Len(entries) + 1] = e
      /\ \A n \in 1 .. Len(entries) : entries'[n] = entries[n]
  BY <1>1 DEF IInv, TypeOK
<1>3. SameEntries
  BY <1>1, <1>2 DEF SameEntries
<1>4. PICK first \in Cuts :
        Cut(first, i) /\ Len(entries) = first[i] + j - 1 /\ Stretch(i, first[i], j - 1)
  BY <1>1 DEF CopyInv
<1>5. PICK s \in 1 .. SlaveCount + 1 : s = i
  BY <1>1, LayoutAssumption DEF Slaves
<1>6. PICK from \in Nat : from = first[i]
  BY <1>2, <1>5 DEF Cuts
<1>7. PICK count \in Nat : j = count + 1
  BY <1>1
<1>8. Len(entries) = from + count /\ Stretch(s, from, count)
  BY <1>2, <1>4, <1>5, <1>6, <1>7
<1>9. first \in Cuts' /\ Cut(first, s)' /\ Stretch(s, from, count)'
  BY <1>3, <1>4, <1>5, <1>8, CutKept, StretchKept DEF IInv
<1>10. Stretch(s, from, count + 1)'
  <2>1. Len(entries') = from + (count + 1)
    BY <1>2, <1>8
  <2>2. /\ entries'[from + (count + 1)].slave = s
        /\ entries'[from + (count + 1)].direction = table'[s][count + 1].direction
        /\ entries'[from + (count + 1)].bitLength = table'[s][count + 1].bitLength
    <3>1. entries'[from + (count + 1)] = e /\ e.slave = s
      BY <1>2, <1>5, <1>8, <2>1
    <3>2. e.direction = table[s][count + 1].direction /\ e.bitLength = table[s][count + 1].bitLength
      BY <1>5, <1>7
    <3> HIDE DEF e
    <3> QED BY <1>1, <3>1, <3>2
  <2> HIDE DEF e
  <2>3. ASSUME NEW n \in 1 .. count + 1
        PROVE  /\ entries'[from + n].slave = s
               /\ entries'[from + n].direction = table'[s][n].direction
               /\ entries'[from + n].bitLength = table'[s][n].bitLength
    <3>1. CASE n = count + 1
      BY <2>2, <3>1
    <3>2. CASE n # count + 1
      <4>1. n \in 1 .. count
        BY <3>2
      <4> QED BY <1>9, <4>1 DEF Stretch
    <3> QED BY <3>1, <3>2
  <2>4. from + (count + 1) <= Len(entries')
    BY <2>1
  <2> QED BY <2>3, <2>4 DEF Stretch
<1>11. j' = count + 2 /\ Len(entries') = from + j' - 1 /\ j' - 1 = count + 1
  <2>1. j' = count + 2
    BY <1>1, <1>7
  <2>2. Len(entries') = from + (count + 1)
    BY <1>2, <1>8
  <2> HIDE DEF e
  <2> QED BY <2>1, <2>2
<1>12. j' - 1 <= Len(table'[i'])
  BY <1>1, <1>7, <1>11
<1> QED BY <1>1, <1>5, <1>6, <1>9, <1>10, <1>11, <1>12, LayoutAssumption DEF CopyInv, Slaves

\* All entries of a slave are copied: the next stretch begins.
LEMMA BuildSlaveCopy ==
  ASSUME IInv, CopyInv, BuildSlaveDone
  PROVE  CopyInv'
<1>1. /\ pc = "build" /\ i \in Slaves /\ j > Len(table[i]) /\ j \in Nat /\ Len(table[i]) \in Nat
      /\ i' = i + 1 /\ j' = 1 /\ UNCHANGED <<table, pc, entries>>
      /\ j - 1 <= Len(table[i]) /\ Len(entries) \in Nat
  BY DEF BuildSlaveDone, IInv, TypeOK, CopyInv
<1>2. j - 1 = Len(table[i])
  BY <1>1
<1>3. PICK first \in Cuts :
        Cut(first, i) /\ Len(entries) = first[i] + j - 1 /\ Stretch(i, first[i], j - 1)
  BY <1>1 DEF CopyInv
<1>4. PICK s \in 1 .. SlaveCount : s = i
  BY <1>1 DEF Slaves
<1>5. PICK from \in Nat : from = first[i]
  BY <1>1, <1>4, LayoutAssumption DEF Cuts
<1>6. Len(entries) = from + Len(table[s]) /\ Stretch(s, from, Len(table[s]))
  BY <1>1, <1>2, <1>3, <1>4, <1>5
<1>7. PICK next \in Cuts :
        next[s + 1] = Len(entries) /\ \A t \in 1 .. s : next[t] = first[t]
  <2> DEFINE longer == [first EXCEPT ![s + 1] = Len(entries)]
  <2>1. /\ longer \in Cuts /\ longer[s + 1] = Len(entries)
        /\ \A t \in 1 .. s : longer[t] = first[t]
    BY <1>1, LayoutAssumption DEF Cuts
  <2> QED BY <2>1
<1>8. Cut(next, s + 1)
  <2>1. next[1] = 0
    BY <1>3, <1>7 DEF Cut
  <2>2. ASSUME NEW t \in 1 .. s
        PROVE  next[t + 1] = next[t] + Len(table[t]) /\ Stretch(t, next[t], Len(table[t]))
    <3>1. CASE t = s
      BY <1>4, <1>5, <1>6, <1>7, <3>1
    <3>2. CASE t # s
      <4>1. t \in 1 .. s - 1 /\ t + 1 \in 1 .. s
        BY <3>2
      <4> QED BY <1>3, <1>4, <1>7, <4>1 DEF Cut
    <3> QED BY <3>1, <3>2
  <2>3. (s + 1) - 1 = s
    OBVIOUS
  <2> QED BY <2>1, <2>2, <2>3 DEF Cut
<1>9. SameEntries
  BY <1>1 DEF SameEntries
<1>10. s + 1 \in 1 .. SlaveCount + 1
  BY LayoutAssumption
<1>11. next \in Cuts' /\ Cut(next, s + 1)'
  BY <1>7, <1>8, <1>9, <1>10, CutKept DEF IInv
<1>12. i' = s + 1 /\ j' = 1 /\ pc' = "build"
  BY <1>1, <1>4
<1>13. /\ Len(entries') = next[s + 1] /\ Len(entries') \in Nat
       /\ s + 1 \in Slaves => Len(table'[s + 1]) \in Nat
  BY <1>1, <1>7 DEF IInv, TypeOK
<1>14. Stretch(s + 1, next[s + 1], 0)'
  BY <1>13 DEF Stretch
<1> QED BY <1>10, <1>11, <1>12, <1>13, <1>14 DEF CopyInv, Slaves

\* The steps after the copy: what they change of the entries was not copied.
LEMMA LaterCopy ==
  ASSUME IInv, CopyInv, Map \/ ResolveEntry \/ Publish \/ Activate \/ Deactivate
  PROVE  CopyInv'
<1>1. CASE Fail
  BY <1>1 DEF Fail, CopyInv
<1>2. CASE ~Fail
  <2>1. /\ UNCHANGED <<table, i, j>> /\ pc \in {"build", "resolve", "built"}
        /\ pc' \in {"build", "resolve", "built"} /\ pc' # "build"
        /\ i > SlaveCount /\ i \in 1 .. SlaveCount + 1
        /\ entries' # entries => ResolveEntry
    BY <1>2 DEF Map, ResolveEntry, Publish, Activate, Deactivate, CopyInv, IInv, TypeOK
  <2>2. i = SlaveCount + 1 /\ i \notin Slaves /\ j = 1
    BY <2>1, LayoutAssumption DEF Slaves, CopyInv
  <2>3. SameEntries /\ Len(entries') = Len(entries)
    <3>1. CASE entries' = entries
      BY <2>1, <3>1 DEF SameEntries, IInv, TypeOK
    <3>2. CASE entries' # entries
      <4>1. k \in 1 .. Len(entries) /\ entries' = [entries EXCEPT ![k] = Placed(entries[k])]
        BY <1>2, <2>1, <3>2 DEF ResolveEntry, IInv, TypeOK
      <4> QED BY <2>1, <4>1 DEF Placed, SameEntries, IInv, TypeOK
    <3> QED BY <3>1, <3>2
  <2>4. PICK first \in Cuts : Cut(first, i) /\ Len(entries) = first[i] + j - 1
    BY <2>1 DEF CopyInv
  <2>5. PICK m \in 1 .. SlaveCount + 1 : m = i
    BY <2>1
  <2>6. first \in Cuts' /\ Cut(first, m)'
    BY <2>3, <2>4, <2>5, CutKept DEF IInv
  <2> QED BY <2>1, <2>2, <2>3, <2>4, <2>5, <2>6 DEF CopyInv, Slaves
<1> QED BY <1>1, <1>2

\* The copy starts with nothing.
LEMMA InitCopy == Init => CopyInv
<1> SUFFICES ASSUME Init PROVE CopyInv
  OBVIOUS
<1>1. /\ pc = "build" /\ i = 1 /\ j = 1 /\ entries = <<>> /\ Len(entries) = 0
      /\ table \in [Slaves -> Seq(EntrySpec)]
  BY LayoutAssumption DEF Init
<1> DEFINE zero == [s \in 1 .. SlaveCount + 1 |-> 0]
<1>2. zero \in Cuts /\ zero[1] = 0 /\ Cut(zero, 1)
  BY <1>1, LayoutAssumption DEF Cuts, Cut
<1>3. i \in Slaves => j - 1 <= Len(table[i]) /\ Stretch(i, zero[i], j - 1)
  <2>1. i \in Slaves => Len(table[i]) \in Nat
    BY <1>1
  <2> QED BY <1>1, <1>2, <2>1 DEF Stretch
<1> HIDE DEF zero
<1> QED BY <1>1, <1>2, <1>3 DEF CopyInv

\* The published entries are exactly the scanned ones
\* (_pdo_image_entries_build), whatever the slaves described.
THEOREM EntriesAreCopied == Spec => []EntriesAreTheScanned
<1>1. IInv /\ CopyInv /\ [Next]_vars => CopyInv'
  <2> SUFFICES ASSUME IInv, CopyInv, [Next]_vars PROVE CopyInv'
    OBVIOUS
  <2>1. CASE UNCHANGED vars
    BY <2>1 DEF vars, CopyInv, Cuts, Cut, Stretch, Slaves
  <2>2. CASE Release
    BY <2>2 DEF Release, CopyInv
  <2> QED BY <2>1, <2>2, BuildEntryCopy, BuildSlaveCopy, LaterCopy DEF Next, Ended
<1>2. IInv /\ CopyInv => EntriesAreTheScanned
  <2> SUFFICES ASSUME IInv, CopyInv, pc = "built"
               PROVE  /\ \A n \in DOMAIN entries : entries[n].id = n - 1
                      /\ \E first \in Cuts :
                           Cut(first, SlaveCount + 1) /\ first[SlaveCount + 1] = Len(entries)
    BY DEF EntriesAreTheScanned
  <2>1. i = SlaveCount + 1 /\ j = 1
    BY LayoutAssumption DEF CopyInv, IInv, TypeOK
  <2>2. PICK first \in Cuts : Cut(first, i) /\ Len(entries) = first[i] + j - 1
    BY DEF CopyInv
  <2>3. first[SlaveCount + 1] \in Nat /\ Len(entries) \in Nat
    BY LayoutAssumption DEF Cuts, IInv, TypeOK
  <2> QED BY <2>1, <2>2, <2>3 DEF IInv, LayoutInv
<1> QED BY InitCopy, <1>1, <1>2, LayoutInductive, PTL DEF Spec
=============================================================================
