---------------------------- MODULE MCBlockDevice ----------------------------
(* Request sets for checking BlockDevice with 4-byte sectors on a 3-sector *)
(* disk: every branch of read and write is reachable at these sizes.       *)
EXTENDS BlockDevice

Req(kind, off, size, aligned) ==
    [kind |-> kind, off |-> off, size |-> size, aligned |-> aligned]

AllRanges == {<<o, n>> \in (0 .. DiskBytes) \X (0 .. DiskBytes) : o + n <= DiskBytes + 1}

\* Every request of either kind, on either buffer alignment.
AllRequests ==
    {Req(kd, r[1], r[2], a) : kd \in {"read", "write"}, r \in AllRanges, a \in BOOLEAN}

\* The shape of a range, independent of the branch logic under check:
\* whether it is whole sectors, and how many sector boundaries it crosses.
WholeSectors(r) == r.off % SS = 0 /\ r.size % SS = 0
Crossings(r) == (r.off + r.size) \div SS - r.off \div SS

\* The last sector a branch reads: the two-sector branch reads sector
\* off / SS + 1 and the multi-sector write reads the sector holding
\* off + size, even when the range ends on that sector's first byte.
\* Requests whose last sector is past the disk show a separate effect
\* (run read_disk_edge) and are left out of the other sets.
LastSectorRead(r) ==
    CASE ~WholeSectors(r) /\ Crossings(r) = 1 -> r.off \div SS + 1
      [] ~WholeSectors(r) /\ Crossings(r) > 1 /\ r.kind = "write" -> (r.off + r.size) \div SS
      [] OTHER -> 0
InsideDisk(r) == LastSectorRead(r) < SectorCount

\* Reads at even offsets, off the edge.
EvenReads ==
    {r \in AllRequests : r.kind = "read" /\ r.off % 2 = 0 /\ InsideDisk(r)}

\* Reads at even offsets, the edge included.
EdgeReads ==
    {r \in AllRequests : r.kind = "read" /\ r.off % 2 = 0}

\* Reads at odd offsets, off the edge.
OddReads ==
    {r \in AllRequests : r.kind = "read" /\ r.off % 2 = 1 /\ InsideDisk(r)}

\* Writes by branch, at even offsets and off the edge.
Writes(shape(_)) ==
    {r \in AllRequests : r.kind = "write" /\ r.off % 2 = 0 /\ InsideDisk(r) /\ shape(r)}
IsAligned(r) == WholeSectors(r)
IsSector(r) == ~WholeSectors(r) /\ Crossings(r) <= 1
IsMany(r) == ~WholeSectors(r) /\ Crossings(r) > 1
AlignedWrites == Writes(IsAligned)
SectorWrites == Writes(IsSector)
ManyWrites == Writes(IsMany)

\* The requests whose data the driver handles correctly.
DataRequests == EvenReads \cup SectorWrites
=============================================================================
