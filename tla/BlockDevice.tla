----------------------------- MODULE BlockDevice -----------------------------
(***************************************************************************)
(* sata_port_device::read and ::write (src/src/high/PCI/sata.cpp), the     *)
(* block interface over one AHCI port, composed with the port engine and   *)
(* the HBA of AhciPort.                                                    *)
(*                                                                         *)
(* One caller (the filesystem) issues requests one after another.  A       *)
(* request is [kind, off, size, aligned]: aligned is whether the caller's  *)
(* buffer address is even.  Each step of the driver is one port call and   *)
(* the local computation up to the next one; the HBA steps of AhciPort     *)
(* interleave with them.                                                   *)
(***************************************************************************)
EXTENDS AhciPort

CONSTANTS
    Requests,  \* the requests the caller may make
    MaxOps,    \* how many requests one behaviour makes
    None       \* model value: an empty optional<error_t>

SS == SectorSize

VARIABLES
    pc,      \* where the driver is in read / write, "idle" between calls
    rq,      \* the request being served
    tgt,     \* the buffer the request works on: "user", or "tmp" when bounced
    nsec,    \* sectors of sector_buffer on the one- and two-sector paths
    slot,    \* the slot the single-command paths wait for
    reg,     \* regions[3] of the multi-sector paths
    k,       \* the index of the for loops over regions
    err,     \* the optional<error_t> error of the multi-sector paths
    result,  \* what the last call returned: [ok |-> n] or [err |-> e]
    snap,    \* history: the disk when the call began
    owned,   \* history: [slot, cmd] of commands this call issued, not reaped
    nops     \* calls made so far

devVars == <<pc, rq, tgt, nsec, slot, reg, k, err, result, snap, owned, nops>>
vars == <<portVars, devVars>>

\* The bytes of a write request: byte j of the caller's buffer.
Data(n) == [j \in 1 .. n |-> DiskBytes + j - 1]
Gar(n) == [j \in 1 .. n |-> Garbage]
\* uint16_t pointer arithmetic: p + x / 2 is byte offset 2 * (x / 2)
W(x) == 2 * (x \div 2)

\* PCI::Sata::error_t values.  `return res.error()` converts them to the
\* size_t of result<size_t, file::device::error_t>, i.e. a byte count.
Code(e) == CASE e = "SUCCESS" -> 0 [] e = "OUT_OF_BOUNDS" -> 3
             [] e = "NO_RESOURCES" -> 7 [] e = "UNKNOWN_ERROR" -> 8

NoReq == [none |-> TRUE]
Uninit == [uninit |-> TRUE]
Waiting(rg) == {j \in 0 .. 2 : "slot" \in DOMAIN rg[j].req}
\* The next index of a for loop over 0..2 that visits the indices in S.
\* (Mutant: the loop does not advance past j.)
LoopNextStuck(j, S) == IF \E i \in S : i >= j THEN Min({i \in S : i >= j}) ELSE 3
LoopNext(j, S) == IF \E i \in S : i > j THEN Min({i \in S : i > j}) ELSE 3

\* Which branch of read / write serves [off, off + size).
\* (Mutant: the aligned branch ignores whether size is a multiple.)
PathOfNoSizeCheck(off, size) ==
    IF off % SS = 0 THEN "aligned"
    ELSE IF off \div SS = (off + size) \div SS THEN "one"
    ELSE IF off \div SS + 1 = (off + size) \div SS THEN "two"
    ELSE "many"
PathOf(off, size) ==
    IF off % SS = 0 /\ size % SS = 0 THEN "aligned"
    ELSE IF off \div SS = (off + size) \div SS THEN "one"
    ELSE IF off \div SS + 1 = (off + size) \div SS THEN "two"
    ELSE "many"

Reg3(a, b, c) == [j \in 0 .. 2 |-> IF j = 0 THEN a ELSE IF j = 1 THEN b ELSE c]
Region(o, s, bs, b, bo) == [offset |-> o, size |-> s, bsize |-> bs, buf |-> b, boff |-> bo, req |-> NoReq]

\* regions[] of read's multi-sector path.  (Mutant: the middle region
\* lands at the start of the caller's buffer.)
ReadRegionsNoHead(off, size, t) ==
    LET s0 == SS - (off % SS)
        s2 == (off + size) % SS
        s1 == size - s0 - s2
    IN  Reg3(Region(off, s0, SS, "start", 0),
             Region(off + s0, s1, s1, t, 0),
             Region(off + s0 + s1, s2, SS, "end", 0))
ReadRegions(off, size, t) ==
    LET s0 == SS - (off % SS)
        s2 == (off + size) % SS
        s1 == size - s0 - s2
    IN  Reg3(Region(off, s0, SS, "start", 0),
             Region(off + s0, s1, s1, t, W(s0)),
             Region(off + s0 + s1, s2, SS, "end", 0))

\* regions[] of write's multi-sector path
WriteRegions(off, size, t) ==
    LET s0 == SS - (off % SS)
        s1 == size - s0
        s2 == (off + size) % SS
    IN  Reg3(Region(off, s0, SS, "start", 0),
             [Region(off + s0, s1, s1, t, W(s0)) EXCEPT !.req = Uninit],
             Region(off + size - s2, s2, SS, "end", 0))

\* The stack arrays of each branch, with their C++ sizes.  (Mutant: the
\* uint16_t arrays are sized in bytes / 2 twice.)
StackBuffersHalf(r) ==
    LET p  == PathOf(r.off, r.size)
        s0 == SS - (r.off % SS)
        s2 == (r.off + r.size) % SS
    IN  CASE p = "one"  -> [sector |-> Gar(SS \div 2), start |-> <<>>, end |-> <<>>]
          [] p = "two"  -> [sector |-> Gar(SS), start |-> <<>>, end |-> <<>>]
          [] p = "many" /\ r.kind = "read" ->
                [sector |-> <<>>, start |-> Gar(SS \div 2), end |-> Gar(SS \div 2)]
          [] p = "many" -> [sector |-> <<>>, start |-> Gar(W(s0) \div 2), end |-> Gar(W(s2) \div 2)]
          [] OTHER -> [sector |-> <<>>, start |-> <<>>, end |-> <<>>]
StackBuffers(r) ==
    LET p  == PathOf(r.off, r.size)
        s0 == SS - (r.off % SS)
        s2 == (r.off + r.size) % SS
    IN  CASE p = "one"  -> [sector |-> Gar(SS), start |-> <<>>, end |-> <<>>]
          [] p = "two"  -> [sector |-> Gar(2 * SS), start |-> <<>>, end |-> <<>>]
          [] p = "many" /\ r.kind = "read" ->
                [sector |-> <<>>, start |-> Gar(SS), end |-> Gar(SS)]
          [] p = "many" -> [sector |-> <<>>, start |-> Gar(W(s0)), end |-> Gar(W(s2))]
          [] OTHER -> [sector |-> <<>>, start |-> <<>>, end |-> <<>>]

\* memcpy(dst + doff, src + soff, n) between memory objects
Memcpy(m, db, doff, sb, soff, n) ==
    [m EXCEPT ![db] = WriteMem(@, doff, ReadMem(m[sb], soff, n))]
CopyOverruns(m, db, doff, sb, soff, n) ==
    doff + n > Len(m[db]) \/ soff + n > Len(m[sb])

-----------------------------------------------------------------------------
Init ==
    /\ PortInit
    /\ pc = "idle"
    /\ rq = CHOOSE r \in Requests : TRUE
    /\ tgt = "user"
    /\ nsec = 1
    /\ slot = 0
    /\ reg = [j \in 0 .. 2 |-> Region(0, 0, 0, "user", 0)]
    /\ k = 0
    /\ err = None
    /\ result = NoReq
    /\ snap = disk
    /\ owned = {}
    /\ nops = 0

\* The command issued on slot s, as the driver remembers it.  On a
\* non-queued port the send first waited in wait_all until CI was empty,
\* so no earlier command of the call is still outstanding.
Own(s) == owned' = (IF QueueCapable THEN owned ELSE {}) \cup {[slot |-> s, cmd |-> cmds'[s]]}
Reap(s) == owned' = {o \in owned : o.slot # s}

\* Leaving read / write with res.  A bounced read copies the temporary
\* buffer to the caller's unless res is an error (memcpy(buffer, ptr, size)).
Return(res, m, ov) ==
    /\ result' = res
    /\ mem' = IF tgt = "tmp" /\ rq.kind = "read" /\ "ok" \in DOMAIN res
              THEN Memcpy(m, "user", 0, "tmp", 0, rq.size) ELSE m
    /\ overrun' = (ov \/ (tgt = "tmp" /\ rq.kind = "read" /\ "ok" \in DOMAIN res
                          /\ CopyOverruns(m, "user", 0, "tmp", 0, rq.size)))
    /\ pc' = "idle"
    /\ owned' = {}
    /\ nops' = nops + 1

\* Entry of read / write: the bounce through an even temporary buffer
\* (new uint16_t[size / 2 + 1], the caller's bytes copied in for a write),
\* the bounds check, and the choice of branch with its stack arrays.
StartOp(r) ==
    /\ pc = "idle" /\ nops < MaxOps
    /\ LET t   == IF r.aligned THEN "user" ELSE "tmp"
           sb  == StackBuffers(r)
           cap == 2 * (r.size \div 2 + 1)
           p   == PathOf(r.off, r.size)
           rg  == IF r.kind = "read" THEN ReadRegions(r.off, r.size, t)
                  ELSE WriteRegions(r.off, r.size, t)
       IN  /\ rq' = r /\ tgt' = t /\ snap' = disk /\ owned' = {} /\ err' = None
           /\ mem' = [b \in BufName |->
                        CASE b = "user" -> IF r.kind = "read" THEN Gar(r.size) ELSE Data(r.size)
                          [] b = "tmp"  -> IF r.aligned THEN mem[b]
                                           ELSE IF r.kind = "read" THEN Gar(cap)
                                           ELSE Data(r.size) \o Gar(cap - r.size)
                          [] OTHER      -> sb[b]]
           /\ IF r.off + r.size > DiskBytes
              THEN /\ result' = [err |-> "OUT_OF_BOUNDS"]
                   /\ pc' = "idle" /\ nops' = nops + 1
                   /\ UNCHANGED <<nsec, reg, k>>
              ELSE /\ pc' = CASE p = "aligned" -> "aligned_send"
                               [] p \in {"one", "two"} -> "sector_read"
                               [] r.kind = "read" -> "many_read_send"
                               [] OTHER -> "many_write_read0"
                   /\ nsec' = IF p = "two" THEN 2 ELSE 1
                   /\ reg' = rg
                   /\ k' = LoopNext(-1, {j \in 0 .. 2 : rg[j].size # 0})
                   /\ UNCHANGED <<result, nops>>
    /\ UNCHANGED <<ci, scheduled, serr, halted, cmds, disk, overrun, slot>>

\* A port send whose error ends the call, or whose slot goes to slot and
\* pc next.  An error code comes back as a byte count (Code).
SendThen(write, lba, size, b, o, next) ==
    LET r == SendResult(lba, size)
    IN  /\ SendReady(lba, size)
        /\ Send(write, lba, size, b, o)
        /\ IF "err" \in DOMAIN r
           THEN Return([ok |-> Code(r.err)], mem, overrun) /\ UNCHANGED slot
           ELSE /\ slot' = r.slot /\ pc' = next /\ Own(r.slot)
                /\ UNCHANGED <<mem, overrun, result, nops>>
        /\ UNCHANGED <<serr, halted, disk, rq, tgt, nsec, reg, k, err, snap>>

\* aligned branch: one command over the caller's buffer; a write passes
\* size / sector_size as its byte size.
AlignedSend ==
    /\ pc = "aligned_send"
    /\ SendThen(rq.kind = "write", rq.off \div SS,
                IF rq.kind = "read" THEN rq.size ELSE rq.size \div SS,
                tgt, 0, "aligned_wait")

\* wait_for on a single-command branch: false is DEVICE_UNAVAILABLE.
WaitThenReturn ==
    /\ pc \in {"aligned_wait", "sector_wwait"}
    /\ WaitReady(slot) /\ WaitFor(slot)
    /\ Return(IF WaitOk THEN [ok |-> rq.size] ELSE [err |-> "DEVICE_UNAVAILABLE"],
              mem, overrun)
    /\ UNCHANGED <<ci, serr, halted, cmds, disk, rq, tgt, nsec, slot, reg, k, err, snap>>

\* one- and two-sector branches: read the sector(s) into sector_buffer
SectorRead ==
    /\ pc = "sector_read"
    /\ SendThen(FALSE, rq.off \div SS, nsec * SS, "sector", 0, "sector_rwait")

\* ... wait, then copy out (read) or patch the caller's bytes in (write)
SectorReadWait ==
    /\ pc = "sector_rwait"
    /\ WaitReady(slot) /\ WaitFor(slot)
    /\ LET o == W(rq.off % SS)
       IN  IF ~WaitOk
           THEN Return([err |-> "DEVICE_UNAVAILABLE"], mem, overrun)
           ELSE IF rq.kind = "read"
           THEN Return([ok |-> rq.size], Memcpy(mem, tgt, 0, "sector", o, rq.size),
                       overrun \/ CopyOverruns(mem, tgt, 0, "sector", o, rq.size))
           ELSE /\ mem' = Memcpy(mem, "sector", o, tgt, 0, rq.size)
                /\ overrun' = (overrun \/ CopyOverruns(mem, "sector", o, tgt, 0, rq.size))
                /\ pc' = "sector_write"
                /\ Reap(slot)
                /\ UNCHANGED <<result, nops>>
    /\ UNCHANGED <<ci, serr, halted, cmds, disk, rq, tgt, nsec, slot, reg, k, err, snap>>

\* ... and write the patched sector(s) back
SectorWrite ==
    /\ pc = "sector_write"
    /\ SendThen(TRUE, rq.off \div SS, nsec * SS, "sector", 0, "sector_wwait")

\* The second for loop of the multi-sector branches begins: wait_for
\* every region whose request holds a slot.
EnterWait(rg) == pc' = "many_wait" /\ k' = LoopNext(-1, Waiting(rg))

\* The next iteration of the first loop of read, and of the write loop
\* of write; after the last region the wait loop begins.
ReadLoopNext(rg) ==
    IF LoopNext(k, {j \in 0 .. 2 : reg[j].size # 0}) = 3 THEN EnterWait(rg)
    ELSE /\ k' = LoopNext(k, {j \in 0 .. 2 : reg[j].size # 0}) /\ UNCHANGED pc
WriteLoopNext(rg) == IF k = 2 THEN EnterWait(rg) ELSE k' = k + 1 /\ UNCHANGED pc

\* A send of region j's command in one of the multi-sector loops; the
\* result lands in regions[j].request.  A failed send records the error
\* and breaks out of the loop.
SendRegion(write, j, lba, size, b, o) ==
    LET r == SendResult(lba, size)
        rg == [reg EXCEPT ![j].req = r]
    IN  /\ SendReady(lba, size)
        /\ Send(write, lba, size, b, o)
        /\ reg' = rg
        /\ IF "err" \in DOMAIN r
           THEN /\ err' = r.err /\ owned' = owned /\ EnterWait(rg)
           ELSE /\ Own(r.slot) /\ UNCHANGED err
                /\ IF write THEN WriteLoopNext(rg) ELSE ReadLoopNext(rg)

\* read, multi-sector: the first for loop issues every region of
\* non-zero size (head and tail into sector-sized stack arrays, the
\* middle straight into the caller's buffer).
ManyReadSend ==
    /\ pc = "many_read_send" /\ k < 3
    /\ SendRegion(FALSE, k, reg[k].offset \div SS, reg[k].bsize, reg[k].buf,
                  reg[k].boff)
    /\ UNCHANGED <<serr, halted, disk, mem, overrun, rq, tgt, nsec, slot, result, snap, nops>>

\* The second loop: wait_for each issued region; false sets
\* UNKNOWN_ERROR and breaks.
ManyWait ==
    /\ pc = "many_wait" /\ k < 3
    /\ LET s == reg[k].req.slot
       IN  /\ WaitReady(s) /\ WaitFor(s)
           /\ IF WaitOk
              THEN /\ k' = LoopNext(k, Waiting(reg)) /\ Reap(s) /\ UNCHANGED err
              ELSE /\ err' = "UNKNOWN_ERROR" /\ k' = 3 /\ UNCHANGED owned
    /\ UNCHANGED <<ci, serr, halted, cmds, disk, mem, overrun, pc, rq, tgt, nsec, slot, reg,
                   result, snap, nops>>

\* After the loops: an error is returned (as a byte count); a read copies
\* the head and tail out of the stack arrays.
ManyEnd ==
    /\ pc = "many_wait" /\ k = 3
    /\ LET m1 == Memcpy(mem, tgt, 0, "start", W(reg[0].offset % SS), reg[0].size)
           o2 == W(reg[0].size) + W(reg[1].size)
           m2 == Memcpy(m1, tgt, o2, "end", 0, reg[2].size)
           ov == \/ CopyOverruns(mem, tgt, 0, "start", W(reg[0].offset % SS), reg[0].size)
                 \/ CopyOverruns(m1, tgt, o2, "end", 0, reg[2].size)
       IN  IF err # None THEN Return([ok |-> Code(err)], mem, overrun)
           ELSE IF rq.kind = "read" THEN Return([ok |-> rq.size], m2, overrun \/ ov)
           ELSE Return([ok |-> rq.size], mem, overrun)
    /\ UNCHANGED <<ci, scheduled, serr, halted, cmds, disk, rq, tgt, nsec, slot, reg, k, err, snap>>

\* write, multi-sector: read the first and the last sector into the
\* head and tail stack arrays, without waiting for either; both requests
\* are made before either result is looked at.
ReadEdge(j, next) ==
    LET r == SendResult(reg[j].offset \div SS, SS)
    IN  /\ SendReady(reg[j].offset \div SS, SS)
        /\ Send(FALSE, reg[j].offset \div SS, SS, reg[j].buf, 0)
        /\ reg' = [reg EXCEPT ![j].req = r]
        /\ IF "slot" \in DOMAIN r THEN Own(r.slot) ELSE UNCHANGED owned
        /\ pc' = next
ManyWriteRead0 ==
    /\ pc = "many_write_read0"
    /\ ReadEdge(0, "many_write_read2")
    /\ UNCHANGED <<serr, halted, disk, mem, overrun, rq, tgt, nsec, slot, k, err, result, snap, nops>>
ManyWriteRead2 ==
    /\ pc = "many_write_read2"
    /\ ReadEdge(2, "many_write_check")
    /\ UNCHANGED <<serr, halted, disk, mem, overrun, rq, tgt, nsec, slot, k, err, result, snap, nops>>

\* Both reads were requested: a failed one ends the call after waiting for
\* the other ("finish working request"); otherwise the caller's bytes are
\* copied into the head and tail arrays, the reads still in flight.
Drain(s, e) ==
    /\ pc' = "many_write_drain" /\ slot' = s /\ err' = e
    /\ UNCHANGED <<mem, overrun, result, nops, owned, k>>
ManyWriteCheck ==
    /\ pc = "many_write_check"
    /\ LET r0 == reg[0].req
           r2 == reg[2].req
           o0 == W(reg[0].offset % SS)
           o2 == W(reg[0].size + reg[1].size)
           m1 == Memcpy(mem, "start", o0, tgt, 0, reg[0].size)
           m2 == Memcpy(m1, "end", 0, tgt, o2, reg[2].size)
           ov == \/ CopyOverruns(mem, "start", o0, tgt, 0, reg[0].size)
                 \/ CopyOverruns(m1, "end", 0, tgt, o2, reg[2].size)
       IN  CASE "err" \in DOMAIN r0 /\ "slot" \in DOMAIN r2 -> Drain(r2.slot, r0.err)
             [] "err" \in DOMAIN r0 ->
                   Return([ok |-> Code(r0.err)], mem, overrun) /\ UNCHANGED <<slot, err, k>>
             [] "err" \in DOMAIN r2 /\ "slot" \in DOMAIN r0 -> Drain(r0.slot, r2.err)
             [] "err" \in DOMAIN r2 ->
                   Return([ok |-> Code(r2.err)], mem, overrun) /\ UNCHANGED <<slot, err, k>>
             [] OTHER ->
                   /\ mem' = m2 /\ overrun' = (overrun \/ ov)
                   /\ pc' = "many_write_send" /\ k' = 0
                   /\ UNCHANGED <<slot, err, result, nops, owned>>
    /\ UNCHANGED <<ci, scheduled, serr, halted, cmds, disk, rq, tgt, nsec, reg, snap>>

ManyWriteDrain ==
    /\ pc = "many_write_drain"
    /\ WaitReady(slot) /\ WaitFor(slot)
    /\ Return([ok |-> Code(err)], mem, overrun)
    /\ UNCHANGED <<ci, serr, halted, cmds, disk, rq, tgt, nsec, slot, reg, k, err, snap>>

\* The write loop visits every region whose request has_value(): head and
\* tail hold their read's slot; the middle's request was never assigned,
\* so has_value() reads an uninitialised flag and may be either.
ManyWriteSend ==
    /\ pc = "many_write_send" /\ k < 3
    /\ \E h \in IF reg[k].req = Uninit THEN BOOLEAN ELSE {"slot" \in DOMAIN reg[k].req} :
         IF h
         THEN SendRegion(TRUE, k, reg[k].offset \div SS, reg[k].bsize, reg[k].buf,
                         reg[k].boff)
         ELSE WriteLoopNext(reg) /\ UNCHANGED <<ci, scheduled, cmds, reg, err, owned>>
    /\ UNCHANGED <<serr, halted, disk, mem, overrun, rq, tgt, nsec, slot, result, snap, nops>>

\* The caller has made all its requests and the HBA is idle or stopped.
Terminating ==
    /\ pc = "idle" /\ nops = MaxOps /\ (ci = {} \/ halted)
    /\ UNCHANGED vars

Driver ==
    \/ AlignedSend \/ WaitThenReturn
    \/ SectorRead \/ SectorReadWait \/ SectorWrite
    \/ ManyReadSend \/ ManyWait \/ ManyEnd
    \/ ManyWriteRead0 \/ ManyWriteRead2 \/ ManyWriteCheck \/ ManyWriteDrain \/ ManyWriteSend

Hba(s) == Complete(s) /\ UNCHANGED devVars

Next ==
    \/ \E r \in Requests : StartOp(r)
    \/ Driver
    \/ \E s \in Slot : Hba(s)
    \/ (SerrNotice \/ FatalError) /\ UNCHANGED devVars
    \/ Terminating

\* The driver thread runs whenever it can leave a busy-wait; a running
\* HBA finishes every command it was given (errors have no fairness).
Spec == Init /\ [][Next]_vars /\ WF_vars(Driver) /\ \A s \in Slot : WF_vars(Hba(s))

-----------------------------------------------------------------------------
PCs == {"idle", "aligned_send", "aligned_wait", "sector_read", "sector_rwait",
        "sector_write", "sector_wwait", "many_read_send", "many_wait",
        "many_write_read0", "many_write_read2", "many_write_check",
        "many_write_drain", "many_write_send"}

TypeOK ==
    /\ PortTypeOK
    /\ pc \in PCs
    /\ rq \in Requests
    /\ tgt \in {"user", "tmp"}
    /\ nsec \in {1, 2}
    /\ slot \in Slot
    /\ k \in 0 .. 3
    /\ err \in {None, "SUCCESS", "OUT_OF_BOUNDS", "NO_RESOURCES", "UNKNOWN_ERROR"}
    /\ nops \in 0 .. MaxOps
    /\ \A o \in owned : o.slot \in Slot

Returning == pc # "idle" /\ pc' = "idle"

\* Every command the current call issued and has not reaped still sits,
\* unchanged, in a slot of its own: find_free_slot never hands a slot
\* that the driver will still wait for to a second command.  Breaking it
\* takes two outstanding commands and a completion the driver has not
\* yet reaped.
ReqOwnsSlot ==
    \A o1, o2 \in owned :
        /\ cmds[o1.slot] = o1.cmd
        /\ (o1.slot = o2.slot => o1 = o2)

\* A read that reports n bytes has put the disk's bytes off .. off+n-1
\* into the caller's buffer.
ReadCorrect ==
    [][Returning /\ rq.kind = "read" /\ "ok" \in DOMAIN result'
        => \A j \in 0 .. result'.ok - 1 :
              /\ j < Len(mem'["user"])
              /\ rq.off + j < DiskBytes
              /\ mem'["user"][j + 1] = snap[rq.off + j]]_vars

\* A write that reports n bytes has put the caller's first n bytes on the
\* disk at off and left every other byte of the disk as it was.
WriteCorrect ==
    [][Returning /\ rq.kind = "write" /\ "ok" \in DOMAIN result'
        => \A p \in DOMAIN disk :
              disk'[p] = IF rq.off <= p /\ p < rq.off + result'.ok
                         THEN DiskBytes + (p - rq.off) ELSE snap[p]]_vars

\* No DMA transfer and no memcpy of read / write runs past the end of the
\* stack array or buffer it addresses.
NoBufferOverrun == ~overrun

\* When read / write returns, no command it issued is still owned by the
\* HBA: no DMA continues into its stack arrays or the caller's buffer.
ReturnsQuiescent ==
    [][Returning => \A o \in owned : o.slot \notin ci']_vars

\* Every call of read / write returns, unless the HBA stopped on an error
\* that set no PxSERR bit: wait_for and wait_all leave their loops only on
\* a clear CI bit or a non-zero PxSERR, and must see each of them.
OpTerminates == pc # "idle" ~> (pc = "idle" \/ TaskFileHang)

\* Every call of read / write returns (spec 5: test_done reads TFD and
\* SERR, and a port error propagates).
OpReturns == pc # "idle" ~> pc = "idle"
=============================================================================
