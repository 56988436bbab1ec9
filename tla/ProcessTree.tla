---------------------------- MODULE ProcessTree ----------------------------
(***************************************************************************)
(* The process capability tree of src/src/high/process/process.cpp and the *)
(* reference counting of src/include/features/smart_pointer.h it rests on. *)
(*                                                                         *)
(* A process owns its children (shared_ptr) and holds weak_ptrs to its     *)
(* parent, its adopter, its friends, its pending adoptions, itself (self)  *)
(* and, through main_thread.owner, itself again.  Each process has one     *)
(* control block (ref_count) made when it was created; the model keeps the *)
(* strong count as the number of owning list entries held by live objects  *)
(* and the weak count as the number of weak_ptrs held by live objects,     *)
(* minus the decrements weak_ptr::reset made without dropping its ref      *)
(* (deficit).  A pid lookup returns a raw process*, which the implicit     *)
(* converting shared_ptr constructor wraps in a second, fresh block: the    *)
(* object is deleted when that temporary dies at the end of the call, and  *)
(* a weak_ptr taken from it is FreshRef, never lockable again.             *)
(*                                                                         *)
(* A syscall runs under the global syscall lock with preemption off, so    *)
(* each handler is one step.  A handler that hits undefined behaviour      *)
(* (use after free, null dereference, unbounded recursion) or a panic      *)
(* stops the model in a state that records the fault.                      *)
(***************************************************************************)
EXTENDS Integers, Sequences, FiniteSets, SequencesExt

CONSTANTS
    MaxProcs,    \* next_pid may hand out the pids 0 .. MaxProcs - 1
    MaxEntries,  \* bound on the friends and pending_adoption lists
    Numbers      \* the pids callers pass as NUMBER descriptors

ASSUME MaxProcs \in Nat /\ MaxProcs >= 2 /\ MaxEntries \in Nat
       /\ Numbers \subseteq 0 .. MaxProcs - 1

Pid == 0 .. MaxProcs - 1
Root == 0          \* kernel_process (start.cpp), held by a global shared_ptr
Main == 1          \* the process from_elf loads from /main
NoProc == -1       \* nullptr, or a weak_ptr whose lock() fails
FreshRef == -5     \* a weak_ptr into a control block a pid lookup made up
\* outcomes of a step that stops the kernel, and of adopt's refusal
Uaf == -2
Overflow == -3
NullDeref == -4
Refused == -6
PanicCode == -7
IsFault(r) == r \in {Uaf, Overflow, NullDeref, PanicCode}
FaultName(r) ==
    CASE r = Uaf -> "uaf" [] r = Overflow -> "overflow"
      [] r = NullDeref -> "null_deref" [] OTHER -> "panic"

\* process_descriptor: SHORT_DESCRIPTOR self / parent, or NUMBER pid.
\* (STRING descriptors resolve through find_process, which also returns a
\* raw process*; names are not modelled.)
SELF == -10
PARENT == -11
Descriptor == {SELF, PARENT} \cup Numbers

VARIABLES
    next,        \* next_pid
    freed,       \* pids whose process object has been deleted
    blockFreed,  \* pids whose control block (ref_count) has been deleted
    parent,      \* weak_ptr parent (the pid its ref names)
    children,    \* linked_list<shared_ptr<process>> children
    friends,     \* linked_list<weak_ptr<process>> friends
    pending,     \* linked_list<weak_ptr<process>> pending_adoption
    adopter,     \* weak_ptr adopter (the pid its ref names)
    deficit,     \* per control block: weak_count decrements with the ref kept
    fault        \* "none", or how the kernel stopped

vars == <<next, freed, blockFreed, parent, children, friends, pending, adopter, deficit, fault>>

Created == 0 .. next - 1
Live == Created \ freed
\* The scheduler (declared in scheduler.h, not implemented) runs the user
\* processes whose objects exist, until the kernel stops; the root is the
\* kernel itself.
Runnable == IF fault = "none" THEN Live \ {Root} ELSE {}

Occ(s, p) == Cardinality({i \in 1 .. Len(s) : s[i] = p})

\* strong_count of p's block when L are the live objects: the children
\* entries they hold, plus the global kernel_process for the root.
\* (Holding(L, f, p): the list positions <<h, i>> of the live holders'
\* lists f that name p)
Holding(L, f, p) == UNION {{<<h, i>> : i \in {j \in DOMAIN f[h] : f[h][j] = p}} : h \in L}
StrongIn(p, L, ch) ==
    (IF p = Root THEN 1 ELSE 0) + Cardinality(Holding(L, ch, p))

\* The weak_ptrs live objects hold into p's block: self and
\* main_thread.owner, parent, friends, pending_adoption and adopter.
WeakIn(p, L, fr, pe, ad) ==
    (IF p \in L THEN 2 ELSE 0)
    + Cardinality({h \in L : parent[h] = p}) + Cardinality({h \in L : ad[h] = p})
    + Cardinality(Holding(L, fr, p)) + Cardinality(Holding(L, pe, p))

Strong(p) == StrongIn(p, Live, children)
WeakCount(p) == WeakIn(p, Live, friends, pending, adopter) - deficit[p]

\* weak_ptr::lock(): null for an empty or fresh ref or a zero strong
\* count; reading a deleted block is a use after free.
LockE(e) ==
    CASE e \in {NoProc, FreshRef} -> NoProc
      [] e \in blockFreed         -> Uaf
      [] Strong(e) = 0            -> NoProc
      [] OTHER                    -> e

\* Dereferencing a pointer to p (p->pid, p->children, ...).
Deref(p) == IF p \in freed THEN Uaf ELSE p

\* The first element of s whose visit V does not say "go on" (NoProc),
\* with its index; a for loop with an early return.
FirstIdx(s, V(_)) == SelectInSeq(s, LAMBDA e : V(e) # NoProc)
FirstHit(s, V(_)) == LET k == FirstIdx(s, V) IN IF k = 0 THEN NoProc ELSE V(s[k])
Either(a, b) == IF a # NoProc THEN a ELSE b

\* `if (auto ptr = w.lock(); ptr && ptr->pid == n) return ptr.get();`
WeakMatch(e, n) ==
    LET q == LockE(e)
    IN  IF q \in {Uaf, NoProc} THEN q
        ELSE IF Deref(q) = Uaf THEN Uaf
        ELSE IF q = n THEN q ELSE NoProc

\* get_process_by_descriptor(NUMBER n) on process x: x itself, its parent,
\* its children, live friends and pending adoptions, then the same search
\* from each child and each live friend.  A call that reaches a process
\* already on its own call stack (a friend cycle) recurses without end.
RECURSIVE Find(_, _, _)
Find(x, n, stk) ==
    IF x \in stk THEN Overflow
    ELSE IF x = n THEN x
    ELSE LET up    == LockE(parent[x])
             upHit == IF up \in {Uaf, NoProc} THEN up
                      ELSE IF Deref(up) = Uaf THEN Uaf
                      ELSE IF up = n THEN up ELSE NoProc
             kid(c) == IF Deref(c) = Uaf THEN Uaf ELSE IF c = n THEN c ELSE NoProc
             weak(e) == WeakMatch(e, n)
             down(c) == Find(c, n, stk \cup {x})
             across(e) == LET q == LockE(e) IN IF q \in {NoProc, Uaf} THEN q ELSE down(q)
         IN  Either(upHit,
             Either(FirstHit(children[x], kid),
             Either(FirstHit(friends[x], weak),
             Either(FirstHit(pending[x], weak),
             Either(FirstHit(children[x], down),
                    FirstHit(friends[x], across))))))

\* The process a descriptor names for caller c, and whether the result
\* is a raw pointer turned into a fresh owning shared_ptr.
Lookup(c, d) ==
    CASE d = SELF   -> [p |-> c, fresh |-> FALSE]
      [] d = PARENT -> [p |-> LockE(parent[c]), fresh |-> FALSE]
      [] OTHER        -> LET r == Find(c, d, {}) IN [p |-> r, fresh |-> r \in Pid]

\* The weak_ptr a call stores for a looked-up process, and the objects
\* its fresh shared_ptr deletes when the call returns.
Ref(l) == IF l.fresh THEN FreshRef ELSE l.p
FreshOf(l) == IF l.fresh THEN {l.p} ELSE {}

-----------------------------------------------------------------------------
\* proc::from_elf(file) on /main: nullptr when the header's magic, class,
\* data encoding or machine is wrong, before any process is made; a panic
\* for a loadable segment above upper_bound or when PhysicalAllocator
\* cannot back a segment or the stack, after `new process()`; else the
\* process, its segments and stack mapped and self and main_thread.owner
\* set.  The file's bytes are abstracted to which of the three it is.
FromElf == {"process", "null", "panic"}

\* initProcess, with one filesystem holding /main.  A null result is
\* pushed into the root's children and then dereferenced by
\* `process->parent = kernel_process`; the kernel stops there.
Init ==
    /\ \E elf \in FromElf :
          /\ next = IF elf = "null" THEN 1 ELSE 2
          \* kernel_process->parent = kernel_process; process->parent = kernel_process
          /\ parent = [p \in Pid |-> IF p = Root \/ (p = Main /\ elf = "process")
                                     THEN Root ELSE NoProc]
          /\ children = [p \in Pid |-> IF p = Root /\ elf = "process" THEN <<Main>> ELSE <<>>]
          /\ fault = CASE elf = "process" -> "none"
                        [] elf = "null"    -> FaultName(NullDeref)
                        [] OTHER           -> FaultName(PanicCode)
    /\ freed = {}
    /\ blockFreed = {}
    /\ friends = [p \in Pid |-> <<>>]
    /\ pending = [p \in Pid |-> <<>>]
    /\ adopter = [p \in Pid |-> NoProc]
    /\ deficit = [p \in Pid |-> 0]

\* The objects deleted once the objects X are: an object whose strong count
\* drops to zero is deleted, and its destructor drops its children list.
RECURSIVE Close(_, _)
Close(X, ch) ==
    LET more == {p \in Created \ X : StrongIn(p, Created \ X, ch) = 0}
    IN  IF more = {} THEN X ELSE Close(X \cup more, ch)

\* The end of a call, when its local shared_ptrs and the list entries it
\* removed are destroyed.  ch, fr, pe, ad, df are the fields after the
\* call's own changes, direct the objects its fresh shared_ptrs delete and
\* twice whether two of those delete the same object.
\*   shared_ptr::reset: strong_count reaches 0, do_delete runs the process
\*   destructor, whose weak_ptr members may bring weak_count to 0 and
\*   delete the block, which reset then reads and deletes again.
\*   weak_ptr::reset: weak_count 0 on entry panics ("invalid count"); the
\*   last weak_ptr of a block without owners deletes it.
Settle(ch, fr, pe, ad, df, direct, twice) ==
    LET dead  == Close(freed \cup direct, ch)
        drop  == dead \ (freed \cup direct)
        L     == Created \ dead
        wcF   == [p \in Pid |-> WeakIn(p, L, fr, pe, ad) - df[p]]
        stF   == [p \in Pid |-> StrongIn(p, L, ch)]
        wc(p) == wcF[p]
        st(p) == stF[p]
        again == \/ twice
                 \/ direct \cap freed # {}
                 \/ \E p \in drop : wc(p) <= 0
                 \/ \E p \in freed \cup direct : Strong(p) > 0 /\ st(p) = 0
        panicked == \E p \in L : wc(p) < 0
        stale == \/ \E p \in blockFreed : wc(p) < WeakCount(p)
                 \/ \E p \in dead \ (drop \cup blockFreed) : st(p) = 0 /\ wc(p) < 0
    IN  /\ children' = ch /\ friends' = fr /\ pending' = pe
        /\ adopter' = ad /\ deficit' = df
        /\ freed' = dead
        /\ blockFreed' = blockFreed \cup {p \in dead : st(p) = 0 /\ wc(p) <= 0}
        /\ fault' = CASE again -> "double_free" [] panicked -> "panic"
                       [] stale -> "uaf" [] OTHER -> "none"
        /\ UNCHANGED <<next, parent>>

Fault(r) ==
    /\ fault' = FaultName(r)
    /\ UNCHANGED <<next, freed, blockFreed, parent, children, friends, pending, adopter, deficit>>

-----------------------------------------------------------------------------
\* Resolving the descriptor that adopt, make_friend, list_processes,
\* ask_abilities and send_message start with stops the kernel.
LookupFault(c, l) ==
    /\ IsFault(l.p)
    /\ Fault(l.p)

\* (Mutant: the child takes ++next_pid instead of next_pid++.)
CreateChildPreIncrement(c) ==
    /\ next < MaxProcs
    /\ next' = next + 1
    /\ parent' = [parent EXCEPT ![next + 1] = c]
    /\ children' = [children EXCEPT ![c] = Append(@, next + 1)]
    /\ UNCHANGED <<freed, blockFreed, friends, pending, adopter, deficit, fault>>

\* on_syscall_create_child: a process with the next pid, whose parent is
\* the caller, appended to the caller's children and scheduled.
CreateChild(c) ==
    /\ next < MaxProcs
    /\ next' = next + 1
    /\ parent' = [parent EXCEPT ![next] = c]
    /\ children' = [children EXCEPT ![c] = Append(@, next)]
    /\ UNCHANGED <<freed, blockFreed, friends, pending, adopter, deficit, fault>>

\* The loops of on_syscall_disown(NUMBER n): child->pid, and
\* friend_proc->pid / adopt_proc->pid with no null check.
ChildMatch(x, n) == IF Deref(x) = Uaf THEN Uaf ELSE IF x = n THEN x ELSE NoProc
EntryMatch(e, n) ==
    LET q == LockE(e)
    IN  CASE q = NoProc -> NullDeref
          [] q = Uaf \/ Deref(q) = Uaf -> Uaf
          [] q = n -> q
          [] OTHER -> NoProc

\* process::handle_disown() of t: when t's adopter is alive and still lists
\* t as a pending adoption, that entry moves to the adopter's children.
HandleDisown(t) ==
    LET a    == LockE(adopter[t])
        m(e) == LET q == LockE(e) IN IF q = Uaf THEN Uaf ELSE IF q = t THEN q ELSE NoProc
        j    == IF a \in Pid THEN FirstIdx(pending[a], m) ELSE 0
    IN  [f  |-> CASE a = Uaf -> Uaf
                  [] a \in Pid /\ Deref(a) = Uaf -> Uaf
                  [] j > 0 /\ m(pending[a][j]) = Uaf -> Uaf
                  [] OTHER -> NoProc,
         ch |-> IF j > 0 THEN [children EXCEPT ![a] = Append(@, t)] ELSE children,
         pe |-> IF j > 0 THEN [pending EXCEPT ![a] = RemoveAt(@, j)] ELSE pending]

\* (Mutant: the child is not removed from the caller's list.)
DisownChildNoRemove(c, n) ==
    LET k == FirstIdx(children[c], LAMBDA x : ChildMatch(x, n))
        h == HandleDisown(n)
    IN  /\ k > 0
        /\ IF ChildMatch(children[c][k], n) = Uaf THEN Fault(Uaf)
           ELSE IF h.f # NoProc THEN Fault(h.f)
           ELSE Settle(h.ch, friends, h.pe, adopter, deficit, {}, FALSE)

\* disown(NUMBER n) of one of the caller's children: handle_disown, then
\* children.remove(index); the child dies unless it was promoted.
DisownChild(c, n) ==
    LET k == FirstIdx(children[c], LAMBDA x : ChildMatch(x, n))
        h == HandleDisown(n)
    IN  /\ k > 0
        /\ IF ChildMatch(children[c][k], n) = Uaf THEN Fault(Uaf)
           ELSE IF h.f # NoProc THEN Fault(h.f)
           ELSE Settle([h.ch EXCEPT ![c] = RemoveAt(@, k)], friends, h.pe,
                       adopter, deficit, {}, FALSE)

\* disown(NUMBER n) of a friend: no child is n; friends.remove(index).
DisownFriend(c, n) ==
    LET k == FirstIdx(friends[c], LAMBDA e : EntryMatch(e, n))
    IN  /\ FirstIdx(children[c], LAMBDA x : ChildMatch(x, n)) = 0
        /\ k > 0
        /\ IF IsFault(EntryMatch(friends[c][k], n)) THEN Fault(EntryMatch(friends[c][k], n))
           ELSE Settle(children, [friends EXCEPT ![c] = RemoveAt(@, k)], pending,
                       adopter, deficit, {}, FALSE)

\* target->adopter.reset(): weak_count is decremented, but ref is only
\* cleared when the block is deleted, so lock() still finds a live adopter.
ResetAdopter(t) ==
    LET r0 == adopter[t]
    IN  CASE r0 = NoProc -> [f |-> NoProc, ad |-> adopter, df |-> deficit]
          [] r0 \in blockFreed -> [f |-> Uaf, ad |-> adopter, df |-> deficit]
          [] WeakCount(r0) = 0 -> [f |-> PanicCode, ad |-> adopter, df |-> deficit]
          [] WeakCount(r0) = 1 /\ Strong(r0) = 0 ->
                [f |-> NoProc, ad |-> [adopter EXCEPT ![t] = NoProc], df |-> deficit]
          [] OTHER -> [f |-> NoProc, ad |-> adopter, df |-> [deficit EXCEPT ![r0] = @ + 1]]

\* disown(NUMBER n) of a pending adoption: neither a child nor a friend is
\* n; the target's adopter is reset and pending_adoption.remove(index).
DisownPending(c, n) ==
    LET k == FirstIdx(pending[c], LAMBDA e : EntryMatch(e, n))
        r == IF k > 0 THEN EntryMatch(pending[c][k], n) ELSE NoProc
        z == ResetAdopter(r)
    IN  /\ FirstIdx(children[c], LAMBDA x : ChildMatch(x, n)) = 0
        /\ FirstIdx(friends[c], LAMBDA e : EntryMatch(e, n)) = 0
        /\ k > 0
        /\ IF IsFault(r) THEN Fault(r)
           ELSE IF z.f # NoProc THEN Fault(z.f)
           ELSE Settle(children, friends, [pending EXCEPT ![c] = RemoveAt(@, k)],
                       z.ad, z.df, {}, FALSE)

\* disown(STRING "<list>:<name>"): names are set freely by set_name, so the
\* entry whose name matches first is any index k of the list (0: none); the
\* loop reads the name of every entry up to k (all of them for none), the
\* weak ones through lock() with no null check.  An earlier entry naming
\* the same process would have matched first.
NameRead(e) == EntryMatch(e, NoProc)
ByName(s, k) ==
    LET scanned == IF k = 0 THEN s ELSE SubSeq(s, 1, k)
    IN  [f |-> FirstHit(scanned, NameRead),
         t |-> IF k = 0 THEN NoProc ELSE LockE(s[k]),
         first |-> k = 0 \/ \A j \in 1 .. k - 1 : LockE(s[j]) # LockE(s[k])]

\* "child:<name>": the loop returns as soon as the name matches, before
\* handle_disown and children.remove, so only the names it reads matter:
\* the call changes nothing unless one of them is a freed child's.
DisownChildByName(c, k) ==
    LET scanned == IF k = 0 THEN children[c] ELSE SubSeq(children[c], 1, k)
    IN  /\ k <= Len(children[c])
        /\ IF \E x \in ToSet(scanned) : Deref(x) = Uaf THEN Fault(Uaf)
           ELSE UNCHANGED vars

\* "friend:<name>": friends.remove(index) of the first match.
DisownFriendByName(c, k) ==
    LET b == ByName(friends[c], k)
    IN  /\ k <= Len(friends[c])
        /\ IF b.f # NoProc THEN Fault(b.f)
           ELSE /\ k > 0 /\ b.first
                /\ Settle(children, [friends EXCEPT ![c] = RemoveAt(@, k)], pending,
                          adopter, deficit, {}, FALSE)

\* "adoption:<name>": target->adopter.reset(), then
\* pending_adoption.remove(index), as for a NUMBER.
DisownPendingByName(c, k) ==
    LET b == ByName(pending[c], k)
        z == ResetAdopter(b.t)
    IN  /\ k <= Len(pending[c])
        /\ IF b.f # NoProc THEN Fault(b.f)
           ELSE /\ k > 0 /\ b.first
                /\ IF z.f # NoProc THEN Fault(z.f)
                   ELSE Settle(children, friends, [pending EXCEPT ![c] = RemoveAt(@, k)],
                               z.ad, z.df, {}, FALSE)

\* The walk in on_syscall_adopt from the target's parent upwards: it stops
\* at a dead parent or at the root (its own parent) and refuses when it
\* meets the target, which it never does, as it starts above the target.
RECURSIVE AncestorWalk(_, _)
AncestorWalk(p, t) ==
    IF p = NoProc THEN NoProc
    ELSE IF p = Uaf \/ Deref(p) = Uaf THEN Uaf
    ELSE LET pp == LockE(parent[p])
         IN  IF pp = Uaf THEN Uaf
             ELSE IF p = pp THEN NoProc
             ELSE IF t = p THEN Refused
             ELSE AncestorWalk(pp, t)

\* (Mutant: a target with a live adopter is not refused.)
AdoptCheckNoAdopter(c, t) ==
    IF t = c THEN Refused
    ELSE IF Deref(t) = Uaf THEN Uaf
    ELSE AncestorWalk(LockE(parent[t]), t)

\* The checks of on_syscall_adopt on target t: not self, not an ancestor
\* (the walk), no live adopter.
AdoptCheck(c, t) ==
    IF t = c THEN Refused
    ELSE IF Deref(t) = Uaf THEN Uaf
    ELSE LET w == AncestorWalk(LockE(parent[t]), t)
             a == LockE(adopter[t])
         IN  IF w # NoProc THEN w
             ELSE IF a = Uaf THEN Uaf
             ELSE IF a # NoProc THEN Refused
             ELSE NoProc

\* adopt(d): target->adopter = proc; proc->pending_adoption.push_back(target).
Adopt(c, l) ==
    LET r == AdoptCheck(c, l.p)
    IN  /\ l.p \in Pid
        /\ IF IsFault(r) THEN Fault(r)
           ELSE IF r = Refused
           THEN Settle(children, friends, pending, adopter, deficit, FreshOf(l), FALSE)
           ELSE /\ Len(pending[c]) < MaxEntries
                /\ Settle(children, friends, [pending EXCEPT ![c] = Append(@, Ref(l))],
                          [adopter EXCEPT ![l.p] = c], deficit, FreshOf(l), FALSE)

\* make_friend(A, B): targetB->friends.push_back(targetA), given the
\* results a and b of the two lookups, which both run before the null
\* check; two fresh shared_ptrs to one object both delete it.
MakeFriend(c, a, b) ==
    LET direct == FreshOf(a) \cup FreshOf(b)
        twice  == a.fresh /\ b.fresh /\ a.p = b.p
    IN  /\ ~IsFault(a.p) /\ ~IsFault(b.p)
        /\ IF a.p = NoProc \/ b.p = NoProc
           THEN Settle(children, friends, pending, adopter, deficit, direct, twice)
           ELSE IF Deref(b.p) = Uaf THEN Fault(Uaf)
           ELSE /\ Len(friends[b.p]) < MaxEntries
                /\ Settle(children, [friends EXCEPT ![b.p] = Append(@, Ref(a))],
                          pending, adopter, deficit, direct, twice)

\* list_processes(d): cleanup_dead() on the target drops the friends and
\* pending entries whose lock() fails, then the children, live friends
\* and live pending adoptions are each dereferenced for their pid (the
\* caller's buffer is taken to be large enough).
\* cleanup_dead: drop the weak entries of a list whose lock() fails
CleanupDead(es) == SelectSeq(es, LAMBDA e : LockE(e) # NoProc)

ListProcesses(c, l) ==
    LET t    == l.p
        weak == friends[t] \o pending[t]
        seen == ToSet(children[t]) \cup {LockE(e) : e \in ToSet(weak)}
    IN  /\ t \in Pid
        /\ IF \/ Deref(t) = Uaf
              \/ \E e \in ToSet(weak) : LockE(e) = Uaf
              \/ \E x \in seen \cap Pid : Deref(x) = Uaf
           THEN Fault(Uaf)
           ELSE Settle(children, [friends EXCEPT ![t] = CleanupDead(@)],
                       [pending EXCEPT ![t] = CleanupDead(@)],
                       adopter, deficit, FreshOf(l), FALSE)

\* ask_abilities(d) for another process reads proc->methods.size with no
\* null check and copies the descriptors out.  For SELF it clears the
\* caller's methods and builds each descriptor into a local `result` that
\* is never pushed: a user process never has methods, only the root's
\* kernel methods (initProcess) exist.
AskAbilities(c, d, l) ==
    /\ d # SELF /\ ~IsFault(l.p)
    /\ IF l.p = NoProc THEN Fault(NullDeref)
       ELSE IF Deref(l.p) = Uaf THEN Fault(Uaf)
       ELSE Settle(children, friends, pending, adopter, deficit, FreshOf(l), FALSE)

\* The methods table: add, printStr, printInt and panic on the root
\* (initProcess, add_kernel_method), none on any other process.
RootMethods == <<"add", "printStr", "printInt", "panic">>
Methods(p) == IF p = Root THEN RootMethods ELSE <<>>

\* send_message(d): after the null check a method id out of range is
\* refused; else the arguments are mapped into a window of the target,
\* proc->load() and call_indirect run the method, and cleanup() drops the
\* window entries and working_in's copy of proc; then the local
\* shared_ptr dies.  The window only touches the page tables and
\* method_call_argument_memory, which every path empties again.  Any
\* method id but the root's panic ends the same way; panic stops the
\* kernel.
SendMessage(c, l) ==
    /\ l.p \in Pid
    /\ IF Deref(l.p) = Uaf THEN Fault(Uaf)
       ELSE \/ Settle(children, friends, pending, adopter, deficit, FreshOf(l), FALSE)
            \/ /\ \E m \in DOMAIN Methods(l.p) : Methods(l.p)[m] = "panic"
               /\ Fault(PanicCode)

\* The kernel has stopped, or no user process is left to run.
Halt ==
    /\ Runnable = {}
    /\ UNCHANGED vars

Next ==
    \/ \E c \in Runnable : CreateChild(c)
    \/ \E c \in Runnable, n \in Pid : DisownChild(c, n)
    \/ \E c \in Runnable, n \in Pid : DisownFriend(c, n)
    \/ \E c \in Runnable, n \in Pid : DisownPending(c, n)
    \/ \E c \in Runnable, k \in 0 .. MaxProcs : DisownChildByName(c, k)
    \/ \E c \in Runnable, k \in 0 .. MaxEntries : DisownFriendByName(c, k)
    \/ \E c \in Runnable, k \in 0 .. MaxEntries : DisownPendingByName(c, k)
    \/ \E c \in Runnable :
          LET lk == [d \in Descriptor |-> Lookup(c, d)]
          IN  \/ \E d \in Descriptor : LookupFault(c, lk[d])
              \/ \E d \in Descriptor : Adopt(c, lk[d])
              \/ \E dA, dB \in Descriptor : MakeFriend(c, lk[dA], lk[dB])
              \/ \E d \in Descriptor : ListProcesses(c, lk[d])
              \/ \E d \in Descriptor : AskAbilities(c, d, lk[d])
              \/ \E d \in Descriptor : SendMessage(c, lk[d])
    \/ Halt

Spec == Init /\ [][Next]_vars

-----------------------------------------------------------------------------
TypeOK ==
    /\ next \in 1 .. MaxProcs
    /\ freed \subseteq Created /\ blockFreed \subseteq freed
    /\ parent \in [Pid -> Created \cup {NoProc}]
    /\ children \in [Pid -> Seq(Created)]
    /\ friends \in [Pid -> Seq(Created \cup {FreshRef})]
    /\ pending \in [Pid -> Seq(Created \cup {FreshRef})]
    /\ adopter \in [Pid -> Pid \cup {NoProc}]
    /\ deficit \in [Pid -> Nat]
    /\ fault \in {"none", "uaf", "overflow", "null_deref", "panic", "double_free"}

\* The owning edge is parent -> child (spec, shared/weak pointer cycles):
\* no process sits twice in the children lists of live processes.  A
\* disown that promotes a child into its adopter's list must take it out
\* of the old parent's list in the same call.
UniqueOwner ==
    \A p \in Pid : Cardinality(Holding(Live, children, p)) <= 1

\* A live process pending adoption by a live process q has q as its
\* adopter: adopt refuses a target that already has a live adopter, so two
\* processes never wait to adopt the same one.
PendingHeldByAdopter ==
    \A q \in Live : \A k \in 1 .. Len(pending[q]) :
        LET e == pending[q][k]
        IN  e \in Live /\ Strong(e) > 0 => adopter[e] = q

\* The processes reachable from the root through children lists.
RECURSIVE Owned(_)
Owned(S) ==
    LET S2 == S \cup UNION {ToSet(children[h]) : h \in S}
    IN  IF S2 = S THEN S ELSE Owned(S2)

\* Every live process is owned from the root: adopt refuses the caller's
\* own ancestors, so disown can never leave a cycle of processes owning
\* each other and nothing else (spec, adopt: "not self's ancestor").  This
\* is asked while the kernel runs: a panic inside from_elf stops it with
\* /main made and not yet listed.
OwnedFromRoot == fault = "none" => Live \subseteq Owned({Root})

\* A process object is deleted only when its last owning reference is
\* dropped, and a control block only when no weak_ptr names it: no live
\* process holds a child whose object is gone, or a weak_ptr into a
\* deleted block (spec, lifecycle: "destroyed when their only owning
\* reference is dropped").
NoDanglingReference ==
    \A h \in Live :
        /\ ToSet(children[h]) \cap freed = {}
        /\ ({parent[h], adopter[h]} \cup ToSet(friends[h]) \cup ToSet(pending[h]))
              \cap blockFreed = {}

\* No call deletes a process object or a control block twice: dropping the
\* last owner of a process runs its destructor and frees the block once.
NoDoubleFree == fault # "double_free"

=============================================================================
