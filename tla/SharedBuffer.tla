---------------------------- MODULE SharedBuffer ----------------------------
(***************************************************************************)
(* Borrow checking of static buffers (embedded-service/src/buffer.rs).     *)
(* Each user holds a SharedRef into one buffer, borrows it or, through the *)
(* OwnedRef, borrows the whole buffer mutably, and later drops the guard.  *)
(* Buffer::borrow and drop_borrow read the status cell and then write it;  *)
(* on one executor, as modelled here, nothing comes between the two.       *)
(***************************************************************************)
EXTENDS Naturals, FiniteSets

CONSTANTS
    Users,
    Size         \* Buffer::len

VARIABLES
    status,   \* the status cell
    ref,      \* per user, the range of its SharedRef
    holds,    \* the users with a guard
    access    \* per user, its guard: mutable or not, and its range

vars == <<status, ref, holds, access>>

Range == [start : Nat, end : Nat]
CallerRange == [start : 0..(Size + 1), end : 0..(Size + 1)]
OrderedRange == {r \in CallerRange : r.start <= r.end}
Full == [start |-> 0, end |-> Size]

(* Range::len. *)
RangeLen(r) == IF r.end > r.start THEN r.end - r.start ELSE 0

Status == [kind : {"None", "Mutable", "Poisoned"}, count : {0}]
            \cup [kind : {"Immutable"}, count : 0..Cardinality(Users)]
Unborrowed == [kind |-> "None", count |-> 0]
Poisoned == [kind |-> "Poisoned", count |-> 0]
Access == [mutable : BOOLEAN, range : Range]
NoAccess == [mutable |-> FALSE, range |-> Full]

TypeOK ==
    /\ status \in Status
    /\ ref \in [Users -> Range]
    /\ holds \subseteq Users
    /\ access \in [Users -> Access]

Init ==
    /\ status = Unborrowed
    /\ ref = [u \in Users |-> Full]     \* OwnedRef::reference
    /\ holds = {}
    /\ access = [u \in Users |-> NoAccess]

-----------------------------------------------------------------------------
InRange(r, len) == r.start < len /\ r.end <= len

(* The check of SharedRef::new, repeated by Access::new. *)
InBuffer(r) == InRange(r, Size)

(* SharedRef::new. *)
NewRef(u, r) ==
    /\ u \notin holds
    /\ InBuffer(r)
    /\ ref' = [ref EXCEPT ![u] = r]
    /\ UNCHANGED <<status, holds, access>>

\* Mutant of SubRange: the range is taken as relative to the buffer.
SubRangeFromStart(s, r) == [start |-> r.start, end |-> r.start + RangeLen(r)]

(* SharedRef::slice: r is relative to the range of the SharedRef. *)
SubRange(s, r) == [start |-> s.start + r.start, end |-> s.start + r.start + RangeLen(r)]

Slice(u, r) ==
    /\ u \notin holds
    /\ InRange(r, RangeLen(ref[u]))
    /\ InBuffer(SubRange(ref[u], r))
    /\ ref' = [ref EXCEPT ![u] = SubRange(ref[u], r)]
    /\ UNCHANGED <<status, holds, access>>

-----------------------------------------------------------------------------

(* The borrow is refused: Buffer::borrow returns an error. *)
Refused(s, mutable) ==
    s.kind \in {"Mutable", "Poisoned"} \/ (s.kind = "Immutable" /\ mutable)

(* The status a granted borrow writes. *)
Borrowed(s, mutable) ==
    IF mutable THEN [kind |-> "Mutable", count |-> 0]
               ELSE [kind |-> "Immutable", count |-> s.count + 1]

(* AccessMut::new and Access::new; an error leaves everything as it was. *)
Borrow(u, mutable, range) ==
    /\ u \notin holds
    /\ ~Refused(status, mutable)
    /\ status' = Borrowed(status, mutable)
    /\ holds' = holds \cup {u}
    /\ access' = [access EXCEPT ![u] = [mutable |-> mutable, range |-> range]]
    /\ UNCHANGED ref

BorrowWhole(u) == Borrow(u, TRUE, Full)
BorrowRef(u) == InBuffer(ref[u]) /\ Borrow(u, FALSE, ref[u])

(* Buffer::drop_borrow. *)
Released(s) ==
    CASE s.kind = "Mutable" -> Unborrowed
      [] s.kind = "Immutable" /\ s.count = 1 -> Unborrowed
      [] s.kind = "Immutable" /\ s.count > 1 -> [s EXCEPT !.count = @ - 1]
      [] OTHER -> Poisoned

DropGuard(u) ==
    /\ u \in holds
    /\ status' = Released(status)
    /\ holds' = holds \ {u}
    /\ access' = [access EXCEPT ![u] = NoAccess]
    /\ UNCHANGED ref

(* SharedRef::new is called with ranges that do not end before they start   *)
(* (in this repository only SharedRef::slice calls it): it takes the others *)
(* too, and a borrow of one panics where it is used.                        *)
Next ==
    \E u \in Users :
        \/ \E r \in OrderedRange : NewRef(u, r)
        \/ \E r \in CallerRange : Slice(u, r)
        \/ BorrowWhole(u) \/ BorrowRef(u) \/ DropGuard(u)

Spec == Init /\ [][Next]_vars

-----------------------------------------------------------------------------
(* "These types enforce Rust's aliasing and mutability rules dynamically,  *)
(* similar to RefCell": a user with mutable access is alone.               *)
NoAlias == \A u, v \in holds : u # v => ~access[u].mutable

(* The status tells exactly which guards there are:      *)
(* guards are never lost, counted twice or left over (drop_borrow), and    *)
(* the buffer is never poisoned.                                           *)
StatusCounts ==
    /\ status.kind # "Poisoned"
    /\ status.kind = "None" <=> holds = {}
    /\ status.kind = "Mutable" <=> \E u \in holds : access[u].mutable
    /\ status.kind = "Immutable" => status.count = Cardinality(holds)

(* "The public API prevents a slice from being stored that would be        *)
(* outside the bounds of the buffer": indexing the buffer with the range   *)
(* of a guard never panics (Access::borrow).                               *)
InBounds == \A u \in holds : access[u].range.start <= access[u].range.end /\ access[u].range.end <= Size

(* The three together: borrows are tracked exactly, as long as the buffer  *)
(* is used through its API (Buffer::borrow, drop_borrow, SharedRef).       *)
BorrowsHonest == TypeOK /\ NoAlias /\ StatusCounts /\ InBounds

(* A slice of a slice stays inside the range it was taken from             *)
(* (SharedRef::slice).                                                     *)
SliceInside ==
    [][ref' # ref =>
           \A u \in Users, r \in CallerRange :
               Slice(u, r) => ref'[u].start >= ref[u].start /\ ref'[u].end <= ref[u].end]_vars
=============================================================================
