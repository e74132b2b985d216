----------------------------- MODULE IpcProofs ------------------------------
(***************************************************************************)
(* What embedded-service guarantees its users.  The channel for deferred   *)
(* commands implements RemoteCall, for any number of callers and receivers *)
(* and however often callers give up; the shared buffers keep Rust's rules *)
(* of borrowing, for any number of users and any size of buffer; messages  *)
(* reach the endpoints that registered for them; the HID passthrough tells *)
(* its host what it asked for; and an access to a partition touches only   *)
(* its own bytes.                                                          *)
(***************************************************************************)
EXTENDS MCIpc, FiniteSetTheorems, NaturalsInduction, SequenceTheorems, WellFoundedInduction, TLAPS

(* The channel for deferred commands.                                      *)

(* The bound on invocations is kept. *)
Counted == next \in 0..MaxInvocations

ChannelInv == TypeOK /\ LockInv /\ OnceInv /\ Counted

LEMMA InitInv == Init => ChannelInv
BY NoneAssumption, InvocationsAssumption DEF Init, ChannelInv, TypeOK, LockInv, OnceInv, Counted

(* An id is the number of its invocation as long as none comes round. *)
LEMMA IdOfNumber == \A i \in 0..(IdCount - 1) : Id(i) = i
BY IdCountAssumption DEF Id

LEMMA StepInv == ChannelInv /\ [Next]_vars => ChannelInv'
<1> SUFFICES ASSUME ChannelInv, [Next]_vars PROVE ChannelInv'
  OBVIOUS
<1> USE NoneAssumption, IdCountAssumption, InvocationsAssumption
<1>1. ASSUME NEW c \in Callers, Execute(c) PROVE ChannelInv'
  BY <1>1 DEF ChannelInv, TypeOK, LockInv, OnceInv, Counted, Execute
<1>2. ASSUME NEW c \in Callers, SendCommand(c) PROVE ChannelInv'
  <2>1. TypeOK'
    BY <1>2 DEF ChannelInv, TypeOK, SendCommand
  <2>2. LockInv'
    BY <1>2 DEF ChannelInv, TypeOK, LockInv, SendCommand
  <2>3. OnceInv'
    BY <1>2 DEF ChannelInv, TypeOK, OnceInv, SendCommand
  <2>4. Counted'
    BY <1>2 DEF ChannelInv, Counted, SendCommand
  <2> QED BY <2>1, <2>2, <2>3, <2>4 DEF ChannelInv
<1>3. ASSUME NEW c \in Callers, TakeResponse(c) PROVE ChannelInv'
  <2>1. TypeOK'
    BY <1>3 DEF ChannelInv, TypeOK, TakeResponse
  <2>2. LockInv'
    BY <1>3 DEF ChannelInv, TypeOK, LockInv, TakeResponse
  <2>3. OnceInv'
    BY <1>3 DEF ChannelInv, TypeOK, OnceInv, TakeResponse
  <2>4. Counted'
    BY <1>3 DEF ChannelInv, Counted, TakeResponse
  <2> QED BY <2>1, <2>2, <2>3, <2>4 DEF ChannelInv
<1>4. ASSUME NEW c \in Callers, Drop(c) PROVE ChannelInv'
  BY <1>4 DEF ChannelInv, TypeOK, LockInv, OnceInv, Counted, Drop
<1>5. ASSUME NEW r \in Receivers, Receive(r) PROVE ChannelInv'
  <2>1. TypeOK' /\ LockInv' /\ Counted'
    BY <1>5 DEF ChannelInv, TypeOK, LockInv, Counted, Receive
  <2>2. OnceInv'
    BY <1>5 DEF ChannelInv, TypeOK, OnceInv, Receive
  <2> QED BY <2>1, <2>2 DEF ChannelInv
<1>6. ASSUME NEW r \in Receivers, Respond(r) PROVE ChannelInv'
  <2>0. job[r] \in Nat
    BY <1>6 DEF ChannelInv, TypeOK, Respond
  <2>1. TypeOK'
    BY <1>6, <2>0 DEF ChannelInv, TypeOK, Respond
  <2>3. LockInv' /\ Counted'
    BY <1>6 DEF ChannelInv, LockInv, Counted, Respond
  <2>2. OnceInv'
    BY <1>6 DEF ChannelInv, TypeOK, OnceInv, Respond
  <2> QED BY <2>1, <2>2, <2>3 DEF ChannelInv
<1>7. CASE UNCHANGED vars
  BY <1>7 DEF ChannelInv, TypeOK, LockInv, OnceInv, Counted, vars
<1> QED BY <1>1, <1>2, <1>3, <1>4, <1>5, <1>6, <1>7 DEF Next

(* A caller that waits holds the lock and waits for the latest invocation  *)
(* (Channel::execute).                                                     *)
THEOREM LockHolds == Spec => []LockInv
<1>1. ChannelInv => LockInv
  BY DEF ChannelInv
<1> QED BY <1>1, InitInv, StepInv, PTL DEF Spec

(* Each invocation is received and responded to at most once               *)
(* (Channel::receive, Request::respond).                                   *)
THEOREM OnceHolds == Spec => []OnceInv
<1>1. ChannelInv => OnceInv
  BY DEF ChannelInv
<1> QED BY <1>1, InitInv, StepInv, PTL DEF Spec

LEMMA StepRefines == ChannelInv /\ ChannelInv' /\ [Next]_vars => [RC!RCNext]_RC!abstractVars
<1> SUFFICES ASSUME ChannelInv, ChannelInv', [Next]_vars PROVE [RC!RCNext]_RC!abstractVars
  OBVIOUS
<1> USE NoneAssumption, IdCountAssumption, InvocationsAssumption
<1>1. ASSUME NEW c \in Callers, Execute(c) PROVE UNCHANGED RC!abstractVars
  BY <1>1 DEF Execute, RC!abstractVars
<1>2. ASSUME NEW c \in Callers, SendCommand(c) PROVE RC!Invoke(c)
  BY <1>2 DEF SendCommand, RC!Invoke, ChannelInv, LockInv
<1>3. ASSUME NEW c \in Callers, TakeResponse(c)
      PROVE RC!Return(c) \/ UNCHANGED RC!abstractVars
  <2>1. CASE Id(response) = Id(mine[c])
    <3>1. mine[c] \in 0..(next - 1) /\ response \in 0..(next - 1)
      BY <1>3 DEF TakeResponse, ChannelInv, TypeOK, LockInv, OnceInv
    <3>2. next <= MaxInvocations
      BY DEF ChannelInv, Counted
    <3>3. response = mine[c]
      BY <2>1, <3>1, <3>2, IdOfNumber DEF ChannelInv, TypeOK
    <3> QED BY <1>3, <2>1, <3>1, <3>3 DEF TakeResponse, RC!Return, ChannelInv, OnceInv, TypeOK
  <2>2. CASE Id(response) # Id(mine[c])
    BY <1>3, <2>2 DEF TakeResponse, RC!abstractVars
  <2> QED BY <2>1, <2>2
<1>4. ASSUME NEW c \in Callers, Drop(c)
      PROVE RC!GiveUp(c) \/ UNCHANGED RC!abstractVars
  BY <1>4 DEF Drop, RC!GiveUp, RC!abstractVars, ChannelInv, TypeOK
<1>5. ASSUME NEW r \in Receivers, Receive(r) PROVE UNCHANGED RC!abstractVars
  BY <1>5 DEF Receive, RC!abstractVars
<1>6. ASSUME NEW r \in Receivers, Respond(r)
      PROVE job[r] \in 0..(next - 1) /\ RC!CarryOut(job[r])
  BY <1>6 DEF Respond, RC!CarryOut, ChannelInv, TypeOK, OnceInv
<1>7. CASE UNCHANGED vars
  BY <1>7 DEF vars, RC!abstractVars
<1> QED BY <1>1, <1>2, <1>3, <1>4, <1>5, <1>6, <1>7 DEF Next, RC!RCNext

(* Responses reach the caller of their own invocation: the channel         *)
(* implements RemoteCall (Channel, Request).                               *)
THEOREM ChannelImplementsRemoteCall == Spec => ResponsesMatch
<1>1. Init => RC!RCInit
  BY DEF Init, RC!RCInit
<1> QED BY <1>1, InitInv, StepInv, StepRefines, PTL DEF Spec, ResponsesMatch, RC!RCSpec

-----------------------------------------------------------------------------
(* The shared buffers.                                                     *)

\* A SharedRef is a range within the buffer.
RefsInside == \A u \in Users : ref[u].start <= ref[u].end /\ ref[u].end <= BufferLen

BorrowInv == Buffer!BorrowsHonest /\ RefsInside

LEMMA BorrowInit == ASSUME BufferLen \in Nat, IsFiniteSet(Users) PROVE Buffer!Init => BorrowInv
<1> SUFFICES ASSUME Buffer!Init PROVE BorrowInv
    OBVIOUS
<1>1. /\ status = [kind |-> "None", count |-> 0] /\ holds = {}
      /\ ref = [u \in Users |-> [start |-> 0, end |-> BufferLen]]
      /\ access = [u \in Users |-> [mutable |-> FALSE, range |-> [start |-> 0, end |-> BufferLen]]]
    BY DEF Buffer!Init, Buffer!Unborrowed, Buffer!Full, Buffer!NoAccess
<1>2. Buffer!TypeOK
    BY <1>1 DEF Buffer!TypeOK, Buffer!Status, Buffer!Range, Buffer!Access
<1>3. Buffer!NoAlias /\ Buffer!StatusCounts /\ Buffer!InBounds /\ RefsInside
    BY <1>1 DEF Buffer!NoAlias, Buffer!StatusCounts, Buffer!InBounds, RefsInside
<1> QED BY <1>2, <1>3 DEF BorrowInv, Buffer!BorrowsHonest

\* The guards are finitely many, and no more than the users.
LEMMA GuardsFinite ==
    ASSUME IsFiniteSet(Users), NEW S \in SUBSET Users
    PROVE  /\ IsFiniteSet(S) /\ Cardinality(S) \in Nat /\ Cardinality(Users) \in Nat
           /\ Cardinality(S) <= Cardinality(Users)
           /\ Cardinality(S) = 0 <=> S = {}
<1>1. IsFiniteSet(S) /\ Cardinality(S) <= Cardinality(Users)
    BY FS_Subset, Zenon
<1>2. Cardinality(S) \in Nat /\ Cardinality(Users) \in Nat
    BY <1>1, FS_CardinalityType
<1>3. Cardinality(S) = 0 <=> S = {}
    BY <1>1, FS_EmptySet
<1> QED BY <1>1, <1>2, <1>3

LEMMA SharedCardinality == \A S : Buffer!Cardinality(S) = Cardinality(S)
    BY Zenon DEF Buffer!Cardinality, Cardinality

LEMMA NewRefKeeps ==
    ASSUME BufferLen \in Nat, BorrowInv, NEW u \in Users, NEW r \in Buffer!OrderedRange, Buffer!NewRef(u, r)
    PROVE  BorrowInv'
<1> USE DEF BorrowInv, Buffer!BorrowsHonest
<1>1. /\ r.start <= r.end /\ r.end <= BufferLen /\ ref' = [ref EXCEPT ![u] = r]
      /\ UNCHANGED <<status, holds, access>>
    BY DEF Buffer!NewRef, Buffer!InBuffer, Buffer!InRange, Buffer!OrderedRange
<1>2. r \in Buffer!Range
    BY DEF Buffer!OrderedRange, Buffer!CallerRange, Buffer!Range
<1>3. Buffer!TypeOK'
    BY <1>1, <1>2 DEF Buffer!TypeOK
<1>4. RefsInside'
    BY <1>1 DEF RefsInside, Buffer!TypeOK
<1> QED BY <1>1, <1>3, <1>4 DEF Buffer!NoAlias, Buffer!StatusCounts, Buffer!InBounds

\* Where a slice of a SharedRef lies.
LEMMA SliceRange ==
    ASSUME BufferLen \in Nat, Buffer!TypeOK, NEW u \in Users, NEW r \in Buffer!CallerRange,
           Buffer!Slice(u, r)
    PROVE  /\ ref' = [ref EXCEPT ![u] = Buffer!SubRange(ref[u], r)]
           /\ Buffer!SubRange(ref[u], r) \in Buffer!Range
           /\ Buffer!SubRange(ref[u], r).start >= ref[u].start
           /\ Buffer!SubRange(ref[u], r).start <= Buffer!SubRange(ref[u], r).end
           /\ Buffer!SubRange(ref[u], r).end <= ref[u].end
           /\ Buffer!SubRange(ref[u], r).end <= BufferLen
<1>1. /\ r.start < Buffer!RangeLen(ref[u]) /\ r.end <= Buffer!RangeLen(ref[u])
      /\ Buffer!SubRange(ref[u], r).end <= BufferLen
      /\ ref' = [ref EXCEPT ![u] = Buffer!SubRange(ref[u], r)]
    BY DEF Buffer!Slice, Buffer!InRange, Buffer!InBuffer
<1>2. r.start \in Nat /\ r.end \in Nat /\ ref[u].start \in Nat /\ ref[u].end \in Nat
    BY DEF Buffer!CallerRange, Buffer!TypeOK, Buffer!Range
<1>3. Buffer!RangeLen(ref[u]) = ref[u].end - ref[u].start /\ ref[u].end > ref[u].start
    BY <1>1, <1>2 DEF Buffer!RangeLen
<1>4. /\ Buffer!RangeLen(r) \in Nat
      /\ r.start + Buffer!RangeLen(r) <= Buffer!RangeLen(ref[u])
    BY <1>1, <1>2, <1>3 DEF Buffer!RangeLen
<1>5. /\ Buffer!SubRange(ref[u], r).start = ref[u].start + r.start
      /\ Buffer!SubRange(ref[u], r).end = ref[u].start + r.start + Buffer!RangeLen(r)
      /\ Buffer!SubRange(ref[u], r) \in [start : Nat, end : Nat]
    BY <1>2, <1>4 DEF Buffer!SubRange
<1> QED BY <1>1, <1>2, <1>3, <1>4, <1>5 DEF Buffer!Range

LEMMA SliceKeeps ==
    ASSUME BufferLen \in Nat, BorrowInv, NEW u \in Users, NEW r \in Buffer!CallerRange, Buffer!Slice(u, r)
    PROVE  BorrowInv'
<1> USE DEF BorrowInv, Buffer!BorrowsHonest
<1>1. UNCHANGED <<status, holds, access>>
    BY DEF Buffer!Slice
<1>2. Buffer!TypeOK'
    BY <1>1, SliceRange DEF Buffer!TypeOK
<1>3. RefsInside'
    BY SliceRange DEF RefsInside, Buffer!TypeOK
<1> QED BY <1>1, <1>2, <1>3 DEF Buffer!NoAlias, Buffer!StatusCounts, Buffer!InBounds

LEMMA BorrowKeeps ==
    ASSUME BufferLen \in Nat, IsFiniteSet(Users), BorrowInv,
           NEW u \in Users, NEW mutable \in BOOLEAN, NEW range \in Buffer!Range,
           range.start <= range.end, range.end <= BufferLen, Buffer!Borrow(u, mutable, range)
    PROVE  BorrowInv'
<1> USE DEF BorrowInv, Buffer!BorrowsHonest
<1>1. /\ u \notin holds /\ holds' = holds \cup {u} /\ ref' = ref
      /\ status.kind \notin {"Mutable", "Poisoned"} /\ (status.kind = "Immutable" => ~mutable)
      /\ status' = (IF mutable THEN [kind |-> "Mutable", count |-> 0]
                               ELSE [kind |-> "Immutable", count |-> status.count + 1])
      /\ access' = [access EXCEPT ![u] = [mutable |-> mutable, range |-> range]]
    BY DEF Buffer!Borrow, Buffer!Refused, Buffer!Borrowed
<1>2. holds \subseteq Users /\ holds' \subseteq Users
    BY <1>1 DEF Buffer!TypeOK
<1>3. /\ Cardinality(holds) \in Nat /\ (Cardinality(holds) = 0 <=> holds = {})
      /\ Cardinality(holds') \in Nat /\ Cardinality(holds') <= Cardinality(Users)
      /\ Cardinality(Users) \in Nat
    BY <1>2, GuardsFinite
<1>4. Cardinality(holds') = Cardinality(holds) + 1
    BY <1>1, <1>2, GuardsFinite, FS_AddElement
<1>5. /\ status.kind \in {"None", "Immutable"} /\ status.count = Cardinality(holds)
      /\ (mutable => holds = {}) /\ (\A v \in holds : ~access[v].mutable)
  <2>1. status.kind \in {"None", "Immutable"}
    BY <1>1 DEF Buffer!TypeOK, Buffer!Status
  <2>2. CASE status.kind = "None"
    BY <2>2, <1>3 DEF Buffer!TypeOK, Buffer!Status, Buffer!StatusCounts
  <2>3. CASE status.kind = "Immutable"
    BY <2>3, <1>1, SharedCardinality DEF Buffer!StatusCounts
  <2> QED BY <2>1, <2>2, <2>3
<1>6. \A v \in Users : access'[v] = IF v = u THEN [mutable |-> mutable, range |-> range] ELSE access[v]
    BY <1>1 DEF Buffer!TypeOK
<1>7. Buffer!TypeOK'
  <2>1. access' \in [Users -> Buffer!Access]
    BY <1>1 DEF Buffer!TypeOK, Buffer!Access
  <2>2. status' \in Buffer!Status
    BY <1>1, <1>3, <1>4, <1>5, SharedCardinality DEF Buffer!Status
  <2> QED BY <1>1, <1>2, <2>1, <2>2 DEF Buffer!TypeOK
<1>8. Buffer!NoAlias'
    BY <1>1, <1>2, <1>5, <1>6 DEF Buffer!NoAlias
<1>9. Buffer!StatusCounts'
  <2>1. CASE mutable
    BY <2>1, <1>1, <1>2, <1>6 DEF Buffer!StatusCounts
  <2>2. CASE ~mutable
    <3>1. status'.kind = "Immutable" /\ status'.count = Cardinality(holds')
      BY <2>2, <1>1, <1>4, <1>5
    <3>2. \A v \in holds' : ~access'[v].mutable
      BY <2>2, <1>1, <1>2, <1>5, <1>6
    <3> QED BY <3>1, <3>2, <1>1, SharedCardinality DEF Buffer!StatusCounts
  <2> QED BY <2>1, <2>2
<1>10. Buffer!InBounds'
    BY <1>1, <1>2, <1>6 DEF Buffer!InBounds
<1>11. RefsInside'
    BY <1>1 DEF RefsInside
<1> QED BY <1>7, <1>8, <1>9, <1>10, <1>11

LEMMA DropGuardKeeps ==
    ASSUME BufferLen \in Nat, IsFiniteSet(Users), BorrowInv, NEW u \in Users, Buffer!DropGuard(u)
    PROVE  BorrowInv'
<1> USE DEF BorrowInv, Buffer!BorrowsHonest
<1>1. /\ u \in holds /\ holds' = holds \ {u} /\ ref' = ref /\ status' = Buffer!Released(status)
      /\ access' = [access EXCEPT ![u] = Buffer!NoAccess]
    BY DEF Buffer!DropGuard
<1>2. holds \subseteq Users /\ holds' \subseteq Users
    BY <1>1 DEF Buffer!TypeOK
<1>3. /\ Cardinality(holds) \in Nat /\ (Cardinality(holds) = 0 <=> holds = {})
      /\ Cardinality(holds') \in Nat /\ (Cardinality(holds') = 0 <=> holds' = {})
      /\ Cardinality(holds') <= Cardinality(Users) /\ Cardinality(Users) \in Nat
    BY <1>2, GuardsFinite
<1>4. Cardinality(holds') = Cardinality(holds) - 1 /\ Cardinality(holds) >= 1
  <2>1. Cardinality(holds') = Cardinality(holds) - 1
    BY <1>1, <1>2, GuardsFinite, FS_RemoveElement
  <2> QED BY <1>1, <1>3, <2>1
<1>5. \A v \in holds' : v # u /\ v \in holds /\ access'[v] = access[v]
    BY <1>1, <1>2 DEF Buffer!TypeOK
<1>6. access' \in [Users -> Buffer!Access]
    BY <1>1 DEF Buffer!TypeOK, Buffer!NoAccess, Buffer!Full, Buffer!Access, Buffer!Range
<1>7. Buffer!NoAlias' /\ Buffer!InBounds' /\ RefsInside'
    BY <1>1, <1>5 DEF Buffer!NoAlias, Buffer!InBounds, RefsInside
<1>8. status' \in Buffer!Status /\ Buffer!StatusCounts'
  <2>0. status.kind \in {"Mutable", "Immutable"}
    BY <1>1 DEF Buffer!TypeOK, Buffer!Status, Buffer!StatusCounts
  <2>1. CASE status.kind = "Mutable"
    <3>1. status' = [kind |-> "None", count |-> 0]
      BY <1>1, <2>1 DEF Buffer!Released, Buffer!Unborrowed
    <3>2. holds' = {}
      <4>1. PICK w \in holds : access[w].mutable
        BY <2>1 DEF Buffer!StatusCounts
      <4>2. \A v \in holds : v = w
        BY <4>1 DEF Buffer!NoAlias
      <4> QED BY <4>2, <1>1
    <3> QED BY <3>1, <3>2 DEF Buffer!Status, Buffer!StatusCounts
  <2>2. CASE status.kind = "Immutable"
    <3>0. status.count = Cardinality(holds) /\ \A v \in holds : ~access[v].mutable
      BY <2>2, SharedCardinality DEF Buffer!StatusCounts
    <3>1. CASE Cardinality(holds) = 1
      <4>1. status' = [kind |-> "None", count |-> 0]
        BY <1>1, <2>2, <3>0, <3>1 DEF Buffer!Released, Buffer!Unborrowed
      <4>2. holds' = {}
        BY <1>3, <1>4, <3>1
      <4> QED BY <4>1, <4>2 DEF Buffer!Status, Buffer!StatusCounts
    <3>2. CASE Cardinality(holds) > 1
      <4>1. status' = [status EXCEPT !.count = @ - 1]
        BY <1>1, <1>3, <2>2, <3>0, <3>2 DEF Buffer!Released
      <4>2. status \in [kind : {"Immutable"}, count : 0..Cardinality(Users)]
        BY <2>2, SharedCardinality DEF Buffer!TypeOK, Buffer!Status
      <4>3. status'.kind = "Immutable" /\ status'.count = Cardinality(holds')
        BY <4>1, <4>2, <2>2, <3>0, <1>4
      <4>4. status' \in [kind : {"Immutable"}, count : 0..Cardinality(Users)]
        BY <4>1, <4>2, <4>3, <1>3
      <4>5. holds' # {} /\ \A v \in holds' : ~access'[v].mutable
        BY <1>3, <1>4, <1>5, <3>0, <3>2
      <4> QED BY <4>3, <4>4, <4>5, SharedCardinality DEF Buffer!Status, Buffer!StatusCounts
    <3> QED BY <1>3, <1>4, <3>1, <3>2
  <2> QED BY <2>0, <2>1, <2>2
<1>9. Buffer!TypeOK'
    BY <1>1, <1>2, <1>6, <1>8 DEF Buffer!TypeOK
<1> QED BY <1>7, <1>8, <1>9

LEMMA BorrowStep ==
    ASSUME BufferLen \in Nat, IsFiniteSet(Users)
    PROVE  BorrowInv /\ [Buffer!Next]_(Buffer!vars) => BorrowInv'
<1> SUFFICES ASSUME BorrowInv, [Buffer!Next]_(Buffer!vars) PROVE BorrowInv'
    OBVIOUS
<1>1. ASSUME NEW u \in Users, Buffer!BorrowWhole(u) PROVE BorrowInv'
  <2>1. Buffer!Borrow(u, TRUE, Buffer!Full)
    BY <1>1 DEF Buffer!BorrowWhole
  <2>2. Buffer!Full \in Buffer!Range /\ Buffer!Full.start = 0 /\ Buffer!Full.end = BufferLen
    BY DEF Buffer!Full, Buffer!Range
  <2>3. Buffer!Full.start <= Buffer!Full.end /\ Buffer!Full.end <= BufferLen /\ TRUE \in BOOLEAN
    BY <2>2
  <2> QED BY <2>1, <2>2, <2>3, BorrowKeeps, Zenon
<1>2. ASSUME NEW u \in Users, Buffer!BorrowRef(u) PROVE BorrowInv'
  <2>1. /\ Buffer!Borrow(u, FALSE, ref[u]) /\ ref[u] \in Buffer!Range
        /\ ref[u].start <= ref[u].end /\ ref[u].end <= BufferLen
    BY <1>2 DEF Buffer!BorrowRef, BorrowInv, Buffer!BorrowsHonest, Buffer!TypeOK, RefsInside
  <2> QED BY <2>1, BorrowKeeps
<1>3. CASE UNCHANGED Buffer!vars
    BY <1>3 DEF Buffer!vars, BorrowInv, Buffer!BorrowsHonest, Buffer!TypeOK, Buffer!NoAlias,
                Buffer!StatusCounts, Buffer!InBounds, RefsInside
<1> QED BY <1>1, <1>2, <1>3, NewRefKeeps, SliceKeeps, DropGuardKeeps DEF Buffer!Next

\* However many users borrow, slice and drop, mutable access is exclusive, the
\* status counts exactly the guards there are, the buffer is never poisoned, and
\* a guard's range lies within the buffer (Buffer::borrow, drop_borrow).
THEOREM BorrowsHonestHolds ==
    ASSUME BufferLen \in Nat, IsFiniteSet(Users)
    PROVE  Buffer!Spec => []Buffer!BorrowsHonest
<1>1. Buffer!Init => BorrowInv
    BY BorrowInit
<1>2. BorrowInv /\ [Buffer!Next]_(Buffer!vars) => BorrowInv'
    BY BorrowStep
<1>3. BorrowInv => Buffer!BorrowsHonest
    BY DEF BorrowInv
<1> QED BY <1>1, <1>2, <1>3, PTL DEF Buffer!Spec

\* A slice stays inside, step by step.
LEMMA SliceStep ==
    ASSUME BufferLen \in Nat
    PROVE  BorrowInv /\ [Buffer!Next]_(Buffer!vars) =>
             [ref' # ref =>
                \A u \in Users, r \in Buffer!CallerRange :
                    Buffer!Slice(u, r) =>
                        ref'[u].start >= ref[u].start /\ ref'[u].end <= ref[u].end]_(Buffer!vars)
<1> SUFFICES ASSUME BorrowInv, NEW u \in Users, NEW r \in Buffer!CallerRange, Buffer!Slice(u, r)
             PROVE  ref'[u].start >= ref[u].start /\ ref'[u].end <= ref[u].end
  OBVIOUS
<1>1. Buffer!TypeOK
  BY DEF BorrowInv, Buffer!BorrowsHonest
<1>2. ref'[u] = Buffer!SubRange(ref[u], r)
  BY <1>1, SliceRange DEF Buffer!TypeOK
<1> QED BY <1>1, <1>2, SliceRange

\* A slice of a SharedRef lies within it, for every range that a caller may ask
\* for (SharedRef::slice).
THEOREM SliceInsideHolds ==
    ASSUME BufferLen \in Nat, IsFiniteSet(Users)
    PROVE  Buffer!Spec => Buffer!SliceInside
<1>1. Buffer!Init => BorrowInv
    BY BorrowInit
<1>2. BorrowInv /\ [Buffer!Next]_(Buffer!vars) => BorrowInv'
    BY BorrowStep
<1> QED BY <1>1, <1>2, SliceStep, PTL DEF Buffer!Spec, Buffer!SliceInside

-----------------------------------------------------------------------------
(* Endpoints and messages.                                                  *)

\* What is registered and where: threads that may interrupt each other register
\* different endpoints.
CommsParams ==
    /\ IsFiniteSet(Endpoints) /\ None \notin Endpoints /\ None \notin Registrars
    /\ Registrars \cap Senders = {}
    /\ \A p \in Plans :
          /\ p.target \in [Registrars -> Endpoints]
          /\ p.preemptive => \A q, r \in Registrars : q # r => p.target[q] # p.target[r]

OnList(l) == {e \in Endpoint!Registered : ListOf[IdOf[e]] = l}

\* The list that starts at h and goes on as n says holds the endpoints of S in
\* falling order of rank: the later an endpoint was registered the higher.
Linked(rank, S, h, n) ==
    /\ \A e, f \in S : rank[e] = rank[f] => e = f
    /\ h = None => S = {}
    /\ h # None => h \in S /\ \A e \in S : rank[e] <= rank[h]
    /\ \A e \in S :
          /\ n[e].next = None => \A f \in S : rank[e] <= rank[f]
          /\ n[e].next # None =>
                /\ n[e].next \in S /\ rank[n[e].next] < rank[e]
                /\ \A f \in S : rank[f] <= rank[n[e].next] \/ rank[e] <= rank[f]

\* A registration that has tested the flag of its node is the only one of its
\* endpoint to go on.
Going == {"checked", "set", "done"}
RegisterInv ==
    /\ \A r \in Registrars :
          /\ rpc[r] = "checked" => ~node[Endpoint!Target(r)].valid
          /\ rpc[r] \in {"set", "done"} => node[Endpoint!Target(r)].valid
          /\ rpc[r] = "set" => node[Endpoint!Target(r)].next = None
          /\ rpc[r] # "start" => delegator[Endpoint!Target(r)] # None
    /\ \A q, r \in Registrars :
          (q # r /\ Endpoint!Target(q) = Endpoint!Target(r)) => ~(rpc[q] \in Going /\ rpc[r] \in Going)

\* A walk has passed the endpoints above the one it is at, and those below it are
\* still to come.
WalkInv(rank, s) ==
    /\ spc[s] = "await" => got[s] = [e \in Endpoints |-> 0]
    /\ spc[s] = "route" =>
          /\ expected[s] \subseteq {e \in Endpoint!Registered : IdOf[e] = to[s]}
          /\ at[s] # None => at[s] \in OnList(ListOf[to[s]])
          /\ \A e \in Endpoints : got[s][e] <= (IF IdOf[e] = to[s] THEN 1 ELSE 0)
          /\ \A e \in expected[s] : (at[s] = None \/ rank[e] > rank[at[s]]) => got[s][e] = 1
          /\ \A e \in Endpoints : (at[s] # None /\ rank[e] <= rank[at[s]]) => got[s][e] = 0

Ranked(k, rank) ==
    /\ \A e \in Endpoints : rank[e] <= k
    /\ \A l \in Endpoint!Lists : Linked(rank, OnList(l), head[l], node)
    /\ \A s \in Senders : WalkInv(rank, s)

CommsInv ==
    /\ Endpoint!TypeOK /\ RegisterInv
    /\ \E k \in Nat : \E rank \in [Endpoints -> Nat] : Ranked(k, rank)

LEMMA CommsInit == CommsParams /\ Endpoint!Init => CommsInv
<1> SUFFICES ASSUME CommsParams, Endpoint!Init PROVE CommsInv
  OBVIOUS
<1>1. Endpoint!TypeOK
  <2>1. /\ ready \in BOOLEAN /\ plan \in Plans
        /\ head \in [Endpoint!Lists -> Endpoints \cup {None}]
        /\ delegator \in [Endpoints -> Registrars \cup {None}]
        /\ rpc \in [Registrars -> {"start", "await", "checked", "set", "done", "refused"}]
    BY DEF Endpoint!Init
  <2>2. node \in [Endpoints -> [next : Endpoints \cup {None}, valid : BOOLEAN]]
    BY DEF Endpoint!Init
  <2>3. /\ spc \in [Senders -> {"idle", "await", "route"}] /\ to \in [Senders -> Endpoint!Ids]
        /\ at \in [Senders -> Endpoints \cup {None}] /\ expected \in [Senders -> SUBSET Endpoints]
    BY DEF Endpoint!Init
  <2>4. got \in [Senders -> [Endpoints -> 0..2]]
    BY DEF Endpoint!Init
  <2> QED  BY <2>1, <2>2, <2>3, <2>4 DEF Endpoint!TypeOK
<1>2. RegisterInv
  BY DEF Endpoint!Init, RegisterInv, Going
<1>3. Endpoint!Registered = {} /\ \A l : OnList(l) = {}
  BY DEF Endpoint!Init, Endpoint!Registered, OnList
<1> DEFINE rank == [e \in Endpoints |-> 0]
<1>4. Ranked(0, rank)
  BY <1>3 DEF Endpoint!Init, Ranked, Linked, WalkInv
<1>5. rank \in [Endpoints -> Nat]
  OBVIOUS
<1> HIDE DEF rank
<1> QED  BY <1>1, <1>2, <1>4, <1>5 DEF CommsInv

\* Every registrar has an endpoint.
LEMMA Targets ==
    ASSUME CommsParams, Endpoint!TypeOK
    PROVE  /\ \A r \in Registrars : Endpoint!Target(r) \in Endpoints
           /\ plan.preemptive =>
                 \A q, r \in Registrars : q # r => Endpoint!Target(q) # Endpoint!Target(r)
           /\ Endpoint!Registered \subseteq Endpoints
           /\ \A e \in Endpoints : ListOf[IdOf[e]] \in Endpoint!Lists
<1>1. plan.target \in [Registrars -> Endpoints]
      /\ (plan.preemptive => \A q, r \in Registrars : q # r => plan.target[q] # plan.target[r])
  BY DEF CommsParams, Endpoint!TypeOK
<1>2. \A e \in Endpoints : ListOf[IdOf[e]] \in Endpoint!Lists
  BY DEF Endpoint!Lists, Endpoint!Ids
<1> QED  BY <1>1, <1>2 DEF Endpoint!Target, Endpoint!Registered

\* A step that leaves walks and lists alone.
LEMMA RanksKept ==
    ASSUME Endpoint!Registered' = Endpoint!Registered, Endpoint!Registered \subseteq Endpoints,
           head' = head, \A e \in Endpoint!Registered : node'[e] = node[e],
           UNCHANGED <<spc, to, at, got, expected>>, NEW k, NEW rank, Ranked(k, rank)
    PROVE  Ranked(k, rank)'
<1>1. \A l : OnList(l)' = OnList(l)
  BY DEF OnList
<1>2. \A l : \A e \in OnList(l) : node'[e] = node[e]
  BY DEF OnList
<1>3. ASSUME NEW l \in Endpoint!Lists
      PROVE  Linked(rank, OnList(l)', head'[l], node')
  BY <1>1, <1>2 DEF Ranked, Linked
<1>4. ASSUME NEW s \in Senders
      PROVE  WalkInv(rank, s)'
  BY <1>1 DEF Ranked, WalkInv
<1> QED  BY <1>3, <1>4 DEF Ranked, Endpoint!Lists, Endpoint!Ids

\* register_endpoint, up to push_front.
LEMMA RegisterKeeps ==
    ASSUME CommsParams, CommsInv, NEW r \in Registrars,
           Endpoint!Register(r) \/ Endpoint!Push(r) \/ Endpoint!PushNode(r)
    PROVE  CommsInv'
<1> DEFINE e == Endpoint!Target(r)
<1>0. Endpoint!TypeOK /\ RegisterInv
  BY DEF CommsInv
<1>1. /\ e \in Endpoints
      /\ plan.preemptive => \A q \in Registrars : q # r => Endpoint!Target(q) # e
      /\ Endpoint!Registered \subseteq Endpoints
  BY <1>0, Targets
<1>2. /\ UNCHANGED <<plan, ready, head, spc, to, at, got, expected>>
      /\ rpc' \in [Registrars -> {"start", "await", "checked", "set", "done", "refused"}]
      /\ rpc'[r] # "done" /\ rpc[r] # "done"
      /\ \A q \in Registrars : q # r => rpc'[q] = rpc[q]
  BY <1>0 DEF Endpoint!TypeOK, Endpoint!Register, Endpoint!Push, Endpoint!PushNode, Endpoint!routing
<1>3. \A q : Endpoint!Target(q)' = Endpoint!Target(q)
  BY <1>2 DEF Endpoint!Target
<1>4. Endpoint!Registered' = Endpoint!Registered
  BY <1>2, <1>3 DEF Endpoint!Registered
<1>5. CASE Endpoint!Register(r)
  <2>1. /\ delegator' = [delegator EXCEPT ![e] = r] /\ node' = node /\ rpc'[r] = "await" /\ rpc[r] = "start"
    BY <1>0, <1>5 DEF Endpoint!Register, Endpoint!TypeOK
  <2> HIDE DEF e
  <2>2. /\ delegator' \in [Endpoints -> Registrars \cup {None}]
        /\ delegator'[e] # None /\ \A f \in Endpoints : delegator[f] # None => delegator'[f] # None
    BY <1>0, <1>1, <2>1 DEF Endpoint!TypeOK, CommsParams
  <2>3. Endpoint!TypeOK'
    BY <1>0, <1>2, <2>1, <2>2 DEF Endpoint!TypeOK, Endpoint!Lists, Endpoint!Ids
  <2>4. RegisterInv'
    BY <1>0, <1>2, <1>3, <2>1, <2>2, Targets DEF RegisterInv, e, Going
  <2>5. \A k, rank : Ranked(k, rank) => Ranked(k, rank)'
    BY <1>1, <1>2, <1>4, <2>1, RanksKept
  <2> QED  BY <2>3, <2>4, <2>5 DEF CommsInv
<1>6. CASE Endpoint!Push(r)
  <2>1. /\ delegator' = delegator /\ node' = node /\ rpc[r] = "await" /\ Endpoint!Runs(r)
        /\ rpc'[r] = (IF node[e].valid THEN "refused" ELSE "checked")
    BY <1>0, <1>6 DEF Endpoint!Push, Endpoint!TypeOK
  <2> HIDE DEF e
  <2>2. Endpoint!TypeOK'
    BY <1>0, <1>2, <2>1 DEF Endpoint!TypeOK, Endpoint!Lists, Endpoint!Ids
  <2>3. ASSUME NEW q \in Registrars, q # r, Endpoint!Target(q) = e, rpc'[r] = "checked"
        PROVE  rpc[q] \notin Going
    <3>1. ~node[e].valid
      BY <2>1, <2>3
    <3>2. rpc[q] \notin {"set", "done"}
      BY <1>0, <2>3, <3>1 DEF RegisterInv
    <3>3. rpc[q] # "checked"
      BY <1>1, <2>1, <2>3 DEF Endpoint!Runs
    <3> QED  BY <3>2, <3>3 DEF Going
  <2>4. RegisterInv'
    <3>1. ASSUME NEW q \in Registrars
          PROVE  /\ rpc'[q] = "checked" => ~node[Endpoint!Target(q)].valid
                 /\ rpc'[q] \in {"set", "done"} => node[Endpoint!Target(q)].valid
                 /\ rpc'[q] = "set" => node[Endpoint!Target(q)].next = None
                 /\ rpc'[q] # "start" => delegator[Endpoint!Target(q)] # None
      BY <1>0, <1>2, <2>1 DEF RegisterInv, e
    <3>2. ASSUME NEW p \in Registrars, NEW q \in Registrars, p # q,
                 Endpoint!Target(p) = Endpoint!Target(q), rpc'[p] \in Going, rpc'[q] \in Going
          PROVE  FALSE
      <4>1. p # r /\ q # r
        <5>1. rpc'[r] \in Going => rpc'[r] = "checked"
          BY <2>1 DEF Going
        <5> QED  BY <1>2, <2>3, <3>2, <5>1 DEF e
      <4> QED  BY <1>0, <1>2, <3>2, <4>1 DEF RegisterInv
    <3> QED  BY <1>3, <2>1, <3>1, <3>2 DEF RegisterInv
  <2>5. \A k, rank : Ranked(k, rank) => Ranked(k, rank)'
    BY <1>1, <1>2, <1>4, <2>1, RanksKept
  <2> QED  BY <2>2, <2>4, <2>5 DEF CommsInv
<1>7. CASE Endpoint!PushNode(r)
  <2>1. /\ delegator' = delegator /\ rpc[r] = "checked" /\ rpc'[r] = "set"
        /\ node' = [node EXCEPT ![e] = [next |-> None, valid |-> TRUE]]
    BY <1>0, <1>7 DEF Endpoint!PushNode, Endpoint!TypeOK
  <2>2. e \notin Endpoint!Registered
    BY <1>0, <2>1 DEF Endpoint!Registered, RegisterInv, Going
  <2> HIDE DEF e
  <2>3. /\ node' \in [Endpoints -> [next : Endpoints \cup {None}, valid : BOOLEAN]]
        /\ node'[e].next = None /\ node'[e].valid
        /\ \A f \in Endpoints : f # e => node'[f] = node[f]
    BY <1>0, <1>1, <2>1 DEF Endpoint!TypeOK
  <2>4. Endpoint!TypeOK'
    BY <1>0, <1>2, <2>1, <2>3 DEF Endpoint!TypeOK, Endpoint!Lists, Endpoint!Ids
  <2>5. RegisterInv'
    <3>1. ASSUME NEW q \in Registrars
          PROVE  /\ rpc'[q] = "checked" => ~node'[Endpoint!Target(q)].valid
                 /\ rpc'[q] \in {"set", "done"} => node'[Endpoint!Target(q)].valid
                 /\ rpc'[q] = "set" => node'[Endpoint!Target(q)].next = None
                 /\ rpc'[q] # "start" => delegator[Endpoint!Target(q)] # None
      <4>1. CASE q = r
        BY <1>0, <2>1, <2>3, <4>1 DEF RegisterInv, e
      <4>2. CASE q # r /\ Endpoint!Target(q) = e
        <5>1. rpc[q] \notin Going
          BY <1>0, <2>1, <4>2 DEF RegisterInv, Going, e
        <5> QED  BY <1>0, <1>2, <4>2, <5>1 DEF RegisterInv, Going
      <4>3. CASE q # r /\ Endpoint!Target(q) # e
        BY <1>0, <1>2, <2>3, <4>3, Targets DEF RegisterInv
      <4> QED  BY <4>1, <4>2, <4>3
    <3>2. ASSUME NEW p \in Registrars, NEW q \in Registrars, p # q,
                 Endpoint!Target(p) = Endpoint!Target(q), rpc'[p] \in Going, rpc'[q] \in Going
          PROVE  FALSE
      BY <1>0, <1>2, <2>1, <3>2 DEF RegisterInv, Going
    <3> QED  BY <1>3, <2>1, <3>1, <3>2 DEF RegisterInv
  <2>6. \A f \in Endpoint!Registered : node'[f] = node[f]
    BY <1>1, <2>2, <2>3
  <2>7. \A k, rank : Ranked(k, rank) => Ranked(k, rank)'
    BY <1>1, <1>2, <1>4, <2>6, RanksKept
  <2> QED  BY <2>4, <2>5, <2>7 DEF CommsInv
<1> QED  BY <1>5, <1>6, <1>7

\* A new first endpoint, of a rank above all others.
LEMMA PushLinks ==
    ASSUME NEW k \in Nat, NEW rank \in [Endpoints -> Nat], \A f \in Endpoints : rank[f] <= k,
           NEW S \in SUBSET Endpoints, NEW e \in Endpoints \ S, None \notin Endpoints,
           NEW h, NEW n, NEW m, Linked(rank, S, h, n),
           \A f \in S : m[f].next = n[f].next, m[e].next = h
    PROVE  Linked([rank EXCEPT ![e] = k + 1], S \cup {e}, e, m)
<1> DEFINE rnew == [rank EXCEPT ![e] = k + 1]
<1>1. rnew[e] = k + 1 /\ (\A f \in S : rnew[f] = rank[f] /\ rank[f] \in Nat /\ rank[f] <= k)
  OBVIOUS
<1> HIDE DEF rnew
<1>2. \A f, g \in S \cup {e} : rnew[f] = rnew[g] => f = g
  BY <1>1 DEF Linked
<1>3. \A f \in S \cup {e} : rnew[f] <= rnew[e]
  BY <1>1
<1>4. ASSUME NEW f \in S
      PROVE  /\ m[f].next = None => \A g \in S \cup {e} : rnew[f] <= rnew[g]
             /\ m[f].next # None =>
                   /\ m[f].next \in S \cup {e} /\ rnew[m[f].next] < rnew[f]
                   /\ \A g \in S \cup {e} : rnew[g] <= rnew[m[f].next] \/ rnew[f] <= rnew[g]
  BY <1>1 DEF Linked
<1>5. /\ m[e].next = None => S = {}
      /\ m[e].next # None => m[e].next \in S /\ \A g \in S : rank[g] <= rank[m[e].next]
  BY DEF Linked
<1>6. /\ m[e].next = None => \A g \in S \cup {e} : rnew[e] <= rnew[g]
      /\ m[e].next # None =>
            /\ m[e].next \in S \cup {e} /\ rnew[m[e].next] < rnew[e]
            /\ \A g \in S \cup {e} : rnew[g] <= rnew[m[e].next] \/ rnew[e] <= rnew[g]
  BY <1>1, <1>5
<1> QED  BY <1>2, <1>3, <1>4, <1>6 DEF Linked, rnew

\* push_front: walks that are under way do not see the new endpoint.
LEMMA PushFrontKeeps ==
    ASSUME CommsParams, CommsInv, NEW r \in Registrars, Endpoint!PushFront(r)
    PROVE  CommsInv'
<1> DEFINE e == Endpoint!Target(r)
           l == ListOf[IdOf[e]]
<1>0. Endpoint!TypeOK /\ RegisterInv
  BY DEF CommsInv
<1>1. /\ e \in Endpoints /\ l \in Endpoint!Lists /\ Endpoint!Registered \subseteq Endpoints
      /\ None \notin Endpoints
  BY <1>0, Targets DEF CommsParams
<1>2. /\ rpc[r] = "set" /\ rpc' = [rpc EXCEPT ![r] = "done"]
      /\ node' = (IF head[l] # None THEN [node EXCEPT ![e].next = head[l]] ELSE node)
      /\ head' = [head EXCEPT ![l] = e]
      /\ UNCHANGED <<plan, ready, delegator, spc, to, at, got, expected>>
  BY DEF Endpoint!PushFront, Endpoint!routing
<1>3. \A q : Endpoint!Target(q)' = Endpoint!Target(q)
  BY <1>2 DEF Endpoint!Target
<1>4. e \notin Endpoint!Registered
  BY <1>0, <1>2 DEF Endpoint!Registered, RegisterInv, Going
<1>5. Endpoint!Registered' = Endpoint!Registered \cup {e}
  BY <1>0, <1>2, <1>3 DEF Endpoint!Registered, Endpoint!TypeOK
<1>6. node[e].next = None /\ node[e].valid
  BY <1>0, <1>2 DEF RegisterInv
<1> HIDE DEF e
<1>7. /\ node' \in [Endpoints -> [next : Endpoints \cup {None}, valid : BOOLEAN]]
      /\ node'[e].next = head[l] /\ node'[e].valid
      /\ \A f \in Endpoints : f # e => node'[f] = node[f]
  BY <1>0, <1>1, <1>2, <1>6 DEF Endpoint!TypeOK
<1> HIDE DEF l
<1>8. /\ rpc' \in [Registrars -> {"start", "await", "checked", "set", "done", "refused"}]
      /\ rpc'[r] = "done" /\ \A q \in Registrars : q # r => rpc'[q] = rpc[q]
      /\ head' \in [Endpoint!Lists -> Endpoints \cup {None}] /\ head'[l] = e
      /\ \A x \in Endpoint!Lists : x # l => head'[x] = head[x]
  BY <1>0, <1>1, <1>2 DEF Endpoint!TypeOK
<1>9. Endpoint!TypeOK'
  BY <1>0, <1>2, <1>7, <1>8 DEF Endpoint!TypeOK, Endpoint!Lists, Endpoint!Ids
<1>10. RegisterInv'
  <2>1. ASSUME NEW q \in Registrars
        PROVE  /\ rpc'[q] = "checked" => ~node'[Endpoint!Target(q)].valid
               /\ rpc'[q] \in {"set", "done"} => node'[Endpoint!Target(q)].valid
               /\ rpc'[q] = "set" => node'[Endpoint!Target(q)].next = None
               /\ rpc'[q] # "start" => delegator[Endpoint!Target(q)] # None
    <3>1. CASE q = r
      BY <1>0, <1>2, <1>7, <1>8, <3>1 DEF RegisterInv, e
    <3>2. CASE q # r /\ Endpoint!Target(q) = e
      <4>1. rpc[q] \notin Going
        BY <1>0, <1>2, <3>2 DEF RegisterInv, Going, e
      <4> QED  BY <1>0, <1>8, <3>2, <4>1 DEF RegisterInv, Going
    <3>3. CASE q # r /\ Endpoint!Target(q) # e
      BY <1>0, <1>7, <1>8, <3>3, Targets DEF RegisterInv
    <3> QED  BY <3>1, <3>2, <3>3
  <2>2. ASSUME NEW p \in Registrars, NEW q \in Registrars, p # q,
               Endpoint!Target(p) = Endpoint!Target(q), rpc'[p] \in Going, rpc'[q] \in Going
        PROVE  FALSE
    BY <1>0, <1>2, <1>8, <2>2 DEF RegisterInv, Going
  <2> QED  BY <1>2, <1>3, <2>1, <2>2 DEF RegisterInv
<1>11. PICK k \in Nat, rank \in [Endpoints -> Nat] : Ranked(k, rank)
  BY DEF CommsInv
<1>a. PICK rnew : rnew = [rank EXCEPT ![e] = k + 1]
  OBVIOUS
<1>12. /\ rnew \in [Endpoints -> Nat] /\ k + 1 \in Nat /\ rnew[e] = k + 1
       /\ \A f \in Endpoints : (f # e => rnew[f] = rank[f]) /\ rank[f] <= k /\ rnew[f] <= k + 1
  BY <1>1, <1>11, <1>a DEF Ranked
<1>13. ASSUME NEW x \in Endpoint!Lists
       PROVE  Linked(rnew, OnList(x)', head'[x], node')
  <2>1. Linked(rank, OnList(x), head[x], node)
    BY <1>11 DEF Ranked
  <2>2. OnList(x) \in SUBSET Endpoints /\ e \notin OnList(x)
    BY <1>1, <1>4 DEF OnList
  <2>3. CASE x = l
    <3>1. OnList(x)' = OnList(x) \cup {e} /\ head'[x] = e
      BY <1>5, <1>8, <2>3 DEF OnList, l
    <3>2. Linked(rnew, OnList(x) \cup {e}, e, node')
      <4>1. \A f \in OnList(x) : node'[f].next = node[f].next
        BY <1>7, <2>2
      <4>2. node'[e].next = head[x] /\ \A f \in Endpoints : rank[f] <= k
        BY <1>7, <1>12, <2>3
      <4> QED  BY <1>1, <1>11, <1>a, <2>1, <2>2, <4>1, <4>2, PushLinks
    <3> QED  BY <3>1, <3>2
  <2>4. CASE x # l
    <3>1. OnList(x)' = OnList(x) /\ head'[x] = head[x]
      BY <1>5, <1>8, <2>4 DEF OnList, l
    <3>2. \A f \in OnList(x) : node'[f] = node[f] /\ rnew[f] = rank[f]
      BY <1>7, <1>12, <2>2
    <3>3. \A f \in OnList(x) : node[f].next # None => node[f].next \in OnList(x)
      BY <2>1 DEF Linked
    <3> QED  BY <2>1, <3>1, <3>2, <3>3 DEF Linked
  <2> QED  BY <2>3, <2>4
<1>14. ASSUME NEW s \in Senders
       PROVE  WalkInv(rnew, s)'
  <2>1. WalkInv(rank, s)
    BY <1>11 DEF Ranked
  <2>2. ASSUME spc[s] = "route"
        PROVE  /\ expected[s] \subseteq {f \in Endpoint!Registered' : IdOf[f] = to[s]}
               /\ at[s] # None => at[s] \in OnList(ListOf[to[s]])'
               /\ \A f \in expected[s] : (at[s] = None \/ rnew[f] > rnew[at[s]]) => got[s][f] = 1
               /\ \A f \in Endpoints : (at[s] # None /\ rnew[f] <= rnew[at[s]]) => got[s][f] = 0
    <3>1. expected[s] \subseteq {f \in Endpoint!Registered' : IdOf[f] = to[s]}
      BY <1>5, <2>1, <2>2 DEF WalkInv
    <3>2. at[s] # None =>
             at[s] \in OnList(ListOf[to[s]])' /\ rnew[at[s]] = rank[at[s]] /\ rank[at[s]] \in Nat
             /\ rank[at[s]] <= k
      BY <1>1, <1>2, <1>4, <1>5, <1>12, <2>1, <2>2 DEF WalkInv, OnList
    <3>3. \A f \in expected[s] : f \in Endpoints /\ rnew[f] = rank[f]
      BY <1>1, <1>4, <1>12, <2>1, <2>2 DEF WalkInv
    <3>4. \A f \in expected[s] : (at[s] = None \/ rnew[f] > rnew[at[s]]) => got[s][f] = 1
      BY <2>1, <2>2, <3>2, <3>3 DEF WalkInv
    <3>5. \A f \in Endpoints : (at[s] # None /\ rnew[f] <= rnew[at[s]]) => got[s][f] = 0
      BY <1>12, <2>1, <2>2, <3>2 DEF WalkInv
    <3> QED  BY <3>1, <3>2, <3>4, <3>5
  <2> QED  BY <1>2, <2>1, <2>2 DEF WalkInv
<1>15. Ranked(k + 1, rnew)'
  BY <1>12, <1>13, <1>14 DEF Ranked, Endpoint!Lists, Endpoint!Ids
<1> QED  BY <1>9, <1>10, <1>12, <1>15 DEF CommsInv

\* send and route.
LEMMA SendKeeps ==
    ASSUME CommsParams, CommsInv, NEW s \in Senders,
           (\E i \in Endpoint!Ids : Endpoint!Send(s, i)) \/ Endpoint!Route(s)
              \/ Endpoint!RouteStep(s) \/ Endpoint!RouteEnd(s)
    PROVE  CommsInv'
<1>0. Endpoint!TypeOK /\ RegisterInv
  BY DEF CommsInv
<1>1. /\ \A r \in Registrars : Endpoint!Target(r) \in Endpoints
      /\ Endpoint!Registered \subseteq Endpoints /\ None \notin Endpoints
  BY <1>0, Targets DEF CommsParams
<1>2. UNCHANGED <<plan, ready, head, node, delegator, rpc>>
  BY DEF Endpoint!Send, Endpoint!Route, Endpoint!RouteStep, Endpoint!RouteEnd, Endpoint!registry
<1>3. Endpoint!Registered' = Endpoint!Registered /\ \A l : OnList(l)' = OnList(l)
  BY <1>2 DEF Endpoint!Registered, Endpoint!Target, OnList
<1>4. RegisterInv'
  BY <1>0, <1>2 DEF RegisterInv, Endpoint!Target
<1>5. PICK k \in Nat, rank \in [Endpoints -> Nat] : Ranked(k, rank)
  BY DEF CommsInv
<1>6. WalkInv(rank, s) /\ \A l \in Endpoint!Lists : Linked(rank, OnList(l), head[l], node)
  BY <1>5 DEF Ranked
<1> DEFINE Goal == /\ spc' \in [Senders -> {"idle", "await", "route"}] /\ to' \in [Senders -> Endpoint!Ids]
                   /\ at' \in [Senders -> Endpoints \cup {None}] /\ got' \in [Senders -> [Endpoints -> 0..2]]
                   /\ expected' \in [Senders -> SUBSET Endpoints]
                   /\ \A z \in Senders : z # s => /\ spc'[z] = spc[z] /\ to'[z] = to[z] /\ at'[z] = at[z]
                                                  /\ got'[z] = got[z] /\ expected'[z] = expected[z]
                   /\ WalkInv(rank, s)'
<1>7. ASSUME NEW i \in Endpoint!Ids, Endpoint!Send(s, i) PROVE Goal
  <2>1. /\ to' = [to EXCEPT ![s] = i] /\ spc' = [spc EXCEPT ![s] = "await"] /\ at' = at
        /\ got' = [got EXCEPT ![s] = [e \in Endpoints |-> 0]] /\ expected' = [expected EXCEPT ![s] = {}]
    BY <1>7 DEF Endpoint!Send
  <2>2. [e \in Endpoints |-> 0] \in [Endpoints -> 0..2]
    OBVIOUS
  <2>3. spc'[s] = "await" /\ got'[s] = [e \in Endpoints |-> 0]
    BY <1>0, <2>1 DEF Endpoint!TypeOK
  <2>4. WalkInv(rank, s)'
    BY <2>3 DEF WalkInv
  <2> QED  BY <1>0, <2>1, <2>2, <2>4 DEF Endpoint!TypeOK
<1>8. ASSUME Endpoint!Route(s) PROVE Goal
  <2> DEFINE l == ListOf[to[s]]
  <2>1. /\ spc[s] = "await" /\ spc' = [spc EXCEPT ![s] = "route"] /\ at' = [at EXCEPT ![s] = head[l]]
        /\ expected' = [expected EXCEPT ![s] = {e \in Endpoint!Registered : IdOf[e] = to[s]}]
        /\ to' = to /\ got' = got
    BY <1>8 DEF Endpoint!Route
  <2>2. to[s] \in Endpoint!Ids /\ l \in Endpoint!Lists /\ head[l] \in Endpoints \cup {None}
    BY <1>0 DEF Endpoint!TypeOK, Endpoint!Lists
  <2>3. Linked(rank, OnList(l), head[l], node)
    BY <1>6, <2>2
  <2>4. /\ spc'[s] = "route" /\ at'[s] = head[l] /\ to'[s] = to[s] /\ got'[s] = got[s]
        /\ expected'[s] = {e \in Endpoint!Registered : IdOf[e] = to[s]}
    BY <1>0, <2>1 DEF Endpoint!TypeOK
  <2>5. got[s] = [e \in Endpoints |-> 0]
    BY <1>6, <2>1 DEF WalkInv
  <2>6. \A e \in expected'[s] : e \in OnList(l) /\ e \in Endpoints
    BY <1>1, <2>4 DEF OnList
  <2> HIDE DEF l
  <2>7. \A e \in expected'[s] : ~(at'[s] = None \/ rank[e] > rank[at'[s]])
    BY <1>5, <2>2, <2>3, <2>4, <2>6 DEF Linked
  <2>8. at'[s] # None => at'[s] \in OnList(l)
    BY <2>3, <2>4 DEF Linked
  <2>9. WalkInv(rank, s)'
    BY <1>3, <2>4, <2>5, <2>7, <2>8 DEF WalkInv, l
  <2> QED  BY <1>0, <1>1, <2>1, <2>2, <2>9 DEF Endpoint!TypeOK
<1>9. ASSUME Endpoint!RouteStep(s) PROVE Goal
  <2> DEFINE a == at[s]
             b == node[a].next
             l == ListOf[to[s]]
  <2>1. /\ spc[s] = "route" /\ a # None /\ UNCHANGED <<spc, to, expected>>
        /\ got' = (IF Endpoint!Receives(a) /\ IdOf[a] = to[s] /\ got[s][a] < 2
                   THEN [got EXCEPT ![s][a] = @ + 1] ELSE got)
        /\ at' = [at EXCEPT ![s] = b]
    BY <1>9 DEF Endpoint!RouteStep
  <2>2. /\ expected[s] \subseteq {e \in Endpoint!Registered : IdOf[e] = to[s]}
        /\ a \in OnList(l)
        /\ \A e \in Endpoints : got[s][e] <= (IF IdOf[e] = to[s] THEN 1 ELSE 0)
        /\ \A e \in expected[s] : rank[e] > rank[a] => got[s][e] = 1
        /\ \A e \in Endpoints : rank[e] <= rank[a] => got[s][e] = 0
    BY <1>6, <2>1 DEF WalkInv
  <2>3. a \in Endpoints /\ a \in Endpoint!Registered /\ rank[a] \in Nat /\ got[s][a] = 0
    BY <1>1, <1>5, <2>2 DEF OnList
  <2>4. Endpoint!Receives(a)
    BY <1>0, <2>3 DEF Endpoint!Receives, Endpoint!Registered, RegisterInv
  <2>5. to[s] \in Endpoint!Ids /\ l \in Endpoint!Lists /\ b \in Endpoints \cup {None}
    BY <1>0, <2>3 DEF Endpoint!TypeOK, Endpoint!Lists
  <2>6. /\ b = None => \A f \in OnList(l) : rank[a] <= rank[f]
        /\ b # None => /\ b \in OnList(l) /\ rank[b] < rank[a]
                       /\ \A f \in OnList(l) : rank[f] <= rank[b] \/ rank[a] <= rank[f]
    BY <1>6, <2>2, <2>5 DEF Linked
  <2>7. /\ got' \in [Senders -> [Endpoints -> 0..2]]
        /\ \A z \in Senders : z # s => got'[z] = got[z]
        /\ \A e \in Endpoints : e # a => got'[s][e] = got[s][e]
        /\ got'[s][a] = IF IdOf[a] = to[s] THEN 1 ELSE 0
    <3>1. got[s] \in [Endpoints -> 0..2] /\ got \in [Senders -> [Endpoints -> 0..2]]
      BY <1>0 DEF Endpoint!TypeOK
    <3> DEFINE g == [got[s] EXCEPT ![a] = 1]
    <3>2. g \in [Endpoints -> 0..2] /\ g[a] = 1 /\ \A e \in Endpoints : e # a => g[e] = got[s][e]
      BY <2>3, <3>1
    <3> HIDE DEF g
    <3>3. CASE IdOf[a] = to[s]
      <4>1. got' = [got EXCEPT ![s] = [got[s] EXCEPT ![a] = got[s][a] + 1]]
        BY <2>1, <2>3, <2>4, <3>1, <3>3
      <4>2. got' = [got EXCEPT ![s] = g]
        BY <2>3, <4>1 DEF g
      <4> QED  BY <3>1, <3>2, <3>3, <4>2
    <3>4. CASE IdOf[a] # to[s]
      BY <2>1, <2>3, <3>1, <3>4
    <3> QED  BY <3>3, <3>4
  <2>8. /\ at'[s] = b /\ spc'[s] = "route" /\ to'[s] = to[s] /\ expected'[s] = expected[s]
    BY <1>0, <2>1 DEF Endpoint!TypeOK
  <2> HIDE DEF a, b, l
  <2>9. \A e \in Endpoints : got'[s][e] <= (IF IdOf[e] = to[s] THEN 1 ELSE 0)
    BY <2>2, <2>7
  <2>10. ASSUME NEW e \in expected[s], b = None \/ rank[e] > rank[b] PROVE got'[s][e] = 1
    <3>1. e \in OnList(l) /\ e \in Endpoints /\ IdOf[e] = to[s] /\ rank[e] \in Nat
      BY <1>1, <1>5, <2>2 DEF OnList, l
    <3>2. CASE e = a
      BY <2>7, <3>1, <3>2
    <3>3. CASE e # a
      <4>1. rank[e] # rank[a]
        BY <1>6, <2>2, <2>5, <3>1, <3>3 DEF Linked
      <4>2. rank[e] > rank[a]
        BY <1>5, <2>3, <2>5, <2>6, <2>10, <3>1, <4>1
      <4> QED  BY <2>2, <2>7, <3>1, <3>3, <4>2
    <3> QED  BY <3>2, <3>3
  <2>11. ASSUME NEW e \in Endpoints, b # None, rank[e] <= rank[b] PROVE got'[s][e] = 0
    <3>1. rank[e] < rank[a] /\ rank[e] \in Nat
      BY <1>5, <2>3, <2>5, <2>6, <2>11
    <3> QED  BY <2>2, <2>3, <2>7, <3>1
  <2>12. WalkInv(rank, s)'
    BY <1>3, <2>2, <2>6, <2>8, <2>9, <2>10, <2>11 DEF WalkInv, l
  <2> QED  BY <1>0, <2>1, <2>5, <2>7, <2>12 DEF Endpoint!TypeOK
<1>10. ASSUME Endpoint!RouteEnd(s) PROVE Goal
  <2>1. spc' = [spc EXCEPT ![s] = "idle"] /\ UNCHANGED <<to, at, got, expected>>
    BY <1>10 DEF Endpoint!RouteEnd
  <2>2. spc'[s] = "idle"
    BY <1>0, <2>1 DEF Endpoint!TypeOK
  <2>3. WalkInv(rank, s)'
    BY <2>2 DEF WalkInv
  <2> QED  BY <1>0, <2>1, <2>3 DEF Endpoint!TypeOK
<1>11. Goal
  BY <1>7, <1>8, <1>9, <1>10
<1> HIDE DEF Goal
<1>12. Endpoint!TypeOK'
  BY <1>0, <1>2, <1>11 DEF Endpoint!TypeOK, Goal, Endpoint!Lists, Endpoint!Ids
<1>13. ASSUME NEW z \in Senders PROVE WalkInv(rank, z)'
  <2>1. CASE z = s
    BY <1>11, <2>1 DEF Goal
  <2>2. CASE z # s
    <3>1. WalkInv(rank, z)
      BY <1>5 DEF Ranked
    <3>2. /\ spc'[z] = spc[z] /\ to'[z] = to[z] /\ at'[z] = at[z]
          /\ got'[z] = got[z] /\ expected'[z] = expected[z]
      BY <1>11, <2>2 DEF Goal
    <3> QED  BY <1>3, <3>1, <3>2 DEF WalkInv
  <2> QED  BY <2>1, <2>2
<1>14. Ranked(k, rank)'
  BY <1>2, <1>3, <1>5, <1>13 DEF Ranked, Endpoint!Lists, Endpoint!Ids
<1> QED  BY <1>4, <1>5, <1>12, <1>14 DEF CommsInv

LEMMA CommsStep == CommsParams /\ CommsInv /\ [Endpoint!Next]_(Endpoint!vars) => CommsInv'
<1> SUFFICES ASSUME CommsParams, CommsInv, [Endpoint!Next]_(Endpoint!vars) PROVE CommsInv'
  OBVIOUS
<1>1. CASE Endpoint!InitLists \/ UNCHANGED Endpoint!vars
  <2>0. Endpoint!TypeOK /\ RegisterInv
    BY DEF CommsInv
  <2>1. UNCHANGED <<plan, head, node, delegator, rpc, spc, to, at, got, expected>>
    BY <1>1 DEF Endpoint!InitLists, Endpoint!vars, Endpoint!routing
  <2>2. ready' \in BOOLEAN
    BY <1>1, <2>0, Zenon DEF Endpoint!InitLists, Endpoint!vars, Endpoint!TypeOK
  <2>3. Endpoint!TypeOK'
    BY <2>0, <2>1, <2>2 DEF Endpoint!TypeOK, Endpoint!Lists, Endpoint!Ids
  <2>4. RegisterInv' /\ Endpoint!Registered' = Endpoint!Registered
    BY <2>0, <2>1 DEF RegisterInv, Endpoint!Target, Endpoint!Registered
  <2>5. \A k, rank : Ranked(k, rank) => Ranked(k, rank)'
    BY <2>0, <2>1, <2>4, Targets, RanksKept
  <2> QED  BY <2>3, <2>4, <2>5 DEF CommsInv
<1> QED  BY <1>1, RegisterKeeps, PushFrontKeeps, SendKeeps DEF Endpoint!Next

\* A set of natural numbers has a least element.
LEMMA LeastOf ==
    ASSUME NEW T \in SUBSET Nat, T # {}
    PROVE  \E x \in T : \A y \in T : x <= y
<1> DEFINE R == {ss \in Nat \X Nat : ss[1] < ss[2]}
<1>1. IsWellFoundedOn(R, Nat)
  BY NatLessThanWellFounded DEF OpToRel
<1>2. \A x, y \in T : <<y, x>> \in R <=> y < x
  OBVIOUS
<1> HIDE DEF R
<1>3. PICK x \in T : \A y \in T : ~(y < x)
  BY <1>1, <1>2, WFMin
<1> QED  BY <1>3

\* What holds for 0 and goes on to the next number holds up to n.
LEMMA Upwards ==
    ASSUME NEW n \in Nat, NEW T, 0 \in T, \A i \in 1..n : i - 1 \in T => i \in T
    PROVE  \A i \in 0..n : i \in T
<1> SUFFICES ASSUME NEW m \in 0..n, m \notin T PROVE FALSE
  OBVIOUS
<1> DEFINE Out == {i \in 0..n : i \notin T}
<1>0. Out \in SUBSET Nat /\ Out # {}
  OBVIOUS
<1>1. PICK x \in Out : \A y \in Out : x <= y
  BY <1>0, LeastOf
<1>2. x \in 1..n /\ x - 1 \in 0..n /\ ~(x <= x - 1)
  BY <1>1
<1> QED  BY <1>1, <1>2

\* Walk is what its definition says, step by step.
LEMMA WalkGoes ==
    ASSUME NEW l, NEW n \in Nat, n = Endpoint!Cardinality(Endpoints)
    PROVE  /\ DOMAIN Endpoint!Walk(l) = 0..n
           /\ Endpoint!Walk(l)[0] = head[l]
           /\ \A i \in 1..n : Endpoint!Walk(l)[i] = IF Endpoint!Walk(l)[i - 1] = None THEN None
                                                    ELSE node[Endpoint!Walk(l)[i - 1]].next
<1> DEFINE After(x) == IF x = None THEN None ELSE node[x].next
           Goes(k, f) == f = [i \in 0..k |-> f[i]] /\ f[0] = head[l] /\ \A i \in 1..k : f[i] = After(f[i - 1])
           T == {k \in 0..n : \E f : Goes(k, f)}
<1>1. 0 \in T
  <2>1. Goes(0, [i \in 0..0 |-> head[l]])
    OBVIOUS
  <2> HIDE DEF Goes
  <2>2. \E f : Goes(0, f)
    BY <2>1, Zenon
  <2> QED  BY <2>2
<1>2. ASSUME NEW k \in 1..n, k - 1 \in T PROVE k \in T
  <2>1. PICK f : Goes(k - 1, f)
    BY <1>2
  <2> DEFINE g == [i \in 0..k |-> IF i = k THEN After(f[k - 1]) ELSE f[i]]
  <2> HIDE DEF After
  <2>2. Goes(k, g)
    <3>1. g = [i \in 0..k |-> g[i]] /\ g[0] = head[l]
      BY <2>1
    <3>2. ASSUME NEW i \in 1..k PROVE g[i] = After(g[i - 1])
      <4>1. CASE i = k
        BY <4>1
      <4>2. CASE i # k
        <5>1. i \in 1..(k - 1) /\ g[i] = f[i] /\ g[i - 1] = f[i - 1]
          BY <4>2
        <5>2. f[i] = After(f[i - 1])
          BY <2>1, <5>1
        <5> QED  BY <5>1, <5>2
      <4> QED  BY <4>1, <4>2
    <3> QED  BY <3>1, <3>2
  <2> HIDE DEF g, Goes
  <2> QED  BY <2>2
<1>3. n \in T
  <2> HIDE DEF T
  <2> QED  BY <1>1, <1>2, Upwards
<1>4. PICK f : Goes(n, f)
  BY <1>3
<1>5. f = [i \in 0..Endpoint!Cardinality(Endpoints) |->
             IF i = 0 THEN head[l] ELSE IF f[i - 1] = None THEN None ELSE node[f[i - 1]].next]
  <2> DEFINE X(i) == IF i = 0 THEN head[l] ELSE IF f[i - 1] = None THEN None ELSE node[f[i - 1]].next
  <2>1. ASSUME NEW i \in 0..n PROVE f[i] = X(i)
    <3>1. CASE i = 0
      BY <1>4, <3>1
    <3>2. CASE i # 0
      <4>1. i \in 1..n
        BY <3>2
      <4>2. f[i] = After(f[i - 1])
        BY <1>4, <4>1
      <4> QED  BY <3>2, <4>2
    <3> QED  BY <3>1, <3>2
  <2>2. f = [i \in 0..n |-> f[i]]
    BY <1>4
  <2> HIDE DEF X
  <2>3. [i \in 0..n |-> f[i]] = [i \in 0..n |-> X(i)]
    BY <2>1
  <2>4. f = [i \in 0..n |-> X(i)]
    BY <2>2, <2>3, Zenon
  <2> QED  BY <2>4, Zenon DEF X
<1>6. Endpoint!Walk(l) =
         [i \in 0..Endpoint!Cardinality(Endpoints) |->
             IF i = 0 THEN head[l]
             ELSE IF Endpoint!Walk(l)[i - 1] = None THEN None ELSE node[Endpoint!Walk(l)[i - 1]].next]
  BY <1>5, Zenon DEF Endpoint!Walk
<1> QED  BY <1>6

\* w follows the list that starts at h for m steps.
Follows(w, h, n, m) ==
    w[0] = h /\ \A i \in 1..m : w[i] = IF w[i - 1] = None THEN None ELSE n[w[i - 1]].next

\* As many endpoints of S are above the i-th of the list as there are before it.
InPlace(w, S, rank, m) ==
    \A i \in 0..m : \/ w[i] \in S /\ Cardinality({e \in S : rank[e] > rank[w[i]]}) = i
                    \/ w[i] = None /\ Cardinality(S) <= i

LEMMA WalkCounts ==
    ASSUME NEW S \in SUBSET Endpoints, IsFiniteSet(Endpoints), None \notin Endpoints,
           NEW rank \in [Endpoints -> Nat], NEW h, NEW n, Linked(rank, S, h, n),
           NEW m \in Nat, NEW w, Follows(w, h, n, m)
    PROVE  InPlace(w, S, rank, m)
<1>a. w[0] = h /\ \A i \in 1..m : w[i] = IF w[i - 1] = None THEN None ELSE n[w[i - 1]].next
  BY DEF Follows
<1> DEFINE Above(x) == {e \in S : rank[e] > rank[x]}
           P(i) == \/ w[i] \in S /\ Cardinality(Above(w[i])) = i
                   \/ w[i] = None /\ Cardinality(S) <= i
           T == {i \in 0..m : P(i)}
<1>0. /\ IsFiniteSet(S) /\ Cardinality(S) \in Nat
      /\ \A x : IsFiniteSet(Above(x)) /\ Cardinality(Above(x)) \in Nat
  BY FS_Subset, FS_CardinalityType
<1>1. 0 \in T
  <2>1. CASE h = None
    <3>1. S = {} /\ Cardinality(S) = 0
      BY <2>1, FS_EmptySet DEF Linked
    <3> QED  BY <1>a, <2>1, <3>1
  <2>2. CASE h # None
    <3>1. h \in S /\ Above(h) = {}
      BY <2>2 DEF Linked
    <3>2. Cardinality(Above(h)) = 0
      BY <3>1, FS_EmptySet
    <3> QED  BY <1>a, <3>1, <3>2
  <2> QED  BY <2>1, <2>2
<1>2. ASSUME NEW i \in 1..m, i - 1 \in T PROVE i \in T
  <2> DEFINE x == w[i - 1]
             y == n[x].next
  <2>0. i \in Nat /\ i - 1 \in Nat /\ i \in 0..m
    OBVIOUS
  <2>1. CASE x = None
    <3>1. w[i] = None /\ Cardinality(S) <= i - 1
      BY <1>2, <1>a, <2>1 DEF Linked
    <3> QED  BY <1>0, <2>0, <3>1
  <2>2. CASE x # None
    <3>1. x \in S /\ Cardinality(Above(x)) = i - 1 /\ w[i] = y
      BY <1>2, <1>a, <2>2
    <3>2. x \notin Above(x) /\ Cardinality(Above(x) \cup {x}) = i
      <4>1. x \notin Above(x)
        BY <3>1
      <4>2. Cardinality(Above(x) \cup {x}) = Cardinality(Above(x)) + 1
        <5> HIDE DEF Above, x
        <5> QED  BY <1>0, <4>1, FS_AddElement
      <4> QED  BY <2>0, <3>1, <4>1, <4>2
    <3>3. CASE y = None
      <4>1. S = Above(x) \cup {x}
        <5>1. ASSUME NEW f \in S, f # x PROVE rank[f] > rank[x]
          <6>1. rank[x] <= rank[f] /\ rank[x] # rank[f]
            BY <3>1, <3>3, <5>1 DEF Linked
          <6> QED  BY <3>1, <6>1
        <5> QED  BY <3>1, <5>1
      <4> QED  BY <2>0, <3>1, <3>2, <3>3, <4>1
    <3>4. CASE y # None
      <4>1. y \in S /\ rank[y] < rank[x] /\ \A f \in S : rank[f] <= rank[y] \/ rank[x] <= rank[f]
        BY <3>1, <3>4 DEF Linked
      <4>2. Above(y) = Above(x) \cup {x}
        <5>1. ASSUME NEW f \in S, rank[f] > rank[y], f # x PROVE rank[f] > rank[x]
          <6>1. rank[f] # rank[x]
            BY <3>1, <5>1 DEF Linked
          <6> QED  BY <3>1, <4>1, <5>1, <6>1
        <5>2. \A f \in S : rank[f] > rank[x] => rank[f] > rank[y]
          BY <3>1, <4>1
        <5> QED  BY <3>1, <4>1, <5>1, <5>2
      <4> QED  BY <2>0, <3>1, <3>2, <4>1, <4>2
    <3> QED  BY <3>3, <3>4
  <2> QED  BY <2>1, <2>2
<1> HIDE DEF T
<1>3. \A i \in 0..m : i \in T
  BY <1>1, <1>2, Upwards
<1> QED  BY <1>3 DEF T, InPlace

\* A list that is linked ends, and its walk meets every endpoint on it.
LEMMA LinkedIsIntact ==
    ASSUME CommsParams, CommsInv
    PROVE  Endpoint!ListIntact
<1>0. Endpoint!TypeOK
  BY DEF CommsInv
<1>1. \A S : Endpoint!Cardinality(S) = Cardinality(S)
  BY Zenon DEF Endpoint!Cardinality, Cardinality
<1>2. PICK k \in Nat, rank \in [Endpoints -> Nat] : Ranked(k, rank)
  BY DEF CommsInv
<1> DEFINE N == Endpoint!Cardinality(Endpoints)
<1>3. N = Cardinality(Endpoints) /\ N \in Nat /\ IsFiniteSet(Endpoints) /\ None \notin Endpoints
  BY <1>1, FS_CardinalityType DEF CommsParams
<1> HIDE DEF N
<1>4. ASSUME NEW l \in Endpoint!Lists
      PROVE  /\ Endpoint!Walk(l)[N] = None
             /\ \A e \in OnList(l) : \E i \in DOMAIN Endpoint!Walk(l) : Endpoint!Walk(l)[i] = e
  <2> DEFINE w == Endpoint!Walk(l)
             S == OnList(l)
             Above(x) == {e \in S : rank[e] > rank[x]}
  <2>1. /\ DOMAIN w = 0..N /\ w[0] = head[l]
        /\ \A i \in 1..N : w[i] = IF w[i - 1] = None THEN None ELSE node[w[i - 1]].next
    BY <1>3, WalkGoes DEF N
  <2>2. S \in SUBSET Endpoints /\ Linked(rank, S, head[l], node)
    BY <1>0, <1>2, Targets DEF OnList, Ranked
  <2> HIDE DEF w, S
  <2>3. \A i \in 0..N : \/ w[i] \in S /\ Cardinality(Above(w[i])) = i
                        \/ w[i] = None /\ Cardinality(S) <= i
    <3>1. Follows(w, head[l], node, N)
      BY <2>1 DEF Follows
    <3>2. InPlace(w, S, rank, N)
      BY <1>2, <1>3, <2>2, <3>1, WalkCounts
    <3> QED  BY <3>2 DEF InPlace
  <2>4. /\ IsFiniteSet(S) /\ Cardinality(S) \in Nat /\ Cardinality(S) <= N
        /\ \A x : IsFiniteSet(Above(x)) /\ Cardinality(Above(x)) \in Nat
    BY <1>3, <2>2, FS_Subset, FS_CardinalityType
  <2>5. ASSUME NEW x \in S
        PROVE  /\ Cardinality(Above(x)) + 1 <= Cardinality(S)
               /\ \A y \in S : rank[x] < rank[y] => Cardinality(Above(y)) + 1 <= Cardinality(Above(x))
    <3>1. ASSUME NEW y \in S PROVE Cardinality(Above(y) \cup {y}) = Cardinality(Above(y)) + 1
      <4>1. y \notin Above(y)
        BY <2>2
      <4> QED  BY <2>4, <4>1, FS_AddElement
    <3>2. Cardinality(Above(x) \cup {x}) <= Cardinality(S)
      <4>1. Above(x) \cup {x} \in SUBSET S
        BY <2>5
      <4> HIDE DEF Above
      <4> QED  BY <2>4, <4>1, FS_Subset
    <3>3. ASSUME NEW y \in S, rank[x] < rank[y] PROVE Cardinality(Above(y) \cup {y}) <= Cardinality(Above(x))
      <4>1. Above(y) \cup {y} \in SUBSET Above(x)
        BY <2>2, <2>5, <3>3
      <4> HIDE DEF Above
      <4> QED  BY <2>4, <4>1, FS_Subset
    <3> HIDE DEF Above
    <3> QED  BY <2>5, <3>1, <3>2, <3>3
  <2> HIDE DEF Above
  <2>6. w[N] = None
    BY <1>3, <2>3, <2>4, <2>5
  <2>7. ASSUME NEW e \in S PROVE \E i \in DOMAIN w : w[i] = e
    <3> DEFINE i == Cardinality(Above(e))
    <3>1. i \in 0..N /\ ~(Cardinality(S) <= i)
      BY <1>3, <2>4, <2>5
    <3>2. w[i] \in S /\ Cardinality(Above(w[i])) = i
      BY <2>3, <3>1
    <3>3. ~(rank[w[i]] < rank[e]) /\ ~(rank[e] < rank[w[i]])
      BY <2>4, <2>5, <3>1, <3>2
    <3>4. rank[w[i]] = rank[e]
      BY <1>2, <2>2, <3>2, <3>3
    <3>5. w[i] = e
      BY <2>2, <3>2, <3>4 DEF Linked
    <3> HIDE DEF i
    <3> QED  BY <2>1, <3>1, <3>5
  <2> QED  BY <2>6, <2>7 DEF w, S
<1>5. ASSUME NEW e \in Endpoint!Registered
      PROVE  ListOf[IdOf[e]] \in Endpoint!Lists /\ e \in OnList(ListOf[IdOf[e]])
  BY <1>0, Targets DEF OnList
<1> QED  BY <1>4, <1>5 DEF Endpoint!ListIntact, N

\* A list of endpoints ends and holds every endpoint that was registered, no
\* endpoint is registered twice, and a message reaches every registered endpoint
\* of its id once and no other, for any number of endpoints, registrations and
\* messages and however they interrupt each other (comms.rs, intrusive_list.rs).
THEOREM EndpointsReachedHolds ==
    ASSUME CommsParams
    PROVE  Endpoint!Spec => []EndpointsReached
<1>1. Endpoint!Init => CommsInv
  BY CommsInit
<1>2. CommsInv /\ [Endpoint!Next]_(Endpoint!vars) => CommsInv'
  BY CommsStep
<1>3. CommsInv => EndpointsReached
  <2> SUFFICES ASSUME CommsInv PROVE EndpointsReached
    OBVIOUS
  <2>1. Endpoint!TypeOK /\ Endpoint!ListIntact
    BY LinkedIsIntact DEF CommsInv
  <2>2. Endpoint!RegisteredOnce
    BY DEF CommsInv, RegisterInv, Going, Endpoint!RegisteredOnce
  <2>3. Endpoint!DeliveredOnce
    <3>1. PICK k \in Nat, rank \in [Endpoints -> Nat] : Ranked(k, rank)
      BY DEF CommsInv
    <3> QED  BY <3>1 DEF Ranked, WalkInv, Endpoint!DeliveredOnce
  <2> QED  BY <2>1, <2>2, <2>3 DEF EndpointsReached
<1> QED  BY <1>1, <1>2, <1>3, PTL DEF Endpoint!Spec

-----------------------------------------------------------------------------
(* The HID passthrough.                                                    *)

\* A device has or works on what the host asked for, or on nothing.
AskedOnly ==
    /\ request \in [PassDevices -> {Passthrough!NoRequest, asked}]
    /\ working \in [PassDevices -> {Passthrough!NoRequest, asked}]
    /\ DOMAIN written = PassDevices

\* A request is in the device's signal, in its hands, or answered.
OnePlace ==
    \A d \in PassDevices :
        /\ request[d] = Passthrough!NoRequest \/ working[d] = Passthrough!NoRequest
        /\ pResponse # None => /\ request[d] = Passthrough!NoRequest
                               /\ working[d] = Passthrough!NoRequest

\* A response answers what was asked.
AnswersAsked ==
    /\ pResponse # None => pResponse = Passthrough!ResponseTo(asked)
    /\ hostPc \in {"listenRead", "write"} => answer = Passthrough!ResponseTo(asked)

\* A command was read from a message and is written as the device expects it.
CommandSent ==
    asked.kind = "Command" =>
        \E m \in Messages :
            Passthrough!Decode(m) # Passthrough!Refused /\ asked.command = Passthrough!Decode(m)

CommandWritten ==
    \A d \in PassDevices : devPc[d] = "respond" /\ working[d].kind = "Command" =>
        written[d] = Passthrough!EncodeForDevice(working[d].command)

PassInv ==
    /\ Passthrough!TypeOK /\ Passthrough!OneAtATime /\ Passthrough!ToldWhatAsked
    /\ AskedOnly /\ OnePlace /\ AnswersAsked /\ CommandSent /\ CommandWritten

\* Nothing is asked, in hand or answered at first.
LEMMA PassInit == Passthrough!Init => PassInv
<1> SUFFICES ASSUME Passthrough!Init PROVE PassInv
  OBVIOUS
<1> USE PassthroughAssumption DEF Passthrough!Init
<1>1. Passthrough!TypeOK
  BY DEF Passthrough!TypeOK, Passthrough!NoRequest
<1>2. Passthrough!OneAtATime /\ Passthrough!ToldWhatAsked
  BY DEF Passthrough!OneAtATime, Passthrough!ToldWhatAsked
<1>3. AskedOnly /\ OnePlace /\ AnswersAsked
  BY DEF AskedOnly, OnePlace, AnswersAsked
<1>4. CommandSent /\ CommandWritten
  BY DEF CommandSent, CommandWritten, Passthrough!NoRequest
<1> QED  BY <1>1, <1>2, <1>3, <1>4 DEF PassInv

\* The host task asks for nothing new while a request is on its way.
LEMMA AskKeeps ==
    ASSUME PassInv, hostPc \in {"listen", "register"}, hostPc' \in {"register", "send"},
           asked'.kind = "Command" => \E m \in Messages :
              Passthrough!Decode(m) # Passthrough!Refused /\ asked'.command = Passthrough!Decode(m),
           requests' \in 0 .. MaxAccesses,
           UNCHANGED <<request, pResponse, answer, told, pFaults, devPc, working, written>>
    PROVE  PassInv'
<1>1. /\ pResponse = None
      /\ \A d \in PassDevices : /\ request[d] = Passthrough!NoRequest
                                /\ working[d] = Passthrough!NoRequest
  BY PassthroughAssumption DEF PassInv, Passthrough!OneAtATime
<1>2. Passthrough!TypeOK'
  BY DEF PassInv, Passthrough!TypeOK
<1>3. Passthrough!OneAtATime'
  BY <1>1 DEF Passthrough!OneAtATime
<1>4. Passthrough!ToldWhatAsked'
  BY DEF PassInv, Passthrough!ToldWhatAsked, Passthrough!ResponseTo, Passthrough!HasResponse
<1>5. AskedOnly'
  BY <1>1 DEF PassInv, AskedOnly
<1>6. OnePlace' /\ AnswersAsked'
  BY <1>1 DEF OnePlace, AnswersAsked
<1>7. CommandSent'
  BY DEF CommandSent
<1>8. CommandWritten'
  BY <1>1 DEF PassInv, CommandWritten
<1> QED  BY <1>2, <1>3, <1>4, <1>5, <1>6, <1>7, <1>8 DEF PassInv

\* Every step of the host task, of a device's task and of the interrupt task keeps
\* the invariant.
LEMMA PassStep == PassInv /\ [Passthrough!Next]_pVars => PassInv'
<1> SUFFICES ASSUME PassInv, [Passthrough!Next]_pVars PROVE PassInv'
  OBVIOUS
<1> USE PassthroughAssumption
<1>a. PICK dev : PassDevices = {dev}
  OBVIOUS
<1>t. Passthrough!TypeOK /\ Passthrough!OneAtATime /\ Passthrough!ToldWhatAsked
      /\ AskedOnly /\ OnePlace /\ AnswersAsked /\ CommandSent /\ CommandWritten
  BY DEF PassInv
<1>0. CASE UNCHANGED pVars
  <2> USE <1>0 DEF pVars
  <2>1. Passthrough!TypeOK' /\ Passthrough!OneAtATime' /\ Passthrough!ToldWhatAsked'
    BY <1>t, Zenon DEF Passthrough!TypeOK, Passthrough!OneAtATime, Passthrough!ToldWhatAsked
  <2>2. AskedOnly' /\ OnePlace' /\ AnswersAsked' /\ CommandSent' /\ CommandWritten'
    BY <1>t, Zenon DEF AskedOnly, OnePlace, AnswersAsked, CommandSent, CommandWritten
  <2> QED  BY <2>1, <2>2 DEF PassInv
<1>1. ASSUME NEW a \in {"Read", "Write"}, Passthrough!Listen(a) PROVE PassInv'
  <2>1. requests' \in 0 .. MaxAccesses
    BY <1>1, <1>t DEF Passthrough!Listen, Passthrough!TypeOK
  <2>2. asked'.kind # "Command" /\ hostPc' \in {"register", "send"}
    BY <1>1 DEF Passthrough!Listen, Passthrough!NoRequest
  <2>3. hostPc = "listen" /\ UNCHANGED <<request, pResponse, answer, told, pFaults, devPc, working, written>>
    BY <1>1 DEF Passthrough!Listen, Passthrough!devVars
  <2> QED  BY <2>1, <2>2, <2>3, AskKeeps
<1>2. ASSUME NEW k \in {"Descriptor", "ReportDescriptor", "InputReport"}, Passthrough!Register(k)
      PROVE  PassInv'
  <2>1. /\ hostPc = "register" /\ hostPc' = "send" /\ asked'.kind # "Command" /\ requests' = requests
        /\ UNCHANGED <<request, pResponse, answer, told, pFaults, devPc, working, written>>
    BY <1>2 DEF Passthrough!Register, Passthrough!devVars
  <2> QED  BY <2>1, <1>t, AskKeeps DEF Passthrough!TypeOK
<1>3. ASSUME NEW n, Passthrough!OutputRegister(n) PROVE PassInv'
  <2>1. /\ hostPc = "register" /\ hostPc' = "send" /\ asked'.kind # "Command" /\ requests' = requests
        /\ UNCHANGED <<request, pResponse, answer, told, pFaults, devPc, working, written>>
    BY <1>3 DEF Passthrough!OutputRegister, Passthrough!devVars
  <2> QED  BY <2>1, <1>t, AskKeeps DEF Passthrough!TypeOK
<1>4. ASSUME NEW m \in Messages, Passthrough!CommandRegister(m) PROVE PassInv'
  <2>1. /\ hostPc = "register" /\ hostPc' = "send" /\ requests' = requests
        /\ Passthrough!Decode(m) # Passthrough!Refused
        /\ asked' = [kind |-> "Command", command |-> Passthrough!Decode(m)]
        /\ UNCHANGED <<request, pResponse, answer, told, pFaults, devPc, working, written>>
    BY <1>4, Zenon DEF Passthrough!CommandRegister, Passthrough!devVars
  <2>2. asked'.command = Passthrough!Decode(m)
    BY <2>1
  <2> QED  BY <2>1, <2>2, <1>t, AskKeeps DEF Passthrough!TypeOK
\* The rest leaves what is asked and what is told alone, but for WriteResponse.
<1>5. ASSUME asked' = asked, told' = told PROVE CommandSent' /\ Passthrough!ToldWhatAsked'
  BY <1>5, <1>t, Zenon DEF CommandSent, Passthrough!ToldWhatAsked
<1>6. CASE Passthrough!HostFails
  <2>0. /\ hostPc # "response" /\ hostPc' = "listen" /\ pFaults' = pFaults + 1 /\ pFaults < MaxFailures
        /\ UNCHANGED <<asked, request, pResponse, told, requests, devPc, working, descriptor, written>>
    BY <1>6 DEF Passthrough!HostFails, Passthrough!Fault, Passthrough!devVars
  <2>1. Passthrough!TypeOK'
    BY <2>0, <1>t DEF Passthrough!TypeOK
  <2>2. Passthrough!OneAtATime' /\ OnePlace' /\ AnswersAsked'
    BY <2>0, <1>t DEF Passthrough!OneAtATime, OnePlace, AnswersAsked
  <2>3. AskedOnly' /\ CommandWritten'
    BY <2>0, <1>t, Zenon DEF AskedOnly, CommandWritten
  <2> QED  BY <2>0, <2>1, <2>2, <2>3, <1>5 DEF PassInv
<1>7. CASE Passthrough!SendRequest
  <2>0. /\ hostPc = "send" /\ hostPc' = "response" /\ request' = [d \in PassDevices |-> asked]
        /\ UNCHANGED <<asked, pResponse, answer, told, requests, pFaults, devPc, working, written>>
    BY <1>7 DEF Passthrough!SendRequest, Passthrough!Deliver, Passthrough!devVars
  <2>1. Passthrough!TypeOK'
    BY <2>0, <1>t DEF Passthrough!TypeOK
  <2>2. pResponse = None /\ \A d \in PassDevices : working[d] = Passthrough!NoRequest
    BY <2>0, <1>t DEF Passthrough!OneAtATime
  <2>3. Passthrough!OneAtATime' /\ OnePlace' /\ AnswersAsked'
    BY <2>0, <2>2 DEF Passthrough!OneAtATime, OnePlace, AnswersAsked
  <2>4. AskedOnly' /\ CommandWritten'
    BY <2>0, <1>t DEF AskedOnly, CommandWritten
  <2> QED  BY <2>0, <2>1, <2>3, <2>4, <1>5 DEF PassInv
<1>8. CASE Passthrough!TakeResponse
  <2>0. /\ hostPc = "response" /\ pResponse # None /\ pResponse' = None
        /\ hostPc' \in {"listen", "write", "listenRead"}
        /\ hostPc' # "listen" => answer' = pResponse
        /\ UNCHANGED <<asked, request, told, requests, pFaults, devPc, working, written>>
    BY <1>8 DEF Passthrough!TakeResponse, Passthrough!devVars
  <2>1. Passthrough!TypeOK'
    BY <2>0, <1>t DEF Passthrough!TypeOK
  <2>2. \A d \in PassDevices : request[d] = Passthrough!NoRequest /\ working[d] = Passthrough!NoRequest
    BY <2>0, <1>t DEF OnePlace
  <2>3. Passthrough!OneAtATime' /\ OnePlace'
    BY <2>0, <2>2 DEF Passthrough!OneAtATime, OnePlace
  <2>4. AnswersAsked'
    <3>1. pResponse = Passthrough!ResponseTo(asked)
      BY <2>0, <1>t DEF AnswersAsked
    <3>2. Passthrough!ResponseTo(asked)' = Passthrough!ResponseTo(asked)
      BY <2>0, Zenon DEF Passthrough!ResponseTo, Passthrough!HasResponse
    <3> QED  BY <2>0, <3>1, <3>2 DEF AnswersAsked
  <2>5. AskedOnly' /\ CommandWritten'
    BY <2>0, <1>t, Zenon DEF AskedOnly, CommandWritten
  <2> QED  BY <2>0, <2>1, <2>3, <2>4, <2>5, <1>5 DEF PassInv
<1>9. CASE Passthrough!ReadFollows
  <2>0. /\ hostPc = "listenRead" /\ hostPc' = "write"
        /\ UNCHANGED <<asked, request, pResponse, answer, told, requests, pFaults, devPc, working, written>>
    BY <1>9 DEF Passthrough!ReadFollows, Passthrough!devVars
  <2>1. Passthrough!TypeOK'
    BY <2>0, <1>t DEF Passthrough!TypeOK
  <2>2. Passthrough!OneAtATime' /\ OnePlace'
    BY <2>0, <1>t DEF Passthrough!OneAtATime, OnePlace
  <2>3. AnswersAsked'
    BY <2>0, <1>t, Zenon DEF AnswersAsked
  <2>4. AskedOnly' /\ CommandWritten'
    BY <2>0, <1>t, Zenon DEF AskedOnly, CommandWritten
  <2> QED  BY <2>0, <2>1, <2>2, <2>3, <2>4, <1>5 DEF PassInv
<1>10. CASE Passthrough!WriteResponse
  <2>0. /\ hostPc = "write" /\ hostPc' = "listen" /\ told' = [kind |-> answer, to |-> asked]
        /\ UNCHANGED <<asked, request, pResponse, requests, pFaults, devPc, working, written>>
    BY <1>10 DEF Passthrough!WriteResponse, Passthrough!devVars
  <2>1. Passthrough!TypeOK'
    BY <2>0, <1>t DEF Passthrough!TypeOK
  <2>2. Passthrough!OneAtATime' /\ OnePlace'
    BY <2>0, <1>t DEF Passthrough!OneAtATime, OnePlace
  <2>3. AnswersAsked'
    BY <2>0, <1>t DEF AnswersAsked, Passthrough!OneAtATime
  <2>4. AskedOnly' /\ CommandWritten'
    BY <2>0, <1>t, Zenon DEF AskedOnly, CommandWritten
  <2>5. CommandSent'
    BY <2>0, <1>t, Zenon DEF CommandSent
  <2>6. Passthrough!ToldWhatAsked'
    <3>1. told'.kind = answer /\ told'.to = asked
      BY <2>0
    <3>2. answer = Passthrough!ResponseTo(asked)
      BY <2>0, <1>t DEF AnswersAsked
    <3> QED  BY <3>1, <3>2, Zenon DEF Passthrough!ToldWhatAsked
  <2> QED  BY <2>1, <2>2, <2>3, <2>4, <2>5, <2>6 DEF PassInv
\* What a device does leaves the host task alone.
<1>11. ASSUME NEW d \in PassDevices, Passthrough!WaitRequest(d) PROVE PassInv'
  <2>0. /\ devPc[d] = "wait" /\ request[d] # Passthrough!NoRequest
        /\ working' = [working EXCEPT ![d] = request[d]]
        /\ request' = [request EXCEPT ![d] = Passthrough!NoRequest]
        /\ devPc' = [devPc EXCEPT ![d] = devPc'[d]]
        /\ devPc'[d] \in {"respond", "transfer", "descriptor"}
        /\ devPc'[d] = "respond" => request[d].kind = "OutputReport"
        /\ UNCHANGED <<hostPc, asked, pResponse, answer, told, requests, pFaults, written>>
    BY <1>11, <1>t DEF Passthrough!WaitRequest, Passthrough!hostVars, Passthrough!TypeOK
  <2>1. working'[d] = request[d] /\ request'[d] = Passthrough!NoRequest /\ request[d] = asked
    BY <2>0, <1>t DEF AskedOnly
  <2>2. Passthrough!TypeOK'
    BY <2>0, <2>1, <1>t, <1>a DEF Passthrough!TypeOK, AskedOnly
  <2>3. hostPc = "response" /\ pResponse = None
    BY <2>0, <1>t DEF Passthrough!OneAtATime, OnePlace
  <2>4. Passthrough!OneAtATime'
    BY <2>0, <2>3 DEF Passthrough!OneAtATime
  <2>5. OnePlace'
    BY <2>0, <2>1, <2>3, <1>a DEF OnePlace
  <2>6. AskedOnly'
    BY <2>0, <2>1, <1>t, <1>a DEF AskedOnly
  <2>7. AnswersAsked'
    BY <2>0, <2>3 DEF AnswersAsked
  <2>8. CommandWritten'
    BY <2>0, <2>1, <1>a DEF CommandWritten
  <2> QED  BY <2>0, <2>2, <2>4, <2>5, <2>6, <2>7, <2>8, <1>5 DEF PassInv
<1>12. ASSUME NEW d \in PassDevices, Passthrough!ReadDescriptor(d) PROVE PassInv'
  <2>0. /\ devPc[d] = "descriptor" /\ devPc' = [devPc EXCEPT ![d] = "transfer"]
        /\ UNCHANGED <<hostPc, asked, request, pResponse, answer, told, requests, pFaults, working, written>>
    BY <1>12 DEF Passthrough!ReadDescriptor, Passthrough!hostVars
  <2>1. Passthrough!TypeOK'
    BY <2>0, <1>t DEF Passthrough!TypeOK
  <2>2. Passthrough!OneAtATime' /\ OnePlace' /\ AskedOnly'
    BY <2>0, <1>t, Zenon DEF Passthrough!OneAtATime, OnePlace, AskedOnly
  <2>3. AnswersAsked'
    BY <2>0, <1>t, Zenon DEF AnswersAsked
  <2>4. CommandWritten'
    BY <2>0, <1>t, <1>a DEF CommandWritten, Passthrough!TypeOK
  <2> QED  BY <2>0, <2>1, <2>2, <2>3, <2>4, <1>5 DEF PassInv
<1>13. ASSUME NEW d \in PassDevices, Passthrough!Transfer(d) PROVE PassInv'
  <2>0. /\ devPc[d] = "transfer" /\ devPc' = [devPc EXCEPT ![d] = "respond"]
        /\ written' = IF working[d].kind = "Command"
                      THEN [written EXCEPT ![d] = Passthrough!EncodeForDevice(working[d].command)]
                      ELSE written
        /\ UNCHANGED <<hostPc, asked, request, pResponse, answer, told, requests, pFaults, working>>
    BY <1>13, Zenon DEF Passthrough!Transfer, Passthrough!hostVars
  <2>1. Passthrough!TypeOK'
    BY <2>0, <1>t DEF Passthrough!TypeOK
  <2>2. Passthrough!OneAtATime' /\ OnePlace'
    BY <2>0, <1>t, Zenon DEF Passthrough!OneAtATime, OnePlace
  <2>3. AskedOnly'
    BY <2>0, <1>t DEF AskedOnly
  <2>4. AnswersAsked'
    BY <2>0, <1>t, Zenon DEF AnswersAsked
  <2>5. CommandWritten'
    <3>1. working[d].kind = "Command" => written'[d] = Passthrough!EncodeForDevice(working[d].command)
      BY <2>0, <1>t DEF AskedOnly
    <3> QED  BY <2>0, <3>1, <1>a, Zenon DEF CommandWritten
  <2> QED  BY <2>0, <2>1, <2>2, <2>3, <2>4, <2>5, <1>5 DEF PassInv
<1>14. ASSUME NEW d \in PassDevices, Passthrough!DeviceFails(d) PROVE PassInv'
  <2>0. /\ devPc[d] \in {"descriptor", "transfer"} /\ devPc' = [devPc EXCEPT ![d] = "wait"]
        /\ working' = [working EXCEPT ![d] = Passthrough!NoRequest]
        /\ pFaults' = pFaults + 1 /\ pFaults < MaxFailures
        /\ UNCHANGED <<hostPc, asked, request, pResponse, answer, told, requests, written>>
    BY <1>14 DEF Passthrough!DeviceFails, Passthrough!Fault, Passthrough!hostVars
  <2>1. working'[d] = Passthrough!NoRequest /\ devPc'[d] = "wait"
    BY <2>0, <1>t DEF AskedOnly, Passthrough!TypeOK
  <2>2. Passthrough!TypeOK'
    BY <2>0, <2>1, <1>t, <1>a DEF Passthrough!TypeOK
  <2>3. Passthrough!OneAtATime' /\ OnePlace'
    BY <2>0, <2>1, <1>t, <1>a DEF Passthrough!OneAtATime, OnePlace
  <2>4. AskedOnly'
    BY <2>0, <1>t DEF AskedOnly
  <2>5. AnswersAsked'
    BY <2>0, <1>t, Zenon DEF AnswersAsked
  <2>6. CommandWritten'
    BY <2>0, <2>1, <1>a DEF CommandWritten
  <2> QED  BY <2>0, <2>2, <2>3, <2>4, <2>5, <2>6, <1>5 DEF PassInv
<1>15. ASSUME NEW d \in PassDevices, Passthrough!SendResponse(d) PROVE PassInv'
  <2>0. /\ devPc[d] = "respond" /\ devPc' = [devPc EXCEPT ![d] = "wait"]
        /\ working' = [working EXCEPT ![d] = Passthrough!NoRequest]
        /\ pResponse' = Passthrough!ResponseTo(working[d])
        /\ UNCHANGED <<hostPc, asked, request, answer, told, requests, pFaults, written>>
    BY <1>15, Zenon DEF Passthrough!SendResponse, Passthrough!Receive, Passthrough!hostVars
  <2>1. working'[d] = Passthrough!NoRequest /\ devPc'[d] = "wait"
    BY <2>0, <1>t DEF AskedOnly, Passthrough!TypeOK
  <2>2. Passthrough!TypeOK'
    BY <2>0, <2>1, <1>t, <1>a DEF Passthrough!TypeOK
  <2>3. working[d] # Passthrough!NoRequest /\ working[d] = asked /\ hostPc = "response"
        /\ request[d] = Passthrough!NoRequest
    BY <2>0, <1>t DEF Passthrough!TypeOK, AskedOnly, Passthrough!OneAtATime, OnePlace
  <2>4. Passthrough!OneAtATime' /\ OnePlace'
    BY <2>0, <2>1, <2>3, <1>a DEF Passthrough!OneAtATime, OnePlace
  <2>5. AskedOnly'
    BY <2>0, <1>t DEF AskedOnly
  <2>6. AnswersAsked'
    <3>1. pResponse' = Passthrough!ResponseTo(asked) /\ hostPc' = "response" /\ asked' = asked
      BY <2>0, <2>3
    <3>2. hostPc' \notin {"listenRead", "write"}
      BY <3>1
    <3> QED  BY <3>1, <3>2, Zenon DEF AnswersAsked
  <2>7. CommandWritten'
    BY <2>0, <2>1, <1>a DEF CommandWritten
  <2> QED  BY <2>0, <2>2, <2>4, <2>5, <2>6, <2>7, <1>5 DEF PassInv
<1>16. CASE Passthrough!DeviceInterrupts \/ Passthrough!PassInterrupt
  <2>0. UNCHANGED <<hostPc, asked, request, pResponse, answer, told, requests, pFaults, devPc, working, written>>
    BY <1>16 DEF Passthrough!DeviceInterrupts, Passthrough!PassInterrupt, Passthrough!hostVars, Passthrough!devVars
  <2>1. Passthrough!TypeOK' /\ Passthrough!OneAtATime'
    BY <2>0, <1>t, Zenon DEF Passthrough!TypeOK, Passthrough!OneAtATime
  <2>2. AskedOnly' /\ OnePlace' /\ AnswersAsked' /\ CommandWritten'
    BY <2>0, <1>t, Zenon DEF AskedOnly, OnePlace, AnswersAsked, CommandWritten
  <2> QED  BY <2>0, <2>1, <2>2, <1>5 DEF PassInv
<1> QED
  BY <1>0, <1>1, <1>2, <1>3, <1>4, <1>6, <1>7, <1>8, <1>9, <1>10, <1>11, <1>12, <1>13, <1>14, <1>15, <1>16
  DEF Passthrough!Next, Passthrough!HostStep, Passthrough!DeviceStep

\* A sequence is spelled out by its elements.
LEMMA Spelled ==
    ASSUME NEW F, NEW s \in Seq(F)
    PROVE  /\ Len(s) = 2 => s = <<s[1], s[2]>>
           /\ Len(s) = 3 => s = <<s[1], s[2], s[3]>>
           /\ Len(s) = 4 => s = <<s[1], s[2], s[3], s[4]>>
           /\ Len(s) = 5 => s = <<s[1], s[2], s[3], s[4], s[5]>>
OBVIOUS

\* The elements of a sequence joined to another.
LEMMA Places ==
    ASSUME NEW F, NEW s \in Seq(F), NEW t \in Seq(F)
    PROVE  /\ s \o t \in Seq(F) /\ Len(s \o t) = Len(s) + Len(t)
           /\ \A i \in 1 .. Len(s) : (s \o t)[i] = s[i]
           /\ \A i \in 1 .. Len(t) : (s \o t)[Len(s) + i] = t[i]
<1> DEFINE k == Len(s)
           n == Len(t)
<1>0. k \in Nat /\ n \in Nat
  OBVIOUS
<1>1. /\ s \o t \in Seq(F) /\ Len(s \o t) = k + n
      /\ \A i \in 1 .. k + n : (s \o t)[i] = IF i <= k THEN s[i] ELSE t[i - k]
  BY ConcatProperties
<1> DEFINE u == s \o t
<1> HIDE DEF u, k, n
<1>2. \A i \in 1 .. k : u[i] = s[i]
  BY <1>0, <1>1 DEF u
<1>3. \A i \in 1 .. n : k + i \in 1 .. k + n /\ ~(k + i <= k) /\ (k + i) - k = i
  BY <1>0
<1>4. \A i \in 1 .. n : (s \o t)[k + i] = t[(k + i) - k]
  BY <1>1, <1>3
<1>5. \A i \in 1 .. n : (s \o t)[k + i] = t[i]
  BY <1>3, <1>4
<1> QED  BY <1>1, <1>2, <1>5 DEF u, k, n

\* Short sequences joined.
LEMMA ShortJoins ==
    /\ \A a, b : <<a>> \o <<b>> = <<a, b>>
    /\ \A a, b, c : <<a, b>> \o <<c>> = <<a, b, c>>
    /\ \A a, b, c, d : <<a, b>> \o <<c, d>> = <<a, b, c, d>>
    /\ \A a, b, c, d, e : <<a, b, c>> \o <<d, e>> = <<a, b, c, d, e>>
<1>1. ASSUME NEW a, NEW b PROVE <<a>> \o <<b>> = <<a, b>>
  <2> DEFINE F == {a, b}
             s == <<a>>
             t == <<b>>
  <2>0. s \in Seq(F) /\ t \in Seq(F)
    OBVIOUS
  <2>1. Len(s) = 1 /\ Len(t) = 1 /\ s[1] = a /\ t[1] = b
    OBVIOUS
  <2> HIDE DEF s, t, F
  <2>2. /\ s \o t \in Seq(F) /\ Len(s \o t) = Len(s) + Len(t)
        /\ \A i \in 1 .. Len(s) : (s \o t)[i] = s[i]
        /\ \A i \in 1 .. Len(t) : (s \o t)[Len(s) + i] = t[i]
    BY ONLY <2>0, Places
  <2> DEFINE u == s \o t
  <2>5. /\ u \in Seq(F) /\ Len(u) = Len(s) + Len(t)
        /\ \A i \in 1 .. Len(s) : u[i] = s[i]
        /\ \A i \in 1 .. Len(t) : u[Len(s) + i] = t[i]
    BY ONLY <2>2, Zenon
  <2> HIDE DEF u
  <2>3. Len(u) = 2 /\ u[1] = a /\ u[2] = b
    BY ONLY <2>1, <2>5
  <2>4. u = <<a, b>>
    BY ONLY <2>5, <2>3, Spelled
  <2> QED  BY <2>4 DEF u, s, t
<1>2. ASSUME NEW a, NEW b, NEW c PROVE <<a, b>> \o <<c>> = <<a, b, c>>
  <2> DEFINE F == {a, b, c}
             s == <<a, b>>
             t == <<c>>
  <2>0. s \in Seq(F) /\ t \in Seq(F)
    OBVIOUS
  <2>1. /\ Len(s) = 2 /\ Len(t) = 1
        /\ s[1] = a /\ s[2] = b /\ t[1] = c
    OBVIOUS
  <2> HIDE DEF s, t, F
  <2>2. /\ s \o t \in Seq(F) /\ Len(s \o t) = Len(s) + Len(t)
        /\ \A i \in 1 .. Len(s) : (s \o t)[i] = s[i]
        /\ \A i \in 1 .. Len(t) : (s \o t)[Len(s) + i] = t[i]
    BY ONLY <2>0, Places
  <2> DEFINE u == s \o t
  <2>5. /\ u \in Seq(F) /\ Len(u) = Len(s) + Len(t)
        /\ \A i \in 1 .. Len(s) : u[i] = s[i]
        /\ \A i \in 1 .. Len(t) : u[Len(s) + i] = t[i]
    BY ONLY <2>2, Zenon
  <2> HIDE DEF u
  <2>3. Len(u) = 3 /\ u[1] = a /\ u[2] = b /\ u[3] = c
    BY ONLY <2>1, <2>5
  <2>4. u = <<a, b, c>>
    BY ONLY <2>5, <2>3, Spelled
  <2> QED  BY <2>4 DEF u, s, t
<1>3. ASSUME NEW a, NEW b, NEW c, NEW d PROVE <<a, b>> \o <<c, d>> = <<a, b, c, d>>
  <2> DEFINE F == {a, b, c, d}
             s == <<a, b>>
             t == <<c, d>>
  <2>0. s \in Seq(F) /\ t \in Seq(F)
    OBVIOUS
  <2>1. /\ Len(s) = 2 /\ Len(t) = 2
        /\ s[1] = a /\ s[2] = b /\ t[1] = c /\ t[2] = d
    OBVIOUS
  <2> HIDE DEF s, t, F
  <2>2. /\ s \o t \in Seq(F) /\ Len(s \o t) = Len(s) + Len(t)
        /\ \A i \in 1 .. Len(s) : (s \o t)[i] = s[i]
        /\ \A i \in 1 .. Len(t) : (s \o t)[Len(s) + i] = t[i]
    BY ONLY <2>0, Places
  <2> DEFINE u == s \o t
  <2>5. /\ u \in Seq(F) /\ Len(u) = Len(s) + Len(t)
        /\ \A i \in 1 .. Len(s) : u[i] = s[i]
        /\ \A i \in 1 .. Len(t) : u[Len(s) + i] = t[i]
    BY ONLY <2>2, Zenon
  <2> HIDE DEF u
  <2>3. Len(u) = 4 /\ u[1] = a /\ u[2] = b /\ u[3] = c /\ u[4] = d
    BY ONLY <2>1, <2>5
  <2>4. u = <<a, b, c, d>>
    BY ONLY <2>5, <2>3, Spelled
  <2> QED  BY <2>4 DEF u, s, t
<1>4. ASSUME NEW a, NEW b, NEW c, NEW d, NEW e
      PROVE  <<a, b, c>> \o <<d, e>> = <<a, b, c, d, e>>
  <2> DEFINE F == {a, b, c, d, e}
             s == <<a, b, c>>
             t == <<d, e>>
  <2>0. s \in Seq(F) /\ t \in Seq(F)
    OBVIOUS
  <2>1. /\ Len(s) = 3 /\ Len(t) = 2
        /\ s[1] = a /\ s[2] = b /\ s[3] = c /\ t[1] = d /\ t[2] = e
    OBVIOUS
  <2> HIDE DEF s, t, F
  <2>2. /\ s \o t \in Seq(F) /\ Len(s \o t) = Len(s) + Len(t)
        /\ \A i \in 1 .. Len(s) : (s \o t)[i] = s[i]
        /\ \A i \in 1 .. Len(t) : (s \o t)[Len(s) + i] = t[i]
    BY ONLY <2>0, Places
  <2> DEFINE u == s \o t
  <2>5. /\ u \in Seq(F) /\ Len(u) = Len(s) + Len(t)
        /\ \A i \in 1 .. Len(s) : u[i] = s[i]
        /\ \A i \in 1 .. Len(t) : u[Len(s) + i] = t[i]
    BY ONLY <2>2, Zenon
  <2> HIDE DEF u
  <2>3. Len(u) = 5 /\ u[1] = a /\ u[2] = b /\ u[3] = c /\ u[4] = d /\ u[5] = e
    BY ONLY <2>1, <2>5
  <2>4. u = <<a, b, c, d, e>>
    BY ONLY <2>5, <2>3, Spelled
  <2> QED  BY <2>4 DEF u, s, t
<1> QED  BY <1>1, <1>2, <1>3, <1>4, Zenon

\* One element in front of two or three.
LEMMA FrontJoins ==
    /\ \A a, b, c : <<a>> \o <<b, c>> = <<a, b, c>>
    /\ \A a, b, c, d : <<a>> \o <<b, c, d>> = <<a, b, c, d>>
<1>1. ASSUME NEW a, NEW b, NEW c PROVE <<a>> \o <<b, c>> = <<a, b, c>>
  <2> DEFINE F == {a, b, c}
             s == <<a>>
             t == <<b, c>>
  <2>0. s \in Seq(F) /\ t \in Seq(F)
    OBVIOUS
  <2>1. /\ Len(s) = 1 /\ Len(t) = 2
        /\ s[1] = a /\ t[1] = b /\ t[2] = c
    OBVIOUS
  <2> HIDE DEF s, t, F
  <2>2. /\ s \o t \in Seq(F) /\ Len(s \o t) = Len(s) + Len(t)
        /\ \A i \in 1 .. Len(s) : (s \o t)[i] = s[i]
        /\ \A i \in 1 .. Len(t) : (s \o t)[Len(s) + i] = t[i]
    BY ONLY <2>0, Places
  <2> DEFINE u == s \o t
  <2>5. /\ u \in Seq(F) /\ Len(u) = Len(s) + Len(t)
        /\ \A i \in 1 .. Len(s) : u[i] = s[i]
        /\ \A i \in 1 .. Len(t) : u[Len(s) + i] = t[i]
    BY ONLY <2>2, Zenon
  <2> HIDE DEF u
  <2>3. Len(u) = 3 /\ u[1] = a /\ u[2] = b /\ u[3] = c
    BY ONLY <2>1, <2>5
  <2>4. u = <<a, b, c>>
    BY ONLY <2>5, <2>3, Spelled
  <2> QED  BY <2>4 DEF u, s, t
<1>2. ASSUME NEW a, NEW b, NEW c, NEW d PROVE <<a>> \o <<b, c, d>> = <<a, b, c, d>>
  <2> DEFINE F == {a, b, c, d}
             s == <<a>>
             t == <<b, c, d>>
  <2>0. s \in Seq(F) /\ t \in Seq(F)
    OBVIOUS
  <2>1. /\ Len(s) = 1 /\ Len(t) = 3
        /\ s[1] = a /\ t[1] = b /\ t[2] = c /\ t[3] = d
    OBVIOUS
  <2> HIDE DEF s, t, F
  <2>2. /\ s \o t \in Seq(F) /\ Len(s \o t) = Len(s) + Len(t)
        /\ \A i \in 1 .. Len(s) : (s \o t)[i] = s[i]
        /\ \A i \in 1 .. Len(t) : (s \o t)[Len(s) + i] = t[i]
    BY ONLY <2>0, Places
  <2> DEFINE u == s \o t
  <2>5. /\ u \in Seq(F) /\ Len(u) = Len(s) + Len(t)
        /\ \A i \in 1 .. Len(s) : u[i] = s[i]
        /\ \A i \in 1 .. Len(t) : u[Len(s) + i] = t[i]
    BY ONLY <2>2, Zenon
  <2> HIDE DEF u
  <2>3. Len(u) = 4 /\ u[1] = a /\ u[2] = b /\ u[3] = c /\ u[4] = d
    BY ONLY <2>1, <2>5
  <2>4. u = <<a, b, c, d>>
    BY ONLY <2>5, <2>3, Spelled
  <2> QED  BY <2>4 DEF u, s, t
<1> QED  BY <1>1, <1>2, Zenon

\* The empty sequence in front.
LEMMA EmptyJoin == \A S : \A s \in Seq(S) : <<>> \o s = s
OBVIOUS

\* The tail of one element in front of a sequence.
LEMMA TailJoin == \A S : \A s \in Seq(S) : \A a : Tail(<<a>> \o s) = s
<1> SUFFICES ASSUME NEW S, NEW s \in Seq(S), NEW a PROVE Tail(<<a>> \o s) = s
  OBVIOUS
<1> DEFINE t == <<a>> \o s
           T == S \cup {a}
<1>1. <<a>> \in Seq(T) /\ s \in Seq(T)
  OBVIOUS
<1>2. t \in Seq(T) /\ Len(t) = 1 + Len(s)
      /\ \A i \in 1 .. Len(t) : t[i] = IF i <= 1 THEN a ELSE s[i - 1]
  BY <1>1
<1> HIDE DEF t
<1>3. Tail(t) \in Seq(T) /\ Len(Tail(t)) = Len(s) /\ \A i \in 1 .. Len(s) : Tail(t)[i] = t[i + 1]
  BY <1>2
<1>4. \A i \in 1 .. Len(s) : Tail(t)[i] = s[i]
  BY <1>1, <1>2, <1>3
<1>5. Tail(t) = s
  BY <1>1, <1>3, <1>4
<1> QED  BY <1>5 DEF t

\* The parts of a command's word are read off it.
LEMMA OpcodeRead ==
    \A op \in DOMAIN Passthrough!Opcode : \A b \in 0 .. 255 :
        /\ Passthrough!Opcode[op] * 256 + b \in Nat
        /\ Passthrough!OpcodeOf(Passthrough!Opcode[op] * 256 + b) = op
<1> SUFFICES ASSUME NEW op \in DOMAIN Passthrough!Opcode, NEW b \in 0 .. 255
             PROVE  /\ Passthrough!Opcode[op] * 256 + b \in Nat
                    /\ Passthrough!OpcodeOf(Passthrough!Opcode[op] * 256 + b) = op
  BY Zenon
<1> DEFINE v == Passthrough!Opcode[op]
           ops == {o \in DOMAIN Passthrough!Opcode :
                      Passthrough!Opcode[o] = ((v * 256 + b) \div 256) % 16}
<1>1. v \in 1 .. 15
  BY DEF Passthrough!Opcode
<1>2. ((v * 256 + b) \div 256) % 16 = v /\ v * 256 + b \in Nat
  <2> HIDE DEF v
  <2>1. (v * 256 + b) \div 256 = v
    BY <1>1
  <2>2. v % 16 = v
    BY <1>1
  <2> QED  BY <1>1, <2>1, <2>2
<1>3. \A o, p \in DOMAIN Passthrough!Opcode :
         Passthrough!Opcode[o] = Passthrough!Opcode[p] => o = p
  BY DEF Passthrough!Opcode
<1>4. ops = {op}
  BY <1>2, <1>3
<1>5. Passthrough!OpcodeOf(v * 256 + b) = IF ops = {} THEN None ELSE CHOOSE o \in ops : TRUE
  BY Zenon DEF Passthrough!OpcodeOf
<1> HIDE DEF ops
<1> QED  BY <1>2, <1>4, <1>5

\* A command's report type is read off its word.
LEMMA TypeRead ==
    \A n \in 0 .. 15, k \in 0 .. 15 : \A t \in DOMAIN Passthrough!ReportType :
        Passthrough!TypeOf(k * 256 + Passthrough!ReportType[t] * 16 + n) = t
<1> SUFFICES ASSUME NEW n \in 0 .. 15, NEW k \in 0 .. 15, NEW t \in DOMAIN Passthrough!ReportType
             PROVE  Passthrough!TypeOf(k * 256 + Passthrough!ReportType[t] * 16 + n) = t
  BY Zenon
<1> DEFINE v == Passthrough!ReportType[t]
           c == k * 256 + v * 16 + n
           types == {o \in DOMAIN Passthrough!ReportType :
                       Passthrough!ReportType[o] = (c \div 16) % 4}
<1>1. v \in 1 .. 3
  BY DEF Passthrough!ReportType
<1>2. (c \div 16) % 4 = v
  <2> HIDE DEF v
  <2>1. c = 16 * (k * 16 + v) + n
    BY <1>1
  <2> HIDE DEF c
  <2>2. c \div 16 = k * 16 + v
    BY <1>1, <2>1
  <2>3. (k * 16 + v) % 4 = v
    BY <1>1
  <2> QED  BY <2>2, <2>3
<1>3. \A o, p \in DOMAIN Passthrough!ReportType :
         Passthrough!ReportType[o] = Passthrough!ReportType[p] => o = p
  BY DEF Passthrough!ReportType
<1>4. types = {t}
  BY <1>2, <1>3
<1>5. Passthrough!TypeOf(c) = IF types = {} THEN None ELSE CHOOSE o \in types : TRUE
  BY Zenon DEF Passthrough!TypeOf
<1> HIDE DEF types
<1> QED  BY <1>4, <1>5

\* The first fields of a command with a report id, and what is read from them.
LEMMA CommonRead ==
    ASSUME NEW op \in DOMAIN Passthrough!Opcode, NEW id \in 0 .. 255,
           NEW type \in DOMAIN Passthrough!ReportType \cup {None}
    PROVE  \E w \in Nat :
              /\ Passthrough!OpcodeOf(w) = op
              /\ w % 16 = IF id >= 15 THEN 15 ELSE id
              /\ type # None => Passthrough!TypeOf(w) = type
              /\ Passthrough!EncodeCommon(op, type, id) =
                   IF id >= 15 THEN <<Passthrough!Word(w), Passthrough!Byte(id)>>
                   ELSE <<Passthrough!Word(w)>>
<1> USE PassthroughAssumption
<1> DEFINE v == Passthrough!Opcode[op]
           t == IF type = None THEN 0 ELSE Passthrough!ReportType[type]
           n == IF id >= 15 THEN 15 ELSE id
           w == v * 256 + t * 16 + n
<1>1. v \in 0 .. 15 /\ t \in 0 .. 3 /\ n \in 0 .. 15
  BY DEF Passthrough!Opcode, Passthrough!ReportType
<1>2. w \in Nat /\ w = v * 256 + (t * 16 + n) /\ t * 16 + n \in 0 .. 255
  <2> HIDE DEF v, t, n
  <2> QED  BY <1>1
<1>3. Passthrough!OpcodeOf(w) = op
  BY <1>2, OpcodeRead
<1>4. w % 16 = n
  <2> HIDE DEF v, t, n
  <2>1. w = 16 * (v * 16 + t) + n
    BY <1>1
  <2> HIDE DEF w
  <2> QED  BY <1>1, <2>1
<1>5. type # None => Passthrough!TypeOf(w) = type
  BY <1>1, TypeRead
<1>6. Passthrough!EncodeCommon(op, type, id) =
         IF id >= 15 THEN <<Passthrough!Word(w), Passthrough!Byte(id)>> ELSE <<Passthrough!Word(w)>>
  <2>1. (v * 256 + (IF type = None THEN 0 ELSE Passthrough!ReportType[type] * 16))
           + (IF id >= 15 THEN 15 ELSE id) = w
    BY <1>1
  <2>2. CASE id >= 15
    BY <2>1, <2>2 DEF Passthrough!EncodeCommon, Passthrough!ExtendedReportId
  <2>3. CASE ~(id >= 15)
    BY <2>1, <2>3 DEF Passthrough!EncodeCommon, Passthrough!ExtendedReportId
  <2> QED  BY <2>2, <2>3
<1> HIDE DEF w
<1> QED  BY <1>2, <1>3, <1>4, <1>5, <1>6

\* How the commands are read, by their shape.
LEMMA DecodePlain ==
    ASSUME NEW w \in Nat, NEW op \in {"Reset", "SetPower"}, Passthrough!OpcodeOf(w) = op
    PROVE  Passthrough!Decode(<<Passthrough!Word(w)>>) =
             Passthrough!New(w, op, Passthrough!TypeOf(w), None, None)
<1> DEFINE m == <<Passthrough!Word(w)>>
<1>1. Len(m) = 1 /\ m[1].width = 2 /\ m[1].value = w
  BY DEF Passthrough!Word
<1>2. op # None
  BY PassthroughAssumption DEF Passthrough!Opcode
<1> HIDE DEF m
<1>3. Passthrough!Decode(m) = Passthrough!New(w, op, Passthrough!TypeOf(w), None, None)
  BY <1>1, <1>2 DEF Passthrough!Decode, Passthrough!Takes, Passthrough!RequiresReportId,
     Passthrough!RequiresHostData, Passthrough!HasResponse
<1> QED  BY <1>3 DEF m

\* The word and the data register.
LEMMA DecodeProtocol ==
    ASSUME NEW w \in Nat, Passthrough!OpcodeOf(w) = "GetProtocol"
    PROVE  Passthrough!Decode(<<Passthrough!Word(w), Passthrough!Word(DataReg)>>) =
             Passthrough!New(w, "GetProtocol", Passthrough!TypeOf(w), None, None)
<1> DEFINE m == <<Passthrough!Word(w), Passthrough!Word(DataReg)>>
<1>1. Len(m) = 2 /\ m[1].width = 2 /\ m[1].value = w /\ m[2].width = 2 /\ m[2].value = DataReg
  BY DEF Passthrough!Word
<1>2. "GetProtocol" # None
  BY PassthroughAssumption DEF Passthrough!Opcode
<1> HIDE DEF m
<1>3. Passthrough!Decode(m) = Passthrough!New(w, "GetProtocol", Passthrough!TypeOf(w), None, None)
  BY <1>1, <1>2 DEF Passthrough!Decode, Passthrough!Takes, Passthrough!RequiresReportId,
     Passthrough!RequiresHostData, Passthrough!HasResponse
<1> QED  BY <1>3 DEF m

\* The word, the id where it takes a byte of its own, and the data register.
LEMMA DecodeGet ==
    ASSUME NEW w \in Nat, NEW op \in {"GetReport", "GetIdle"}, Passthrough!OpcodeOf(w) = op,
           NEW id
    PROVE  /\ w % 16 # 15 =>
                Passthrough!Decode(<<Passthrough!Word(w), Passthrough!Word(DataReg)>>) =
                  Passthrough!New(w, op, Passthrough!TypeOf(w), w % 16, None)
           /\ w % 16 = 15 =>
                Passthrough!Decode(<<Passthrough!Word(w), Passthrough!Byte(id), Passthrough!Word(DataReg)>>) =
                  Passthrough!New(w, op, Passthrough!TypeOf(w), id, None)
<1> DEFINE m == <<Passthrough!Word(w), Passthrough!Word(DataReg)>>
           e == <<Passthrough!Word(w), Passthrough!Byte(id), Passthrough!Word(DataReg)>>
<1>1. Len(m) = 2 /\ m[1].width = 2 /\ m[1].value = w /\ m[2].width = 2 /\ m[2].value = DataReg
  BY DEF Passthrough!Word
<1>2. /\ Len(e) = 3 /\ e[1].width = 2 /\ e[1].value = w /\ e[2].width = 1 /\ e[2].value = id
      /\ e[3].width = 2 /\ e[3].value = DataReg
  BY DEF Passthrough!Word, Passthrough!Byte
<1>3. op # None
  BY PassthroughAssumption DEF Passthrough!Opcode
<1> HIDE DEF m, e
<1>4. w % 16 # 15 =>
         Passthrough!Decode(m) = Passthrough!New(w, op, Passthrough!TypeOf(w), w % 16, None)
  BY <1>1, <1>3 DEF Passthrough!Decode, Passthrough!Takes, Passthrough!RequiresReportId,
     Passthrough!RequiresHostData, Passthrough!HasResponse, Passthrough!ExtendedReportId
<1>5. w % 16 = 15 =>
         Passthrough!Decode(e) = Passthrough!New(w, op, Passthrough!TypeOf(w), id, None)
  BY <1>2, <1>3 DEF Passthrough!Decode, Passthrough!Takes, Passthrough!RequiresReportId,
     Passthrough!RequiresHostData, Passthrough!HasResponse, Passthrough!ExtendedReportId
<1> QED  BY <1>4, <1>5 DEF m, e

\* The same, and the report behind its length.
LEMMA DecodeSetReport ==
    ASSUME NEW w \in Nat, Passthrough!OpcodeOf(w) = "SetReport", NEW id, NEW d, d.width \in Nat
    PROVE  /\ w % 16 # 15 =>
                Passthrough!Decode(<<Passthrough!Word(w), Passthrough!Word(DataReg),
                                     Passthrough!Word(d.width + 2), d>>) =
                  Passthrough!New(w, "SetReport", Passthrough!TypeOf(w), w % 16, d)
           /\ w % 16 = 15 =>
                Passthrough!Decode(<<Passthrough!Word(w), Passthrough!Byte(id),
                                     Passthrough!Word(DataReg), Passthrough!Word(d.width + 2), d>>) =
                  Passthrough!New(w, "SetReport", Passthrough!TypeOf(w), id, d)
<1> DEFINE m == <<Passthrough!Word(w), Passthrough!Word(DataReg), Passthrough!Word(d.width + 2), d>>
           e == <<Passthrough!Word(w), Passthrough!Byte(id), Passthrough!Word(DataReg),
                  Passthrough!Word(d.width + 2), d>>
<1>1. /\ Len(m) = 4 /\ m[1].width = 2 /\ m[1].value = w /\ m[2].width = 2 /\ m[2].value = DataReg
      /\ m[3].width = 2 /\ m[3].value = d.width + 2 /\ m[4] = d
  BY DEF Passthrough!Word
<1>2. /\ Len(e) = 5 /\ e[1].width = 2 /\ e[1].value = w /\ e[2].width = 1 /\ e[2].value = id
      /\ e[3].width = 2 /\ e[3].value = DataReg
      /\ e[4].width = 2 /\ e[4].value = d.width + 2 /\ e[5] = d
  BY DEF Passthrough!Word, Passthrough!Byte
<1>3. "SetReport" # None
  BY PassthroughAssumption DEF Passthrough!Opcode
<1> HIDE DEF m, e
<1>4. w % 16 # 15 =>
         Passthrough!Decode(m) = Passthrough!New(w, "SetReport", Passthrough!TypeOf(w), w % 16, d)
  BY <1>1, <1>3 DEF Passthrough!Decode, Passthrough!Takes, Passthrough!RequiresReportId,
     Passthrough!RequiresHostData, Passthrough!HasResponse, Passthrough!ExtendedReportId
<1>5. w % 16 = 15 =>
         Passthrough!Decode(e) = Passthrough!New(w, "SetReport", Passthrough!TypeOf(w), id, d)
  BY <1>2, <1>3 DEF Passthrough!Decode, Passthrough!Takes, Passthrough!RequiresReportId,
     Passthrough!RequiresHostData, Passthrough!HasResponse, Passthrough!ExtendedReportId
<1> QED  BY <1>4, <1>5 DEF m, e

\* A command with host data that is not passed whole stays such a command.
LEMMA NewHasOp ==
    ASSUME NEW cmd, NEW op \in {"Vendor", "SetIdle", "SetProtocol"}, NEW type, NEW id, NEW data
    PROVE  \/ Passthrough!New(cmd, op, type, id, data) = Passthrough!Refused
           \/ Passthrough!New(cmd, op, type, id, data).op = op
<1> USE DEF Passthrough!New, Passthrough!Command, Passthrough!RequiresReportId,
            Passthrough!RequiresHostData
<1>1. CASE op = "Vendor"
  BY <1>1
<1>2. CASE op = "SetProtocol"
  BY <1>2
<1>3. CASE op = "SetIdle"
  <2>1. CASE id = None
    BY <1>3, <2>1
  <2>2. CASE id # None /\ data = None
    BY <1>3, <2>2
  <2>3. CASE id # None /\ data # None
    BY <1>3, <2>3
  <2> QED  BY <2>1, <2>2, <2>3
<1> QED  BY <1>1, <1>2, <1>3

\* So does what is read from a message.
LEMMA DecodedOp ==
    ASSUME NEW m, Passthrough!Decode(m) # Passthrough!Refused,
           Passthrough!OpcodeOf(m[1].value) \in {"Vendor", "SetIdle", "SetProtocol"}
    PROVE  Passthrough!Decode(m).op = Passthrough!OpcodeOf(m[1].value)
BY NewHasOp DEF Passthrough!Decode

\* The bytes of a message of three or four fields.
LEMMA WidthOfShort ==
    ASSUME NEW l, NEW n \in {3, 4}, Len(l) = n, \A i \in 1 .. n : l[i].width \in Nat
    PROVE  Passthrough!WidthOf(l) =
             l[1].width + l[2].width + l[3].width + (IF n = 4 THEN l[4].width ELSE 0)
<1> DEFINE F == CHOOSE F : F = [m \in 0 .. Len(l) |-> IF m = 0 THEN 0 ELSE F[m - 1] + l[m].width]
           g == [m \in 0 .. n |->
                   IF m = 0 THEN 0 ELSE IF m = 1 THEN l[1].width
                   ELSE IF m = 2 THEN l[1].width + l[2].width
                   ELSE IF m = 3 THEN l[1].width + l[2].width + l[3].width
                   ELSE l[1].width + l[2].width + l[3].width + l[4].width]
<1>1. Passthrough!WidthOf(l) = F[Len(l)]
  BY Zenon DEF Passthrough!WidthOf
<1>2. g = [m \in 0 .. Len(l) |-> IF m = 0 THEN 0 ELSE g[m - 1] + l[m].width]
  <2>1. ASSUME NEW m \in 0 .. n PROVE g[m] = IF m = 0 THEN 0 ELSE g[m - 1] + l[m].width
    OBVIOUS
  <2> QED  BY <2>1
<1> HIDE DEF g
<1>3. F = [m \in 0 .. Len(l) |-> IF m = 0 THEN 0 ELSE F[m - 1] + l[m].width]
  BY <1>2, Zenon
<1> HIDE DEF F
<1>n. n \in Nat /\ Len(l) = n
  OBVIOUS
<1>4. F[0] = 0 /\ \A m \in 1 .. n : F[m] = F[m - 1] + l[m].width
  BY ONLY <1>3, <1>n
<1>5. F[1] = F[1 - 1] + l[1].width /\ F[2] = F[2 - 1] + l[2].width /\ F[3] = F[3 - 1] + l[3].width
  BY <1>4
<1>6. n = 4 => F[4] = F[4 - 1] + l[4].width
  BY <1>4
<1> QED  BY <1>1, <1>4, <1>5, <1>6

\* The fields of a command behind its register.
Parts(c, dataReg) ==
    CASE c.op \in {"Reset", "Vendor"} -> Passthrough!EncodeBasic(c.op)
      [] c.op \in {"GetReport", "GetIdle"} ->
           Passthrough!EncodeCommon(c.op, c.type, c.id) \o Passthrough!EncodeRegister(dataReg)
      [] c.op = "SetReport" ->
           Passthrough!EncodeCommon(c.op, c.type, c.id) \o Passthrough!EncodeRegister(dataReg)
             \o Passthrough!EncodeData(c.data)
      [] c.op = "SetIdle" ->
           Passthrough!EncodeCommon(c.op, None, c.id) \o Passthrough!EncodeRegister(dataReg)
             \o Passthrough!EncodeValue(c.value)
      [] c.op = "GetProtocol" ->
           Passthrough!EncodeBasic(c.op) \o Passthrough!EncodeRegister(dataReg)
      [] c.op = "SetProtocol" ->
           Passthrough!EncodeBasic(c.op) \o Passthrough!EncodeRegister(dataReg)
             \o Passthrough!EncodeValue(c.value)
      [] c.op = "SetPower" -> <<Passthrough!Word(Passthrough!Opcode[c.op] * 256 + c.value)>>

\* A message is a register and the command's parts.
LEMMA EncodesParts ==
    \A c, r, d : Passthrough!Encode(c, r, d) = Passthrough!EncodeRegister(r) \o Parts(c, d)
BY Zenon DEF Passthrough!Encode, Parts

\* The parts of each command.
LEMMA PartsOf ==
    ASSUME NEW c, NEW d
    PROVE  /\ c.op \in {"Reset", "Vendor"} => Parts(c, d) = Passthrough!EncodeBasic(c.op)
           /\ c.op \in {"GetReport", "GetIdle"} =>
                Parts(c, d) = Passthrough!EncodeCommon(c.op, c.type, c.id) \o Passthrough!EncodeRegister(d)
           /\ c.op = "SetReport" =>
                Parts(c, d) = Passthrough!EncodeCommon(c.op, c.type, c.id)
                                \o Passthrough!EncodeRegister(d) \o Passthrough!EncodeData(c.data)
           /\ c.op = "SetIdle" =>
                Parts(c, d) = Passthrough!EncodeCommon(c.op, None, c.id)
                                \o Passthrough!EncodeRegister(d) \o Passthrough!EncodeValue(c.value)
           /\ c.op = "SetProtocol" =>
                Parts(c, d) = Passthrough!EncodeBasic(c.op) \o Passthrough!EncodeRegister(d)
                                \o Passthrough!EncodeValue(c.value)
           /\ c.op = "GetProtocol" =>
                Parts(c, d) = Passthrough!EncodeBasic(c.op) \o Passthrough!EncodeRegister(d)
           /\ c.op = "SetPower" =>
                Parts(c, d) = <<Passthrough!Word(Passthrough!Opcode[c.op] * 256 + c.value)>>
<1>1. c.op \in {"Reset", "Vendor"} => Parts(c, d) = Passthrough!EncodeBasic(c.op)
  BY DEF Parts
<1>2. c.op \in {"GetReport", "GetIdle"} =>
         Parts(c, d) = Passthrough!EncodeCommon(c.op, c.type, c.id) \o Passthrough!EncodeRegister(d)
  BY DEF Parts
<1>3. c.op = "SetReport" =>
         Parts(c, d) = Passthrough!EncodeCommon(c.op, c.type, c.id)
                         \o Passthrough!EncodeRegister(d) \o Passthrough!EncodeData(c.data)
  BY DEF Parts
<1>4. c.op = "GetProtocol" =>
         Parts(c, d) = Passthrough!EncodeBasic(c.op) \o Passthrough!EncodeRegister(d)
  BY DEF Parts
<1>5. c.op = "SetPower" =>
         Parts(c, d) = <<Passthrough!Word(Passthrough!Opcode[c.op] * 256 + c.value)>>
  BY DEF Parts
<1>6. c.op = "SetIdle" =>
         Parts(c, d) = Passthrough!EncodeCommon(c.op, None, c.id)
                         \o Passthrough!EncodeRegister(d) \o Passthrough!EncodeValue(c.value)
  BY DEF Parts
<1>7. c.op = "SetProtocol" =>
         Parts(c, d) = Passthrough!EncodeBasic(c.op) \o Passthrough!EncodeRegister(d)
                         \o Passthrough!EncodeValue(c.value)
  BY DEF Parts
<1> QED  BY <1>1, <1>2, <1>3, <1>4, <1>5, <1>6, <1>7

\* A command's parts are a sequence that is read as the command, and sent to the
\* device as they are.
ReadBack(c) ==
    /\ \E S : Parts(c, DataReg) \in Seq(S)
    /\ Passthrough!Decode(Parts(c, DataReg)) = c
    /\ Passthrough!EncodeForDevice(c) =
         <<Passthrough!Word(CommandReg)>> \o Parts(c, DataReg)

\* The parts of a command that goes without the data register do not depend on it.
LEMMA ForDevice ==
    ASSUME NEW c, Passthrough!HasResponse(c.op) \/ Passthrough!RequiresHostData(c.op)
                  \/ Parts(c, None) = Parts(c, DataReg)
    PROVE  Passthrough!EncodeForDevice(c) = <<Passthrough!Word(CommandReg)>> \o Parts(c, DataReg)
<1>1. Passthrough!EncodeRegister(CommandReg) = <<Passthrough!Word(CommandReg)>>
  BY PassthroughAssumption, Zenon DEF Passthrough!EncodeRegister
<1> QED  BY <1>1, EncodesParts, Zenon DEF Passthrough!EncodeForDevice

\* A reset is read back.
LEMMA ResetBack == ReadBack(Passthrough!Command("Reset", None, None, None, None))
<1> DEFINE c == Passthrough!Command("Reset", None, None, None, None)
           w == Passthrough!Opcode["Reset"] * 256
<1>1. c.op = "Reset"
  BY DEF Passthrough!Command
<1>2. ASSUME NEW d PROVE Parts(c, d) = <<Passthrough!Word(w)>>
  <2> HIDE DEF c
  <2>1. c.op \in {"Reset", "Vendor"}
    BY <1>1
  <2>2. Parts(c, d) = Passthrough!EncodeBasic(c.op)
    BY <2>1, PartsOf, Zenon
  <2> QED  BY <1>1, <2>2, Zenon DEF Passthrough!EncodeBasic
<1>3. w \in Nat /\ Passthrough!OpcodeOf(w) = "Reset"
  <2>1. w = Passthrough!Opcode["Reset"] * 256 + 0 /\ "Reset" \in DOMAIN Passthrough!Opcode
    BY DEF Passthrough!Opcode
  <2> HIDE DEF w
  <2> QED  BY <2>1, OpcodeRead
<1> HIDE DEF c, w
<1>4. Passthrough!Decode(<<Passthrough!Word(w)>>) = c
  <2>1. Passthrough!Decode(<<Passthrough!Word(w)>>) =
          Passthrough!New(w, "Reset", Passthrough!TypeOf(w), None, None)
    BY <1>3, DecodePlain
  <2>2. Passthrough!New(w, "Reset", Passthrough!TypeOf(w), None, None) = c
    BY DEF c, Passthrough!New, Passthrough!RequiresReportId, Passthrough!RequiresHostData
  <2> QED  BY <2>1, <2>2
<1>5. Passthrough!EncodeForDevice(c) = <<Passthrough!Word(CommandReg)>> \o Parts(c, DataReg)
  <2>1. Parts(c, None) = <<Passthrough!Word(w)>> /\ Parts(c, DataReg) = <<Passthrough!Word(w)>>
    BY <1>2, Zenon
  <2>2. Parts(c, None) = Parts(c, DataReg)
    BY <2>1, Zenon
  <2> QED  BY <2>2, ForDevice, Zenon
<1>6. <<Passthrough!Word(w)>> \in Seq({Passthrough!Word(w)})
  OBVIOUS
<1>7. ReadBack(c)
  BY <1>2, <1>4, <1>5, <1>6, Zenon DEF ReadBack
<1> QED  BY <1>7 DEF c

\* A power state is read back.
LEMMA PowerBack ==
    ASSUME NEW v \in Passthrough!PowerValues
    PROVE  ReadBack(Passthrough!Command("SetPower", None, None, None, v))
<1> DEFINE c == Passthrough!Command("SetPower", None, None, None, v)
           w == Passthrough!Opcode["SetPower"] * 256 + v
<1>0. v \in {0, 1}
  BY DEF Passthrough!PowerValues
<1>1. c.op = "SetPower" /\ c.value = v
  BY DEF Passthrough!Command
<1>2. ASSUME NEW d PROVE Parts(c, d) = <<Passthrough!Word(w)>>
  <2> HIDE DEF c
  <2>1. Parts(c, d) = <<Passthrough!Word(Passthrough!Opcode[c.op] * 256 + c.value)>>
    BY <1>1, PartsOf, Zenon
  <2> QED  BY <1>1, <2>1, Zenon
<1>3. w \in Nat /\ Passthrough!OpcodeOf(w) = "SetPower"
  <2>1. v \in 0 .. 255 /\ "SetPower" \in DOMAIN Passthrough!Opcode
    BY <1>0 DEF Passthrough!Opcode
  <2> QED  BY <2>1, OpcodeRead
<1>a. w % 4 = v
  BY <1>0 DEF Passthrough!Opcode
<1> HIDE DEF c, w
<1>4. Passthrough!Decode(<<Passthrough!Word(w)>>) = c
  <2>1. Passthrough!Decode(<<Passthrough!Word(w)>>) =
          Passthrough!New(w, "SetPower", Passthrough!TypeOf(w), None, None)
    BY <1>3, DecodePlain
  <2>2. Passthrough!New(w, "SetPower", Passthrough!TypeOf(w), None, None) = c
    BY <1>a DEF c, Passthrough!New, Passthrough!RequiresReportId, Passthrough!RequiresHostData
  <2> QED  BY <2>1, <2>2
<1>5. Passthrough!EncodeForDevice(c) = <<Passthrough!Word(CommandReg)>> \o Parts(c, DataReg)
  <2>1. Parts(c, None) = <<Passthrough!Word(w)>> /\ Parts(c, DataReg) = <<Passthrough!Word(w)>>
    BY <1>2, Zenon
  <2>2. Parts(c, None) = Parts(c, DataReg)
    BY <2>1, Zenon
  <2> QED  BY <2>2, ForDevice, Zenon
<1>6. <<Passthrough!Word(w)>> \in Seq({Passthrough!Word(w)})
  OBVIOUS
<1>7. ReadBack(c)
  BY <1>2, <1>4, <1>5, <1>6, Zenon DEF ReadBack
<1> QED  BY <1>7 DEF c

\* The data register takes a word.
LEMMA RegisterWord == Passthrough!EncodeRegister(DataReg) = <<Passthrough!Word(DataReg)>>
BY PassthroughAssumption, Zenon DEF Passthrough!EncodeRegister

\* A request for the protocol is read back.
LEMMA ProtocolBack == ReadBack(Passthrough!Command("GetProtocol", None, None, None, None))
<1> DEFINE c == Passthrough!Command("GetProtocol", None, None, None, None)
           w == Passthrough!Opcode["GetProtocol"] * 256
           m == <<Passthrough!Word(w), Passthrough!Word(DataReg)>>
<1>1. c.op = "GetProtocol"
  BY DEF Passthrough!Command
<1>2. Parts(c, DataReg) = m
  <2> HIDE DEF c
  <2>2. Parts(c, DataReg) = Passthrough!EncodeBasic(c.op) \o Passthrough!EncodeRegister(DataReg)
    BY <1>1, PartsOf, Zenon
  <2>1. Parts(c, DataReg) = <<Passthrough!Word(w)>> \o <<Passthrough!Word(DataReg)>>
    BY <1>1, <2>2, RegisterWord, Zenon DEF Passthrough!EncodeBasic
  <2> QED  BY <2>1, ShortJoins, Zenon
<1>3. w \in Nat /\ Passthrough!OpcodeOf(w) = "GetProtocol"
  <2>1. w = Passthrough!Opcode["GetProtocol"] * 256 + 0 /\ "GetProtocol" \in DOMAIN Passthrough!Opcode
    BY DEF Passthrough!Opcode
  <2> HIDE DEF w
  <2> QED  BY <2>1, OpcodeRead
<1> HIDE DEF c, w
<1>4. Passthrough!Decode(m) = c
  <2>1. Passthrough!Decode(m) = Passthrough!New(w, "GetProtocol", Passthrough!TypeOf(w), None, None)
    BY <1>3, DecodeProtocol
  <2>2. Passthrough!New(w, "GetProtocol", Passthrough!TypeOf(w), None, None) = c
    BY DEF c, Passthrough!New, Passthrough!RequiresReportId, Passthrough!RequiresHostData
  <2> QED  BY <2>1, <2>2
<1>5. Passthrough!EncodeForDevice(c) = <<Passthrough!Word(CommandReg)>> \o Parts(c, DataReg)
  <2>1. Passthrough!HasResponse(c.op)
    BY <1>1 DEF Passthrough!HasResponse
  <2> QED  BY <2>1, ForDevice, Zenon
<1>6. m \in Seq({Passthrough!Word(w), Passthrough!Word(DataReg)})
  OBVIOUS
<1> HIDE DEF m
<1>7. ReadBack(c)
  BY <1>2, <1>4, <1>5, <1>6, Zenon DEF ReadBack
<1> QED  BY <1>7 DEF c

\* The word, and the id where it takes a byte of its own, before the data register.
LEMMA BaseParts ==
    ASSUME NEW op \in DOMAIN Passthrough!Opcode, NEW id \in 0 .. 255,
           NEW type \in DOMAIN Passthrough!ReportType \cup {None}
    PROVE  \E w \in Nat :
              /\ Passthrough!OpcodeOf(w) = op
              /\ w % 16 = IF id >= 15 THEN 15 ELSE id
              /\ type # None => Passthrough!TypeOf(w) = type
              /\ Passthrough!EncodeCommon(op, type, id) \o Passthrough!EncodeRegister(DataReg) =
                   IF id >= 15
                   THEN <<Passthrough!Word(w), Passthrough!Byte(id), Passthrough!Word(DataReg)>>
                   ELSE <<Passthrough!Word(w), Passthrough!Word(DataReg)>>
<1>1. PICK w \in Nat :
         /\ Passthrough!OpcodeOf(w) = op
         /\ w % 16 = IF id >= 15 THEN 15 ELSE id
         /\ type # None => Passthrough!TypeOf(w) = type
         /\ Passthrough!EncodeCommon(op, type, id) =
              IF id >= 15 THEN <<Passthrough!Word(w), Passthrough!Byte(id)>>
              ELSE <<Passthrough!Word(w)>>
  BY CommonRead
<1>2. CASE id >= 15
  BY <1>1, <1>2, RegisterWord, ShortJoins, Zenon
<1>3. CASE ~(id >= 15)
  BY <1>1, <1>3, RegisterWord, ShortJoins, Zenon
<1> QED  BY <1>2, <1>3

\* A request for a report or for the idle rate is read back.
LEMMA GetBack ==
    ASSUME NEW op \in {"GetReport", "GetIdle"}, NEW id \in 0 .. 255, NEW type,
           type \in IF op = "GetReport" THEN {"Input", "Feature"} ELSE {None}
    PROVE  ReadBack(Passthrough!Command(op, type, id, None, None))
<1> DEFINE c == Passthrough!Command(op, type, id, None, None)
<1>1. c.op = op /\ c.type = type /\ c.id = id
  BY DEF Passthrough!Command
<1>2. /\ op \in DOMAIN Passthrough!Opcode /\ type \in DOMAIN Passthrough!ReportType \cup {None}
      /\ op = "GetReport" => type # None
  BY PassthroughAssumption DEF Passthrough!Opcode, Passthrough!ReportType
<1>3. PICK w \in Nat :
         /\ Passthrough!OpcodeOf(w) = op
         /\ w % 16 = IF id >= 15 THEN 15 ELSE id
         /\ type # None => Passthrough!TypeOf(w) = type
         /\ Passthrough!EncodeCommon(op, type, id) \o Passthrough!EncodeRegister(DataReg) =
              IF id >= 15
              THEN <<Passthrough!Word(w), Passthrough!Byte(id), Passthrough!Word(DataReg)>>
              ELSE <<Passthrough!Word(w), Passthrough!Word(DataReg)>>
  BY <1>2, BaseParts
<1> HIDE DEF c
<1>4. Parts(c, DataReg) =
        IF id >= 15
        THEN <<Passthrough!Word(w), Passthrough!Byte(id), Passthrough!Word(DataReg)>>
        ELSE <<Passthrough!Word(w), Passthrough!Word(DataReg)>>
  <2>1. c.op \in {"GetReport", "GetIdle"}
    BY <1>1
  <2>2. Parts(c, DataReg) =
          Passthrough!EncodeCommon(c.op, c.type, c.id) \o Passthrough!EncodeRegister(DataReg)
    BY <2>1, PartsOf, Zenon
  <2> QED  BY <1>1, <1>3, <2>2, Zenon
<1>5. id # None
  BY NoneAssumption
<1>6. Passthrough!New(w, op, Passthrough!TypeOf(w), id, None) = c
  <2>1. CASE op = "GetReport"
    BY <1>2, <1>3, <1>5, <2>1 DEF c, Passthrough!New, Passthrough!RequiresReportId, Passthrough!RequiresHostData
  <2>2. CASE op = "GetIdle"
    BY <1>5, <2>2 DEF c, Passthrough!New, Passthrough!RequiresReportId, Passthrough!RequiresHostData
  <2> QED  BY <2>1, <2>2
<1>7. Passthrough!Decode(Parts(c, DataReg)) = c
  <2>1. CASE id >= 15
    <3>1. w % 16 = 15
      BY <1>3, <2>1
    <3>2. Passthrough!Decode(Parts(c, DataReg)) = Passthrough!New(w, op, Passthrough!TypeOf(w), id, None)
      BY <1>3, <1>4, <2>1, <3>1, DecodeGet, Zenon
    <3> QED  BY <1>6, <3>2
  <2>2. CASE ~(id >= 15)
    <3>1. w % 16 = id /\ id # 15
      BY <1>3, <2>2
    <3>2. Passthrough!Decode(Parts(c, DataReg)) = Passthrough!New(w, op, Passthrough!TypeOf(w), w % 16, None)
      BY <1>3, <1>4, <2>2, <3>1, DecodeGet, Zenon
    <3> QED  BY <1>6, <3>1, <3>2
  <2> QED  BY <2>1, <2>2
<1>8. Passthrough!EncodeForDevice(c) = <<Passthrough!Word(CommandReg)>> \o Parts(c, DataReg)
  <2>1. Passthrough!HasResponse(c.op)
    BY <1>1 DEF Passthrough!HasResponse
  <2> QED  BY <2>1, ForDevice, Zenon
<1>9. \E S : Parts(c, DataReg) \in Seq(S)
  <2> DEFINE S == {Passthrough!Word(w), Passthrough!Byte(id), Passthrough!Word(DataReg)}
  <2>1. <<Passthrough!Word(w), Passthrough!Byte(id), Passthrough!Word(DataReg)>> \in Seq(S)
        /\ <<Passthrough!Word(w), Passthrough!Word(DataReg)>> \in Seq(S)
    OBVIOUS
  <2> HIDE DEF S
  <2>2. Parts(c, DataReg) \in Seq(S)
    BY <1>4, <2>1, Zenon
  <2> QED  BY <2>2
<1>10. ReadBack(c)
  BY <1>7, <1>8, <1>9, Zenon DEF ReadBack
<1> QED  BY <1>10 DEF c

\* A report to set is read back.
LEMMA SetBack ==
    ASSUME NEW type \in {"Output", "Feature"}, NEW id \in 0 .. 255, NEW d, d # None, d.width \in Nat
    PROVE  ReadBack(Passthrough!Command("SetReport", type, id, d, None))
<1> DEFINE c == Passthrough!Command("SetReport", type, id, d, None)
           l == Passthrough!Word(d.width + 2)
           r == Passthrough!Word(DataReg)
           i == Passthrough!Byte(id)
<1>1. c.op = "SetReport" /\ c.type = type /\ c.id = id /\ c.data = d
  BY DEF Passthrough!Command
<1>2. /\ "SetReport" \in DOMAIN Passthrough!Opcode
      /\ type \in DOMAIN Passthrough!ReportType \cup {None} /\ type # None
  BY PassthroughAssumption DEF Passthrough!Opcode, Passthrough!ReportType
<1>3. PICK w \in Nat :
         /\ Passthrough!OpcodeOf(w) = "SetReport"
         /\ w % 16 = IF id >= 15 THEN 15 ELSE id
         /\ type # None => Passthrough!TypeOf(w) = type
         /\ Passthrough!EncodeCommon("SetReport", type, id) \o Passthrough!EncodeRegister(DataReg) =
              IF id >= 15 THEN <<Passthrough!Word(w), i, r>> ELSE <<Passthrough!Word(w), r>>
  BY <1>2, BaseParts
<1> HIDE DEF c
<1>4. Parts(c, DataReg) =
        IF id >= 15 THEN <<Passthrough!Word(w), i, r, l, d>> ELSE <<Passthrough!Word(w), r, l, d>>
  <2>2. Parts(c, DataReg) =
          Passthrough!EncodeCommon(c.op, c.type, c.id) \o Passthrough!EncodeRegister(DataReg)
            \o Passthrough!EncodeData(c.data)
    BY <1>1, PartsOf, Zenon
  <2>3. Passthrough!EncodeData(c.data) = <<l, d>>
    BY <1>1, Zenon DEF Passthrough!EncodeData
  <2> HIDE DEF l, r, i
  <2>4. CASE id >= 15
    <3>1. Passthrough!EncodeCommon("SetReport", type, id) \o Passthrough!EncodeRegister(DataReg)
            = <<Passthrough!Word(w), i, r>>
      BY <1>3, <2>4, Zenon
    <3>2. Parts(c, DataReg) = <<Passthrough!Word(w), i, r>> \o <<l, d>>
      BY <1>1, <2>2, <2>3, <3>1, Zenon
    <3>3. Parts(c, DataReg) = <<Passthrough!Word(w), i, r, l, d>>
      BY ONLY <3>2, ShortJoins
    <3> QED  BY <2>4, <3>3, Zenon
  <2>5. CASE ~(id >= 15)
    <3>1. Passthrough!EncodeCommon("SetReport", type, id) \o Passthrough!EncodeRegister(DataReg)
            = <<Passthrough!Word(w), r>>
      BY <1>3, <2>5, Zenon
    <3>2. Parts(c, DataReg) = <<Passthrough!Word(w), r>> \o <<l, d>>
      BY <1>1, <2>2, <2>3, <3>1, Zenon
    <3>3. Parts(c, DataReg) = <<Passthrough!Word(w), r, l, d>>
      BY ONLY <3>2, ShortJoins
    <3> QED  BY <2>5, <3>3, Zenon
  <2> QED  BY <2>4, <2>5, Zenon
<1>5. id # None
  BY NoneAssumption
<1>6. Passthrough!New(w, "SetReport", Passthrough!TypeOf(w), id, d) = c
  BY <1>2, <1>3, <1>5 DEF c, Passthrough!New, Passthrough!RequiresReportId, Passthrough!RequiresHostData
<1>7. Passthrough!Decode(Parts(c, DataReg)) = c
  <2>1. CASE id >= 15
    <3>1. w % 16 = 15
      BY <1>3, <2>1
    <3>2. Passthrough!Decode(Parts(c, DataReg)) = Passthrough!New(w, "SetReport", Passthrough!TypeOf(w), id, d)
      BY <1>3, <1>4, <2>1, <3>1, DecodeSetReport, Zenon
    <3> QED  BY <1>6, <3>2
  <2>2. CASE ~(id >= 15)
    <3>1. w % 16 = id /\ id # 15
      BY <1>3, <2>2
    <3>2. Passthrough!Decode(Parts(c, DataReg)) = Passthrough!New(w, "SetReport", Passthrough!TypeOf(w), w % 16, d)
      BY <1>3, <1>4, <2>2, <3>1, DecodeSetReport, Zenon
    <3> QED  BY <1>6, <3>1, <3>2
  <2> QED  BY <2>1, <2>2
<1>8. Passthrough!EncodeForDevice(c) = <<Passthrough!Word(CommandReg)>> \o Parts(c, DataReg)
  <2>1. Passthrough!RequiresHostData(c.op)
    BY <1>1 DEF Passthrough!RequiresHostData
  <2> QED  BY <2>1, ForDevice, Zenon
<1>9. \E S : Parts(c, DataReg) \in Seq(S)
  <2> HIDE DEF l, r, i
  <2> DEFINE S == {Passthrough!Word(w), i, r, l, d}
  <2>1. <<Passthrough!Word(w), i, r, l, d>> \in Seq(S) /\ <<Passthrough!Word(w), r, l, d>> \in Seq(S)
    OBVIOUS
  <2> HIDE DEF S
  <2>2. Parts(c, DataReg) \in Seq(S)
    BY <1>4, <2>1, Zenon
  <2> QED  BY <2>2
<1>10. ReadBack(c)
  BY <1>7, <1>8, <1>9, Zenon DEF ReadBack
<1> QED  BY <1>10 DEF c

\* The commands with host data that are not whole, by their first field.
LEMMA HostDataOp ==
    ASSUME NEW c, NEW m,
           m = Passthrough!EncodeRegister(None) \o Parts(c, DataReg),
           \/ c.op = "Vendor"
           \/ c.op = "SetProtocol"
           \/ c.op = "SetIdle" /\ c.id \in 0 .. 255
    PROVE  Passthrough!OpcodeOf(m[1].value) = c.op
<1>0. /\ {"Vendor", "SetProtocol", "SetIdle"} \subseteq DOMAIN Passthrough!Opcode
      /\ c.op \in {"Vendor", "SetProtocol", "SetIdle"}
  BY DEF Passthrough!Opcode
<1> DEFINE w == Passthrough!Opcode[c.op] * 256
           r == Passthrough!Word(DataReg)
           l == Passthrough!Word(4)
           v == Passthrough!Word(c.value)
<1>1. Passthrough!OpcodeOf(w) = c.op
  <2>1. c.op \in DOMAIN Passthrough!Opcode /\ w = w + 0
    BY <1>0 DEF Passthrough!Opcode
  <2> HIDE DEF w
  <2>2. Passthrough!OpcodeOf(w + 0) = c.op
    BY <2>1, OpcodeRead, 0 \in 0 .. 255, Zenon DEF w
  <2> QED  BY <2>1, <2>2
<1>2. Passthrough!EncodeValue(c.value) = <<l, v>> /\ Passthrough!EncodeBasic(c.op) = <<Passthrough!Word(w)>>
      /\ Passthrough!EncodeRegister(None) = <<>>
  BY Zenon DEF Passthrough!EncodeValue, Passthrough!EncodeBasic, Passthrough!EncodeRegister
<1> HIDE DEF w, r, l, v
<1>3. \E x : /\ Passthrough!OpcodeOf(x) = c.op
            /\ \/ Parts(c, DataReg) = <<Passthrough!Word(x)>>
               \/ Parts(c, DataReg) = <<Passthrough!Word(x), r, l, v>>
               \/ Parts(c, DataReg) = <<Passthrough!Word(x), Passthrough!Byte(c.id), r, l, v>>
  <2>1. CASE c.op = "Vendor"
    <3>1. c.op \in {"Reset", "Vendor"}
      BY <2>1
    <3>2. Parts(c, DataReg) = <<Passthrough!Word(w)>>
      BY <1>2, <3>1, PartsOf, Zenon
    <3> QED  BY <1>1, <3>2, Zenon
  <2>2. CASE c.op = "SetProtocol"
    <3>1. Parts(c, DataReg) = <<Passthrough!Word(w)>> \o <<r>> \o <<l, v>>
      BY <1>2, <2>2, PartsOf, RegisterWord, Zenon DEF r
    <3>2. <<Passthrough!Word(w)>> \o <<r>> = <<Passthrough!Word(w), r>>
      BY ShortJoins, Zenon
    <3>3. <<Passthrough!Word(w), r>> \o <<l, v>> = <<Passthrough!Word(w), r, l, v>>
      BY ShortJoins, Zenon
    <3>4. Parts(c, DataReg) = <<Passthrough!Word(w), r, l, v>>
      BY <3>1, <3>2, <3>3, Zenon
    <3> QED  BY <1>1, <3>4, Zenon
  <2>3. CASE c.op = "SetIdle" /\ c.id \in 0 .. 255
    <3>1. PICK x \in Nat :
             /\ Passthrough!OpcodeOf(x) = c.op
             /\ Passthrough!EncodeCommon(c.op, None, c.id) \o Passthrough!EncodeRegister(DataReg) =
                  IF c.id >= 15 THEN <<Passthrough!Word(x), Passthrough!Byte(c.id), r>>
                  ELSE <<Passthrough!Word(x), r>>
      <4>1. c.op \in DOMAIN Passthrough!Opcode /\ c.id \in 0 .. 255
            /\ None \in DOMAIN Passthrough!ReportType \cup {None}
        BY <1>0, <2>3
      <4>2. \E x \in Nat :
               /\ Passthrough!OpcodeOf(x) = c.op
               /\ x % 16 = IF c.id >= 15 THEN 15 ELSE c.id
               /\ None # None => Passthrough!TypeOf(x) = None
               /\ Passthrough!EncodeCommon(c.op, None, c.id) \o Passthrough!EncodeRegister(DataReg) =
                    IF c.id >= 15
                    THEN <<Passthrough!Word(x), Passthrough!Byte(c.id), Passthrough!Word(DataReg)>>
                    ELSE <<Passthrough!Word(x), Passthrough!Word(DataReg)>>
        BY ONLY <4>1, BaseParts
      <4> QED  BY <4>2, Zenon DEF r
    <3>2. Parts(c, DataReg) =
            (Passthrough!EncodeCommon(c.op, None, c.id) \o Passthrough!EncodeRegister(DataReg)) \o <<l, v>>
      BY <1>2, <2>3, PartsOf, Zenon
    <3>3. CASE c.id >= 15
      <4>1. Parts(c, DataReg) = <<Passthrough!Word(x), Passthrough!Byte(c.id), r>> \o <<l, v>>
        BY <3>1, <3>2, <3>3, Zenon
      <4>2. Parts(c, DataReg) = <<Passthrough!Word(x), Passthrough!Byte(c.id), r, l, v>>
        BY ONLY <4>1, ShortJoins
      <4> QED  BY <3>1, <4>2, Zenon
    <3>4. CASE ~(c.id >= 15)
      <4>1. Parts(c, DataReg) = <<Passthrough!Word(x), r>> \o <<l, v>>
        BY <3>1, <3>2, <3>4, Zenon
      <4>2. Parts(c, DataReg) = <<Passthrough!Word(x), r, l, v>>
        BY <4>1, ShortJoins, Zenon
      <4> QED  BY <3>1, <4>2, Zenon
    <3> QED  BY <3>3, <3>4
  <2> QED  BY <2>1, <2>2, <2>3
<1>4. PICK x : /\ Passthrough!OpcodeOf(x) = c.op
              /\ \/ Parts(c, DataReg) = <<Passthrough!Word(x)>>
                 \/ Parts(c, DataReg) = <<Passthrough!Word(x), r, l, v>>
                 \/ Parts(c, DataReg) = <<Passthrough!Word(x), Passthrough!Byte(c.id), r, l, v>>
  BY <1>3
<1> DEFINE y == Passthrough!Word(x)
           i == Passthrough!Byte(c.id)
<1> HIDE DEF y, i
<1>5. /\ <<y>> \in Seq({y}) /\ <<y>>[1] = y
      /\ <<y, r, l, v>> \in Seq({y, r, l, v}) /\ <<y, r, l, v>>[1] = y
      /\ <<y, i, r, l, v>> \in Seq({y, i, r, l, v}) /\ <<y, i, r, l, v>>[1] = y
  OBVIOUS
<1>6. m[1] = y
  <2>1. m = <<>> \o Parts(c, DataReg)
    BY <1>2
  <2>2. \/ Parts(c, DataReg) = <<y>>
        \/ Parts(c, DataReg) = <<y, r, l, v>>
        \/ Parts(c, DataReg) = <<y, i, r, l, v>>
    BY <1>4, Zenon DEF y, i
  <2> QED  BY <1>5, <2>1, <2>2, EmptyJoin, Zenon
<1>7. y.value = x
  BY DEF y, Passthrough!Word
<1> QED  BY <1>4, <1>6, <1>7, Zenon

\* A whole command that is not refused reaches the device as the host sent it.
LEMMA Resent ==
    ASSUME NEW m \in Messages, Passthrough!Decode(m) # Passthrough!Refused,
           Passthrough!Decode(m).op \in Passthrough!WholeCommands
    PROVE  /\ Passthrough!EncodeForDevice(Passthrough!Decode(m)) =
                <<Passthrough!Word(CommandReg)>> \o m
           /\ Tail(<<Passthrough!Word(CommandReg)>> \o m) = m
<1> DEFINE D == {m[i] : i \in DOMAIN m}
           V == {m[i].value : i \in DOMAIN m}
<1>1. PICK c \in HostCommands(D, V) : m = Passthrough!Encode(c, None, DataReg)
  BY PassthroughAssumption, Zenon
<1>2. \A d \in D : d # None /\ d.width \in Nat
  BY PassthroughAssumption, Zenon
<1> HIDE DEF D, V
<1>3. SUFFICES ReadBack(c)
  <2>1. PICK S : Parts(c, DataReg) \in Seq(S)
    BY <1>3 DEF ReadBack
  <2>2. m = Parts(c, DataReg)
    <3>1. m = Passthrough!EncodeRegister(None) \o Parts(c, DataReg)
      BY <1>1, EncodesParts, Zenon
    <3>2. Passthrough!EncodeRegister(None) = <<>>
      BY Zenon DEF Passthrough!EncodeRegister
    <3> QED  BY <2>1, <3>1, <3>2, EmptyJoin, Zenon
  <2>3. Passthrough!Decode(m) = c
        /\ Passthrough!EncodeForDevice(c) = <<Passthrough!Word(CommandReg)>> \o m
    BY <1>3, <2>2, Zenon DEF ReadBack
  <2>4. Tail(<<Passthrough!Word(CommandReg)>> \o m) = m
    BY <2>1, <2>2, TailJoin, Zenon
  <2> QED  BY <2>3, <2>4, Zenon
<1>h. ASSUME \/ c.op = "Vendor"
             \/ c.op = "SetProtocol"
             \/ c.op = "SetIdle" /\ c.id \in 0 .. 255
      PROVE  FALSE
  <2>1. m = Passthrough!EncodeRegister(None) \o Parts(c, DataReg)
    BY <1>1, EncodesParts, Zenon
  <2>2. Passthrough!OpcodeOf(m[1].value) = c.op
    BY <1>h, <2>1, HostDataOp
  <2>3. c.op \in {"Vendor", "SetIdle", "SetProtocol"}
    BY <1>h
  <2>4. Passthrough!Decode(m).op = c.op
    BY <2>2, <2>3, DecodedOp, Zenon
  <2> QED  BY <2>3, <2>4 DEF Passthrough!WholeCommands
<1>4. \/ \E o \in {"Reset", "GetProtocol", "Vendor"} : c = Passthrough!Command(o, None, None, None, None)
      \/ \E t \in {"Input", "Feature"}, i \in 0 .. 255 :
            c = Passthrough!Command("GetReport", t, i, None, None)
      \/ \E t \in {"Output", "Feature"}, i \in 0 .. 255, d \in D :
            c = Passthrough!Command("SetReport", t, i, d, None)
      \/ \E i \in 0 .. 255 : c = Passthrough!Command("GetIdle", None, i, None, None)
      \/ \E i \in 0 .. 255, v \in V : c = Passthrough!Command("SetIdle", None, i, None, v)
      \/ \E o \in {"SetPower", "SetProtocol"}, v \in Passthrough!PowerValues :
            c = Passthrough!Command(o, None, None, None, v)
  BY <1>1 DEF HostCommands
<1>5. ASSUME NEW o \in {"Reset", "GetProtocol", "Vendor"},
             c = Passthrough!Command(o, None, None, None, None)
      PROVE  ReadBack(c)
  <2>1. CASE o = "Vendor"
    <3>1. c.op = "Vendor"
      BY <1>5, <2>1 DEF Passthrough!Command
    <3> QED  BY <1>h, <3>1
  <2>2. CASE o = "Reset"
    BY <1>5, <2>2, ResetBack
  <2>3. CASE o = "GetProtocol"
    BY <1>5, <2>3, ProtocolBack
  <2> QED  BY <2>1, <2>2, <2>3
<1>6. ASSUME NEW t \in {"Input", "Feature"}, NEW i \in 0 .. 255,
             c = Passthrough!Command("GetReport", t, i, None, None)
      PROVE  ReadBack(c)
  BY <1>6, GetBack
<1>7. ASSUME NEW t \in {"Output", "Feature"}, NEW i \in 0 .. 255, NEW d \in D,
             c = Passthrough!Command("SetReport", t, i, d, None)
      PROVE  ReadBack(c)
  BY <1>2, <1>7, SetBack
<1>8. ASSUME NEW i \in 0 .. 255, c = Passthrough!Command("GetIdle", None, i, None, None)
      PROVE  ReadBack(c)
  BY <1>8, GetBack
<1>9. ASSUME NEW i \in 0 .. 255, NEW v \in V, c = Passthrough!Command("SetIdle", None, i, None, v)
      PROVE  ReadBack(c)
  <2>1. c.op = "SetIdle" /\ c.id \in 0 .. 255
    BY <1>9 DEF Passthrough!Command
  <2> QED  BY <1>h, <2>1
<1>10. ASSUME NEW o \in {"SetPower", "SetProtocol"}, NEW v \in Passthrough!PowerValues,
              c = Passthrough!Command(o, None, None, None, v)
       PROVE  ReadBack(c)
  <2>2. CASE o = "SetPower"
    BY <1>10, <2>2, PowerBack
  <2>3. CASE o = "SetProtocol"
    <3>1. c.op = "SetProtocol"
      BY <1>10, <2>3 DEF Passthrough!Command
    <3> QED  BY <1>h, <3>1
  <2> QED  BY <2>2, <2>3
<1>11. CASE \E o \in {"Reset", "GetProtocol", "Vendor"} : c = Passthrough!Command(o, None, None, None, None)
  BY <1>5, <1>11
<1>12. CASE \E t \in {"Input", "Feature"}, i \in 0 .. 255 :
               c = Passthrough!Command("GetReport", t, i, None, None)
  BY <1>6, <1>12
<1>13. CASE \E t \in {"Output", "Feature"}, i \in 0 .. 255, d \in D :
               c = Passthrough!Command("SetReport", t, i, d, None)
  BY <1>7, <1>13
<1>14. CASE \E i \in 0 .. 255 : c = Passthrough!Command("GetIdle", None, i, None, None)
  BY <1>8, <1>14
<1>15. CASE \E i \in 0 .. 255, v \in V : c = Passthrough!Command("SetIdle", None, i, None, v)
  BY <1>9, <1>15
<1>16. CASE \E o \in {"SetPower", "SetProtocol"}, v \in Passthrough!PowerValues :
               c = Passthrough!Command(o, None, None, None, v)
  BY <1>10, <1>16
<1> QED  BY <1>4, <1>11, <1>12, <1>13, <1>14, <1>15, <1>16

\* A response has room in the scratch buffer of seven bytes.
LEMMA ScratchSuffices ==
    ASSUME NEW m \in Messages, Passthrough!Decode(m) # Passthrough!Refused,
           Passthrough!HasResponse(Passthrough!Decode(m).op)
    PROVE  Passthrough!WidthOf(Passthrough!EncodeForDevice(Passthrough!Decode(m))) <= 7
<1> DEFINE c == Passthrough!Decode(m)
           base == Passthrough!EncodeCommon(c.op, c.type, c.id)
           n(s) == \A i \in 1 .. Len(s) : s[i].width \in Nat
<1>0. c.op \in {"GetReport", "GetIdle", "GetProtocol"}
  BY DEF Passthrough!HasResponse
<1> HIDE DEF c
<1>1. Passthrough!EncodeForDevice(c) = <<Passthrough!Word(CommandReg)>> \o Parts(c, DataReg)
  BY <1>0, ForDevice DEF Passthrough!HasResponse
<1>w. \A w : Passthrough!Word(w).width = 2 /\ Passthrough!Byte(w).width = 1
  BY DEF Passthrough!Word, Passthrough!Byte
<1>2. \/ \E a : Parts(c, DataReg) = <<Passthrough!Word(a), Passthrough!Word(DataReg)>>
      \/ \E a, b : Parts(c, DataReg) =
                     <<Passthrough!Word(a), Passthrough!Byte(b), Passthrough!Word(DataReg)>>
  <2>1. CASE c.op = "GetProtocol"
    <3>1. Parts(c, DataReg) = Passthrough!EncodeBasic(c.op) \o Passthrough!EncodeRegister(DataReg)
      BY <2>1, PartsOf, Zenon
    <3> DEFINE w == Passthrough!Opcode[c.op] * 256
    <3>2. Passthrough!EncodeBasic(c.op) = <<Passthrough!Word(w)>>
      BY Zenon DEF Passthrough!EncodeBasic
    <3> HIDE DEF w
    <3>3. Parts(c, DataReg) = <<Passthrough!Word(w), Passthrough!Word(DataReg)>>
      BY <3>1, <3>2, RegisterWord, ShortJoins, Zenon
    <3> QED  BY <3>3, Zenon
  <2>2. CASE c.op \in {"GetReport", "GetIdle"}
    <3>1. Parts(c, DataReg) = base \o <<Passthrough!Word(DataReg)>>
      BY <2>2, PartsOf, RegisterWord, Zenon
    <3>2. \/ \E a : base = <<Passthrough!Word(a)>>
          \/ \E a, b : base = <<Passthrough!Word(a), Passthrough!Byte(b)>>
      BY Zenon DEF Passthrough!EncodeCommon
    <3> HIDE DEF base
    <3>3. ASSUME NEW a, base = <<Passthrough!Word(a)>>
          PROVE  Parts(c, DataReg) = <<Passthrough!Word(a), Passthrough!Word(DataReg)>>
      BY <3>1, <3>3, ShortJoins, Zenon
    <3>4. ASSUME NEW a, NEW b, base = <<Passthrough!Word(a), Passthrough!Byte(b)>>
          PROVE  Parts(c, DataReg) = <<Passthrough!Word(a), Passthrough!Byte(b), Passthrough!Word(DataReg)>>
      BY <3>1, <3>4, ShortJoins, Zenon
    <3> QED  BY <3>2, <3>3, <3>4, Zenon
  <2> QED  BY <1>0, <2>1, <2>2
<1>3. PICK a, b : Parts(c, DataReg) = <<Passthrough!Word(a), Passthrough!Word(DataReg)>>
                  \/ Parts(c, DataReg) = <<Passthrough!Word(a), Passthrough!Byte(b), Passthrough!Word(DataReg)>>
  BY <1>2, Zenon
<1> DEFINE s == Passthrough!EncodeForDevice(c)
           t == <<Passthrough!Word(CommandReg), Passthrough!Word(a), Passthrough!Word(DataReg)>>
           u == <<Passthrough!Word(CommandReg), Passthrough!Word(a), Passthrough!Byte(b), Passthrough!Word(DataReg)>>
<1>4. s = t \/ s = u
  <2>1. CASE Parts(c, DataReg) = <<Passthrough!Word(a), Passthrough!Word(DataReg)>>
    <3>1. s = <<Passthrough!Word(CommandReg)>> \o <<Passthrough!Word(a), Passthrough!Word(DataReg)>>
      BY <1>1, <2>1, Zenon
    <3> QED  BY <3>1, FrontJoins, Zenon
  <2>2. CASE Parts(c, DataReg) =
               <<Passthrough!Word(a), Passthrough!Byte(b), Passthrough!Word(DataReg)>>
    <3>1. s = <<Passthrough!Word(CommandReg)>>
                \o <<Passthrough!Word(a), Passthrough!Byte(b), Passthrough!Word(DataReg)>>
      BY <1>1, <2>2, Zenon
    <3> QED  BY <3>1, FrontJoins, Zenon
  <2> QED  BY <1>3, <2>1, <2>2
<1>5. Passthrough!WidthOf(t) = 6
  <2>1. Len(t) = 3 /\ t[1].width = 2 /\ t[2].width = 2 /\ t[3].width = 2
    BY <1>w
  <2> HIDE DEF t
  <2> QED  BY <2>1, WidthOfShort
<1>6. Passthrough!WidthOf(u) = 7
  <2>1. Len(u) = 4 /\ u[1].width = 2 /\ u[2].width = 2 /\ u[3].width = 1 /\ u[4].width = 2
    BY <1>w
  <2> HIDE DEF u
  <2> QED  BY <2>1, WidthOfShort
<1> HIDE DEF s, t, u
<1>7. Passthrough!WidthOf(s) <= 7
  BY <1>4, <1>5, <1>6
<1> QED  BY <1>7 DEF s, c

\* The invariant says what the passthrough promises.
LEMMA PassInvImplies == PassInv => Passthrough!PassthroughHonest
<1> SUFFICES ASSUME PassInv PROVE Passthrough!PassthroughHonest
  OBVIOUS
<1>0. ASSUME NEW d \in PassDevices, devPc[d] = "respond", working[d].kind = "Command"
      PROVE  /\ written[d] = Passthrough!EncodeForDevice(working[d].command)
             /\ \E m \in Messages : Passthrough!Decode(m) # Passthrough!Refused
                                    /\ working[d].command = Passthrough!Decode(m)
  <2>1. written[d] = Passthrough!EncodeForDevice(working[d].command)
    BY <1>0, Zenon DEF PassInv, CommandWritten
  <2>2. working[d] = asked
    BY <1>0 DEF PassInv, AskedOnly, Passthrough!NoRequest
  <2> QED  BY <1>0, <2>1, <2>2, Zenon DEF PassInv, CommandSent
<1>1. Passthrough!PassedUnchanged
  <2> SUFFICES ASSUME NEW d \in PassDevices, devPc[d] = "respond", working[d].kind = "Command",
                      working[d].command.op \in Passthrough!WholeCommands
               PROVE  /\ \E m \in Messages : written[d] = <<Passthrough!Word(CommandReg)>> \o m
                      /\ Passthrough!Decode(Tail(written[d])) = working[d].command
    BY Zenon DEF Passthrough!PassedUnchanged
  <2>1. PICK m \in Messages : Passthrough!Decode(m) # Passthrough!Refused
                              /\ working[d].command = Passthrough!Decode(m)
    BY <1>0, Zenon
  <2>2. /\ Passthrough!EncodeForDevice(Passthrough!Decode(m)) = <<Passthrough!Word(CommandReg)>> \o m
        /\ Tail(<<Passthrough!Word(CommandReg)>> \o m) = m
    BY <2>1, Resent, Zenon
  <2>3. written[d] = <<Passthrough!Word(CommandReg)>> \o m
    BY <1>0, <2>1, <2>2, Zenon
  <2> QED  BY <2>1, <2>2, <2>3, Zenon
<1>2. Passthrough!FitsScratch
  <2> SUFFICES ASSUME NEW d \in PassDevices, devPc[d] = "respond", working[d].kind = "Command",
                      Passthrough!HasResponse(working[d].command.op)
               PROVE  Passthrough!WidthOf(written[d]) <= 7
    BY Zenon DEF Passthrough!FitsScratch
  <2>1. PICK m \in Messages : Passthrough!Decode(m) # Passthrough!Refused
                              /\ working[d].command = Passthrough!Decode(m)
    BY <1>0, Zenon
  <2>2. Passthrough!WidthOf(Passthrough!EncodeForDevice(Passthrough!Decode(m))) <= 7
    BY <2>1, ScratchSuffices, Zenon
  <2> QED  BY <1>0, <2>1, <2>2, Zenon
<1> QED  BY <1>1, <1>2, Zenon DEF PassInv, Passthrough!PassthroughHonest

\* The suite's steps are steps of the passthrough, or leave it alone.
LEMMA SuitePassthrough == [SuiteNext]_allVars => [Passthrough!Next]_pVars
BY Zenon DEF SuiteNext, allVars

\* The host of the passthrough is told what it asked for, one request is under way
\* at a time, and a command reaches the device as the host sent it
\* (hid-service host.rs, device.rs and command.rs).
THEOREM PassthroughHonestHolds == SuiteSpec => []PassthroughHonest
<1>1. SuiteInit => PassInv
  BY PassInit DEF SuiteInit
<1>2. PassInv /\ [SuiteNext]_allVars => PassInv'
  BY PassStep, SuitePassthrough
<1>3. PassInv => PassthroughHonest
  BY PassInvImplies DEF PassthroughHonest
<1> QED  BY <1>1, <1>2, <1>3, PTL DEF SuiteSpec

-----------------------------------------------------------------------------
(* The partitions of a storage device.                                     *)

\* Where the bytes of a partition at o are on the device.
Moved(o, S) == {o + i : i \in S}

\* Bytes next to each other stay so on the device.
LEMMA Shifted ==
    ASSUME NEW o \in Nat, NEW x \in Nat, NEW y \in Nat
    PROVE  o + x .. o + y - 1 = Moved(o, x .. y - 1)
<1>1. ASSUME NEW k \in o + x .. o + y - 1 PROVE k \in Moved(o, x .. y - 1)
  <2>1. k - o \in x .. y - 1 /\ k = o + (k - o)
    OBVIOUS
  <2> QED  BY <2>1 DEF Moved
<1>2. ASSUME NEW i \in x .. y - 1 PROVE o + i \in o + x .. o + y - 1
  OBVIOUS
<1> QED  BY <1>1, <1>2 DEF Moved

\* ... and they are inside when they are in the partition's range.
LEMMA InPartition ==
    ASSUME NEW o \in Nat, NEW size \in Nat, NEW x \in Nat, NEW y \in Nat, y <= size
    PROVE  o + x .. o + y - 1 \subseteq o .. o + size - 1
OBVIOUS

\* A request to a partition at o, of the bytes from x up to y - 1, that ends right:
\* it reaches them on the device, and is not refused as outside the partition when
\* they are inside.
EndsRight(p, x, y, r) ==
    /\ r.error = None =>
          /\ r.from .. r.to - 1 = Moved(p.offset, x .. y - 1)
          /\ r.from .. r.to - 1 \subseteq Storage!BytesOf(p)
    /\ r.error = "OutOfBounds" =>
          \/ ~(x .. y - 1 \subseteq 0 .. p.size - 1)
          \/ ~(x < y) /\ x > 0
          \/ p.offset + p.size >= AddressSpace

\* A number is nothing else than itself when it fits the address space.
LEMMA Inside ==
    ASSUME NEW x \in Nat, NEW y \in Nat, NEW size \in Nat, x < y, x .. y - 1 \subseteq 0 .. size - 1
    PROVE  y <= size
<1>1. y - 1 \in x .. y - 1
  OBVIOUS
<1> QED  BY <1>1

\* A request that is let through ends right when it reaches the bytes it is about.
LEMMA LetThrough ==
    ASSUME NEW p, p.offset \in Nat, p.size \in Nat, NEW x \in Nat, NEW y \in Nat, y <= p.size,
           NEW r, r.error = None, r.from = p.offset + x, r.to = p.offset + y
    PROVE  EndsRight(p, x, y, r)
<1> DEFINE o == p.offset
           s == p.size
           first == r.from
           beyond == r.to
<1>0. o \in Nat /\ s \in Nat /\ y <= s /\ first = o + x /\ beyond = o + y
  OBVIOUS
<1>1. r.error # "OutOfBounds"
  BY StorageAssumption
<1> HIDE DEF o, s, first, beyond
<1>2. /\ o + x .. o + y - 1 = Moved(o, x .. y - 1)
      /\ o + x .. o + y - 1 \subseteq o .. o + s - 1
  <2>1. o + x .. o + y - 1 = Moved(o, x .. y - 1)
    BY <1>0, Shifted
  <2>2. o + x .. o + y - 1 \subseteq o .. o + s - 1
    BY <1>0, InPartition
  <2> QED  BY <2>1, <2>2
<1>3. first .. beyond - 1 = Moved(o, x .. y - 1) /\ first .. beyond - 1 \subseteq o .. o + s - 1
  BY <1>0, <1>2
<1> QED  BY ONLY <1>1, <1>3 DEF EndsRight, Storage!BytesOf, o, s, first, beyond

\* read and write.
LEMMA NorEndsRight ==
    ASSUME NEW p, p.offset \in Nat, p.size \in Nat, NEW a \in Nat, NEW b \in Nat
    PROVE  EndsRight(p, a, a + b, Storage!NorReach(p, a, b))
<1> DEFINE o == p.offset
           s == p.size
<1>0. o \in Nat /\ s \in Nat /\ AddressSpace \in Nat \ {0} /\ None # "OutOfBounds"
  BY StorageAssumption
<1>1. CASE Storage!WithinBounds(p, a, b) /\ Storage!Fits(a + o)
  <2>1. Storage!NorReach(p, a, b) = [error |-> None, from |-> a + o, to |-> a + o + b]
    BY <1>1 DEF Storage!NorReach, Storage!Reach
  <2>2. a + b <= s
    BY <1>1 DEF Storage!WithinBounds
  <2> HIDE DEF o, s
  <2>3. a + o = o + a /\ a + o + b = o + (a + b)
    BY <1>0
  <2> QED  BY <1>0, <2>1, <2>2, <2>3, LetThrough DEF o, s
<1>2. CASE ~(Storage!WithinBounds(p, a, b) /\ Storage!Fits(a + o))
  <2>1. Storage!NorReach(p, a, b).error = "OutOfBounds"
    BY <1>2 DEF Storage!NorReach, Storage!Refused
  <2>2. ~(b < AddressSpace /\ a + b < AddressSpace /\ a + b <= s /\ a + o < AddressSpace)
    BY <1>2 DEF Storage!WithinBounds, Storage!Fits
  <2> HIDE DEF o, s
  <2>3. CASE a < a + b /\ a .. (a + b) - 1 \subseteq 0 .. s - 1
    <3>1. a + b <= s
      BY <1>0, <2>3, Inside
    <3>2. o + s >= AddressSpace
      BY ONLY <1>0, <2>2, <3>1
    <3> QED  BY <1>0, <2>1, <3>2 DEF EndsRight, o, s
  <2>4. CASE ~(a < a + b)
    <3>1. b = 0
      BY <2>4
    <3>2. a > 0 \/ o + s >= AddressSpace
      BY ONLY <1>0, <2>2, <3>1
    <3> QED  BY <1>0, <2>1, <2>4, <3>2 DEF EndsRight, o, s
  <2>5. CASE ~(a .. (a + b) - 1 \subseteq 0 .. s - 1)
    BY <1>0, <2>1, <2>5 DEF EndsRight, s
  <2> QED  BY <2>3, <2>4, <2>5
<1> QED  BY <1>1, <1>2

\* erase.
LEMMA EraseEndsRight ==
    ASSUME NEW p, p.offset \in Nat, p.size \in Nat, NEW a \in Nat, NEW b \in Nat
    PROVE  EndsRight(p, a, b, Storage!EraseReach(p, a, b))
<1> DEFINE o == p.offset
           s == p.size
           ok == /\ a <= b /\ Storage!WithinBounds(p, a, b - a)
                 /\ Storage!Fits(a + o) /\ Storage!Fits(b + o)
<1>0. o \in Nat /\ s \in Nat /\ AddressSpace \in Nat \ {0} /\ None # "OutOfBounds"
  BY StorageAssumption
<1>1. CASE ok
  <2>1. Storage!EraseReach(p, a, b) = [error |-> None, from |-> a + o, to |-> b + o]
    BY <1>1 DEF Storage!EraseReach, Storage!Reach
  <2>2. a <= b /\ a + (b - a) <= s
    BY <1>1 DEF Storage!WithinBounds
  <2> HIDE DEF o, s, ok
  <2>3. b <= s
    BY <1>0, <2>2
  <2>4. a + o = o + a /\ b + o = o + b
    BY <1>0
  <2> QED  BY <1>0, <2>1, <2>3, <2>4, LetThrough DEF o, s
<1>2. CASE ~ok
  <2>1. Storage!EraseReach(p, a, b).error = "OutOfBounds"
    BY <1>2 DEF Storage!EraseReach, Storage!Refused
  <2>2. ~(a <= b /\ b - a < AddressSpace /\ a + (b - a) < AddressSpace /\ a + (b - a) <= s
          /\ a + o < AddressSpace /\ b + o < AddressSpace)
    BY <1>2 DEF Storage!WithinBounds, Storage!Fits
  <2> HIDE DEF o, s, ok
  <2>3. CASE a < b /\ a .. b - 1 \subseteq 0 .. s - 1
    <3>1. b <= s
      BY <1>0, <2>3, Inside
    <3>2. o + s >= AddressSpace
      BY <1>0, <2>2, <2>3, <3>1
    <3> QED  BY <1>0, <2>1, <3>2 DEF EndsRight, o, s
  <2>4. CASE ~(a < b)
    <3>1. a > 0 \/ o + s >= AddressSpace
      BY <1>0, <2>2, <2>4
    <3> QED  BY <1>0, <2>1, <2>4, <3>1 DEF EndsRight, o, s
  <2>5. CASE ~(a .. b - 1 \subseteq 0 .. s - 1)
    BY <1>0, <2>1, <2>5 DEF EndsRight, s
  <2> QED  BY <2>3, <2>4, <2>5
<1> QED  BY <1>1, <1>2

\* Products of numbers, and what a block's size divides.
LEMMA Blocks ==
    ASSUME NEW d \in Nat \ {0}, NEW a \in Nat, NEW b \in Nat, NEW o \in Nat
    PROVE  /\ a * d \in Nat /\ b * d \in Nat /\ (a + b) * d = a * d + b * d
           /\ a <= a * d /\ (b # 0 => b * d # 0) /\ (a > 0 => a * d > 0)
           /\ o \div d \in Nat /\ o \div d <= o
           /\ o % d = 0 => (o \div d + a) * d = o + a * d
<1>1. a * d \in Nat /\ b * d \in Nat /\ (a + b) * d = a * d + b * d
  OBVIOUS
<1>2. a <= a * d
  OBVIOUS
<1>3. b # 0 => b * d # 0
  OBVIOUS
<1>4. a > 0 => a * d > 0
  BY <1>2
<1>5. o \div d \in Nat
  OBVIOUS
<1>6. o \div d <= o
  OBVIOUS
<1>7. o % d = 0 => (o \div d + a) * d = o + a * d
  <2>1. o = d * (o \div d) + (o % d)
    OBVIOUS
  <2> QED  BY <1>5, <2>1
<1> QED  BY <1>1, <1>2, <1>3, <1>4, <1>5, <1>6, <1>7

\* Reads and writes of blocks.
LEMMA BlockEndsRight ==
    ASSUME NEW p, p.offset \in Nat, p.size \in Nat, NEW a \in Nat, NEW b \in Nat
    PROVE  EndsRight(p, a * BlockSize, (a + b) * BlockSize, Storage!BlockReach(p, a, b))
<1> DEFINE o == p.offset
           s == p.size
           x == a * BlockSize
           w == b * BlockSize
           y == (a + b) * BlockSize
           block == o \div BlockSize
           fits == Storage!Fits(x) /\ Storage!Fits(w) /\ Storage!WithinBounds(p, x, w)
<1>0. /\ o \in Nat /\ s \in Nat /\ AddressSpace \in Nat \ {0} /\ BlockSize \in Nat \ {0}
      /\ None \notin {"OutOfBounds", "NotAligned"}
  BY StorageAssumption
<1>1. /\ x \in Nat /\ w \in Nat /\ y \in Nat /\ y = x + w /\ block \in Nat /\ block <= o
      /\ a <= x /\ (b # 0 => w # 0) /\ (a > 0 => x > 0)
      /\ o % BlockSize = 0 => (block + a) * BlockSize = o + x
  <2> HIDE DEF o
  <2> QED  BY <1>0, Blocks
<1>2. fits <=> w < AddressSpace /\ x + w < AddressSpace /\ x + w <= s /\ x < AddressSpace
  BY DEF Storage!Fits, Storage!WithinBounds
<1>3. CASE ~fits
  <2>1. Storage!BlockReach(p, a, b).error = "OutOfBounds"
    BY <1>3 DEF Storage!BlockReach, Storage!Refused
  <2> HIDE DEF o, s, x, y, w, block, fits
  <2>2. CASE x < y /\ x .. y - 1 \subseteq 0 .. s - 1
    <3>1. y <= s
      BY <1>0, <1>1, <2>2, Inside
    <3>2. o + s >= AddressSpace
      BY ONLY <1>0, <1>1, <1>2, <1>3, <3>1
    <3> QED  BY <1>0, <2>1, <3>2 DEF EndsRight, o, s, x, y
  <2>3. CASE ~(x < y)
    <3>1. w = 0
      BY <1>1, <2>3
    <3>2. x > 0 \/ o + s >= AddressSpace
      BY ONLY <1>0, <1>1, <1>2, <1>3, <3>1
    <3> QED  BY <1>0, <2>1, <2>3, <3>2 DEF EndsRight, o, s, x, y
  <2>4. CASE ~(x .. y - 1 \subseteq 0 .. s - 1)
    BY <1>0, <2>1, <2>4 DEF EndsRight, s, x, y
  <2> QED  BY <2>2, <2>3, <2>4
<1>4. CASE fits /\ o % BlockSize # 0
  <2>1. Storage!BlockReach(p, a, b).error = "NotAligned"
    BY <1>4 DEF Storage!BlockReach, Storage!Refused
  <2> QED  BY <1>0, <2>1 DEF EndsRight
<1>5. CASE fits /\ o % BlockSize = 0 /\ ~Storage!Fits(block + a)
  <2>1. Storage!BlockReach(p, a, b).error = "OutOfBounds"
    BY <1>5 DEF Storage!BlockReach, Storage!Refused
  <2>2. ~(block + a < AddressSpace)
    BY <1>5 DEF Storage!Fits
  <2> HIDE DEF o, s, x, y, w, block, fits
  <2>3. o + s >= AddressSpace
    <3>1. x <= s
      BY <1>0, <1>1, <1>2, <1>5
    <3> QED  BY ONLY <1>0, <1>1, <2>2, <3>1, a \in Nat
  <2> QED  BY <1>0, <2>1, <2>3 DEF EndsRight, o, s
<1>6. CASE fits /\ o % BlockSize = 0 /\ Storage!Fits(block + a)
  <2>1. Storage!BlockReach(p, a, b)
           = [error |-> None, from |-> (block + a) * BlockSize,
              to |-> (block + a + b) * BlockSize]
    BY <1>6 DEF Storage!BlockReach, Storage!Reach
  <2> HIDE DEF o, s, x, y, w, block, fits
  <2>2. (block + a) * BlockSize = o + x /\ (block + a + b) * BlockSize = o + y
    <3>1. block + a \in Nat
      BY <1>1
    <3>2. ((block + a) + b) * BlockSize = (block + a) * BlockSize + w
      BY <1>0, <3>1, Blocks DEF w
    <3> QED  BY <1>0, <1>1, <1>6, <3>1, <3>2
  <2>3. y <= s
    BY <1>0, <1>1, <1>2, <1>6
  <2> DEFINE r == Storage!BlockReach(p, a, b)
  <2>4. r.error = None /\ r.from = o + x /\ r.to = o + y
    BY <2>1, <2>2
  <2> HIDE DEF r
  <2>5. EndsRight(p, x, y, r)
    BY <1>0, <1>1, <2>3, <2>4, LetThrough DEF o, s
  <2> QED  BY <2>5 DEF r, x, y
<1> QED  BY <1>3, <1>4, <1>5, <1>6


\* There are partitions once a consistent manifest is built: its own, where it
\* says.
BuiltRight ==
    /\ \E c \in Manifests : manifest = c.manifest
    /\ built # "yes" => DOMAIN partitions = {}
    /\ built = "yes" =>
          /\ Storage!CheckConsistency
          /\ \A n \in DOMAIN partitions :
                /\ n \in Storage!Names
                /\ partitions[n].offset = manifest.partitions[n].offset
                /\ partitions[n].size = manifest.partitions[n].size

\* A request is made by the holder of the lock, and ends as its partition decides.
RequestRight ==
    /\ guard # None => guard \in DOMAIN partitions
    /\ sAccess # None =>
          /\ guard # None
          /\ sAccess.kind \in Storage!Kinds(partitions[guard])
          /\ sAccess.a \in Nat /\ sAccess.b \in Nat
          /\ sAccess.outcome =
                Storage!Outcome(partitions[guard], sAccess.kind, sAccess.a, sAccess.b)

StorageInv == BuiltRight /\ RequestRight

\* What is known of the partition whose lock is held.
LEMMA Held ==
    ASSUME StorageInv, guard # None
    PROVE  /\ built = "yes" /\ guard \in DOMAIN partitions /\ guard \in Storage!Names
           /\ partitions[guard].offset = manifest.partitions[guard].offset
           /\ partitions[guard].size = manifest.partitions[guard].size
           /\ partitions[guard].offset \in Nat /\ partitions[guard].size \in Nat
           /\ Storage!CheckConsistency
<1>1. guard \in DOMAIN partitions /\ built = "yes"
  BY DEF StorageInv, BuiltRight, RequestRight
<1>2. /\ Storage!CheckConsistency /\ guard \in Storage!Names
      /\ partitions[guard].offset = manifest.partitions[guard].offset
      /\ partitions[guard].size = manifest.partitions[guard].size
  BY <1>1 DEF StorageInv, BuiltRight
<1>3. manifest.partitions[guard].offset \in Nat /\ manifest.partitions[guard].size \in Nat
  BY <1>2, StorageAssumption DEF StorageInv, BuiltRight, Storage!Names
<1> QED  BY <1>1, <1>2, <1>3

\* Every request is about bytes next to each other, and ends right for them, or is
\* refused as a write of what may only be read.
LEMMA RequestEndsRight ==
    ASSUME StorageInv, sAccess # None
    PROVE  \E x, y \in Nat :
              /\ Storage!Asked = x .. y - 1
              /\ x > 0 => sAccess.a > 0
              /\ \/ EndsRight(partitions[guard], x, y, sAccess.outcome)
                 \/ sAccess.outcome.error = "ReadOnly"
<1> DEFINE p == partitions[guard]
           a == sAccess.a
           b == sAccess.b
           r == sAccess.outcome
           kind == sAccess.kind
           d == BlockSize
<1>1. /\ guard # None /\ kind \in Storage!Kinds(p) /\ a \in Nat /\ b \in Nat
      /\ r = Storage!Outcome(p, kind, a, b)
  BY DEF StorageInv, RequestRight
<1>2. p.offset \in Nat /\ p.size \in Nat
  BY <1>1, Held
<1>3. kind \in {"read", "write", "erase", "blockRead", "blockWrite"}
  BY <1>1 DEF Storage!Kinds
<1> HIDE DEF p
<1>4. CASE kind \in {"read", "write"}
  <2>1. Storage!Asked = a .. (a + b) - 1
    <3>1. Storage!Asked = Moved(a, 0 .. b - 1)
      BY <1>4, Zenon DEF Storage!Asked, Moved
    <3> HIDE DEF a, b
    <3>2. a + 0 .. a + b - 1 = Moved(a, 0 .. b - 1)
      BY <1>1, Shifted
    <3> QED  BY <1>1, <3>1, <3>2
  <2>2. r = Storage!NorReach(p, a, b)
    BY <1>1, <1>4 DEF Storage!Outcome
  <2> HIDE DEF a, b, r
  <2>3. EndsRight(p, a, a + b, r)
    BY <1>1, <1>2, <2>2, NorEndsRight
  <2>4. a \in Nat /\ a + b \in Nat
    BY <1>1
  <2> QED  BY <2>1, <2>3, <2>4 DEF a, r, p
<1>5. CASE kind = "erase"
  <2>1. Storage!Asked = a .. b - 1
    BY <1>5 DEF Storage!Asked
  <2>2. r = Storage!EraseReach(p, a, b)
    BY <1>1, <1>5 DEF Storage!Outcome
  <2> HIDE DEF a, b, r
  <2>3. EndsRight(p, a, b, r)
    BY <1>1, <1>2, <2>2, EraseEndsRight
  <2> QED  BY <1>1, <2>1, <2>3 DEF a, b, r, p
<1>6. CASE kind \in {"blockRead", "blockWrite"}
  <2>1. Storage!Asked = a * d .. (a + b) * d - 1
    BY <1>6 DEF Storage!Asked
  <2>2. r = Storage!BlockReach(p, a, b) \/ r.error = "ReadOnly"
    BY <1>1, <1>6 DEF Storage!Outcome, Storage!Refused
  <2> HIDE DEF a, b, r
  <2>3. a * d \in Nat /\ (a + b) * d \in Nat
    <3>1. a + b \in Nat /\ d \in Nat \ {0}
      BY <1>1, StorageAssumption
    <3> HIDE DEF d
    <3> QED  BY <1>1, <3>1, Blocks
  <2>4. a * d > 0 => a > 0
    <3>1. a = 0 => a * d = 0
      BY <1>1, StorageAssumption
    <3> QED  BY ONLY <1>1, <2>3, <3>1
  <2>5. r = Storage!BlockReach(p, a, b) => EndsRight(p, a * d, (a + b) * d, r)
    BY <1>1, <1>2, BlockEndsRight
  <2> HIDE DEF d
  <2> QED  BY <2>1, <2>2, <2>3, <2>4, <2>5 DEF a, r, p
<1> QED  BY <1>3, <1>4, <1>5, <1>6

\* Partitions that fit the address space end where they say.
LEMMA EndsWhere ==
    ASSUME NEW q, q.offset \in Nat, q.size \in Nat, q.offset + q.size < AddressSpace
    PROVE  Storage!End(q) = q.offset + q.size
<1> DEFINE x == q.offset + q.size
           m == AddressSpace
<1>1. x \in Nat /\ m \in Nat \ {0} /\ x < m
  BY StorageAssumption
<1> HIDE DEF x, m
<1>2. x % m = x
  BY ONLY <1>1
<1> QED  BY <1>2 DEF Storage!End, x, m

\* A manifest that is consistent, and of which no sum wrapped round, keeps the
\* partitions apart and on the disk.
LEMMA ConsistentApart ==
    ASSUME StorageInv, Storage!CheckConsistency, ~(wraps /\ Storage!Overflows),
           NEW g \in Storage!Names
    PROVE  /\ \A n \in Storage!Names \ {g} :
                 Storage!BytesOf(manifest.partitions[g])
                     \cap Storage!BytesOf(manifest.partitions[n]) = {}
           /\ manifest.size # None =>
                 Storage!BytesOf(manifest.partitions[g]) \subseteq 0 .. manifest.size - 1
<1> DEFINE P(n) == manifest.partitions[n]
<1>1. /\ IsFiniteSet(Storage!Names)
      /\ manifest.size = None \/ manifest.size \in Nat
      /\ \A n \in Storage!Names : P(n).offset \in Nat /\ P(n).size \in Nat
  <2>1. PICK c \in Manifests : manifest = c.manifest
    BY DEF StorageInv, BuiltRight
  <2>2. Storage!IsFiniteSet(DOMAIN c.manifest.partitions)
    BY StorageAssumption
  <2>3. IsFiniteSet(Storage!Names)
    BY <2>1, <2>2, Zenon DEF Storage!Names, Storage!IsFiniteSet, IsFiniteSet
  <2> QED  BY <2>1, <2>3, StorageAssumption DEF Storage!Names
<1>2. ~Storage!Overflows /\ Storage!SizeOk /\ Storage!OverlapOk
  BY DEF Storage!CheckConsistency
<1>3. manifest.size # None \/ Storage!Cardinality(Storage!Names) > 1 =>
         \A n \in Storage!Names : Storage!End(P(n)) = P(n).offset + P(n).size
  <2> SUFFICES ASSUME manifest.size # None \/ Storage!Cardinality(Storage!Names) > 1,
                      NEW n \in Storage!Names
               PROVE  Storage!End(P(n)) = P(n).offset + P(n).size
    OBVIOUS
  <2>1. ~(P(n).offset + P(n).size >= AddressSpace)
    BY <1>2 DEF Storage!Overflows
  <2> DEFINE q == P(n)
  <2>2. q.offset \in Nat /\ q.size \in Nat /\ ~(q.offset + q.size >= AddressSpace)
    BY <1>1, <2>1
  <2> HIDE DEF q
  <2>3. q.offset + q.size < AddressSpace
    BY <2>2, StorageAssumption
  <2>4. Storage!End(q) = q.offset + q.size
    BY <2>2, <2>3, EndsWhere
  <2> QED  BY <2>4 DEF q
<1>4. ASSUME NEW n \in Storage!Names \ {g}
      PROVE  Storage!BytesOf(P(g)) \cap Storage!BytesOf(P(n)) = {}
  <2>1. Storage!Cardinality(Storage!Names) > 1
    <3>1. Cardinality({g, n}) = 2
      <4>1. Cardinality({g}) = 1 /\ IsFiniteSet({g})
        BY FS_Singleton
      <4>2. Cardinality({g} \cup {n}) = Cardinality({g}) + 1
        BY <4>1, FS_AddElement
      <4>3. {g} \cup {n} = {g, n}
        OBVIOUS
      <4> QED  BY <4>1, <4>2, <4>3
    <3>2. /\ Cardinality({g, n}) <= Cardinality(Storage!Names)
          /\ Cardinality(Storage!Names) \in Nat
      BY <1>1, FS_Subset, FS_CardinalityType
    <3>3. Storage!Cardinality(Storage!Names) = Cardinality(Storage!Names)
      BY Zenon DEF Storage!Cardinality, Cardinality
    <3> QED  BY <3>1, <3>2, <3>3
  <2>2. /\ Storage!End(P(g)) = P(g).offset + P(g).size
        /\ Storage!End(P(n)) = P(n).offset + P(n).size
    BY <1>3, <2>1
  <2>3. ~Storage!Overlaps(P(g), P(n))
    BY <1>2 DEF Storage!OverlapOk
  <2>4. ~(P(g).offset < P(n).offset + P(n).size /\ P(n).offset < P(g).offset + P(g).size)
    BY <2>2, <2>3 DEF Storage!Overlaps
  <2>5. /\ P(g).offset \in Nat /\ P(g).size \in Nat
        /\ P(n).offset \in Nat /\ P(n).size \in Nat
    BY <1>1
  <2> HIDE DEF P
  <2> QED  BY <2>4, <2>5 DEF Storage!BytesOf
<1>5. ASSUME manifest.size # None
      PROVE  Storage!BytesOf(P(g)) \subseteq 0 .. manifest.size - 1
  <2>1. Storage!End(P(g)) = P(g).offset + P(g).size /\ Storage!End(P(g)) <= manifest.size
    BY <1>2, <1>3, <1>5 DEF Storage!SizeOk
  <2>2. P(g).offset \in Nat /\ P(g).size \in Nat /\ manifest.size \in Nat
    BY <1>1, <1>5
  <2> HIDE DEF P
  <2> QED  BY <2>1, <2>2 DEF Storage!BytesOf
<1> QED  BY <1>4, <1>5

\* What may only be read is not written.
LEMMA OnlyRead ==
    ASSUME StorageInv, sAccess # None, partitions[guard].access = "RO",
           sAccess.outcome.error = None
    PROVE  sAccess.kind \in {"read", "blockRead"}
<1>1. /\ sAccess.kind \in Storage!Kinds(partitions[guard])
      /\ sAccess.outcome =
            Storage!Outcome(partitions[guard], sAccess.kind, sAccess.a, sAccess.b)
  BY DEF StorageInv, RequestRight
<1>2. sAccess.kind \in {"read", "blockRead", "blockWrite"}
  BY <1>1 DEF Storage!Kinds
<1>3. CASE sAccess.kind = "blockWrite"
  <2>1. sAccess.outcome.error = "ReadOnly"
    BY <1>1, <1>3 DEF Storage!Outcome, Storage!Refused
  <2> QED  BY <2>1, StorageAssumption
<1> QED  BY <1>2, <1>3

\* StorageInv is what makes a request right.
LEMMA StorageInvImplies == StorageInv => Storage!PartitionsApart
<1> SUFFICES ASSUME StorageInv, sAccess # None PROVE Storage!PartitionsApart
  BY DEF Storage!PartitionsApart
<1> DEFINE p == partitions[guard]
           reach == sAccess.outcome.from .. sAccess.outcome.to - 1
           error == sAccess.outcome.error
<1>1. guard # None
  BY DEF StorageInv, RequestRight
<1>2. /\ guard \in Storage!Names /\ Storage!CheckConsistency
      /\ p.offset = manifest.partitions[guard].offset
      /\ p.size = manifest.partitions[guard].size
      /\ p.offset \in Nat /\ p.size \in Nat
  BY <1>1, Held
<1>3. PICK x \in Nat, y \in Nat :
           /\ Storage!Asked = x .. y - 1
           /\ x > 0 => sAccess.a > 0
           /\ EndsRight(p, x, y, sAccess.outcome) \/ error = "ReadOnly"
  BY RequestEndsRight
<1>4. None # "OutOfBounds" /\ None # "ReadOnly"
  BY StorageAssumption
<1>5. ASSUME error = None
      PROVE  /\ reach = Moved(p.offset, Storage!Asked)
             /\ reach \subseteq Storage!BytesOf(p)
             /\ p.access = "RO" => sAccess.kind \in {"read", "blockRead"}
             /\ (wraps /\ Storage!Overflows) \/
                  /\ \A n \in Storage!Names \ {guard} :
                        reach \cap Storage!BytesOf(manifest.partitions[n]) = {}
                  /\ manifest.size # None => reach \subseteq 0 .. manifest.size - 1
  <2>1. EndsRight(p, x, y, sAccess.outcome)
    BY <1>3, <1>4, <1>5
  <2>2. reach = Moved(p.offset, Storage!Asked) /\ reach \subseteq Storage!BytesOf(p)
    BY <1>3, <1>5, <2>1, Zenon DEF EndsRight
  <2>3. p.access = "RO" => sAccess.kind \in {"read", "blockRead"}
    BY <1>5, OnlyRead
  <2>4. Storage!BytesOf(p) = Storage!BytesOf(manifest.partitions[guard])
    BY <1>2 DEF Storage!BytesOf
  <2> HIDE DEF reach
  <2>5. ASSUME ~(wraps /\ Storage!Overflows)
        PROVE  /\ \A n \in Storage!Names \ {guard} :
                     reach \cap Storage!BytesOf(manifest.partitions[n]) = {}
               /\ manifest.size # None => reach \subseteq 0 .. manifest.size - 1
    <3>1. /\ \A n \in Storage!Names \ {guard} :
                Storage!BytesOf(manifest.partitions[guard])
                    \cap Storage!BytesOf(manifest.partitions[n]) = {}
          /\ manifest.size # None =>
                Storage!BytesOf(manifest.partitions[guard]) \subseteq 0 .. manifest.size - 1
      BY <1>2, <2>5, ConsistentApart
    <3>2. reach \subseteq Storage!BytesOf(manifest.partitions[guard])
      BY <2>2, <2>4
    <3> QED  BY ONLY <3>1, <3>2
  <2> QED  BY <2>2, <2>3, <2>5
<1>6. ASSUME error = "OutOfBounds"
      PROVE  \/ ~(Storage!Asked \subseteq 0 .. p.size - 1)
             \/ Storage!Asked = {} /\ sAccess.a > 0
             \/ p.offset + p.size >= AddressSpace
  <2>1. EndsRight(p, x, y, sAccess.outcome)
    BY <1>3, <1>6
  <2>2. \/ ~(x .. y - 1 \subseteq 0 .. p.size - 1)
        \/ ~(x < y) /\ x > 0
        \/ p.offset + p.size >= AddressSpace
    BY <1>6, <2>1 DEF EndsRight
  <2>3. ~(x < y) => x .. y - 1 = {}
    OBVIOUS
  <2> QED  BY <1>3, <2>2, <2>3
<1>7. error = None \/ error = "OutOfBounds" \/ (error # None /\ error # "OutOfBounds")
  OBVIOUS
<1>8. CASE error = None
  <2>1. reach = {p.offset + i : i \in Storage!Asked}
    BY <1>5, <1>8, Zenon DEF Moved
  <2> QED  BY <1>4, <1>5, <1>8, <2>1, Zenon DEF Storage!PartitionsApart
<1>9. CASE error = "OutOfBounds"
  BY <1>4, <1>6, <1>9 DEF Storage!PartitionsApart
<1>10. CASE error # None /\ error # "OutOfBounds"
  BY <1>10, Zenon DEF Storage!PartitionsApart
<1> QED  BY <1>7, <1>8, <1>9, <1>10

\* Before the generator runs there is no partition and no request.
LEMMA StorageStart == Storage!Init => StorageInv
<1> SUFFICES ASSUME Storage!Init PROVE StorageInv
  OBVIOUS
<1>1. /\ \E c \in Manifests : manifest = c.manifest
      /\ built = "no" /\ partitions = <<>> /\ guard = None /\ sAccess = None
  BY DEF Storage!Init
<1>2. DOMAIN partitions = {}
  BY <1>1
<1> QED  BY <1>1, <1>2 DEF StorageInv, BuiltRight, RequestRight

\* StorageInv is kept by whatever the generator and the holders of the lock do.
LEMMA StorageStep == StorageInv /\ [Storage!Next]_(Storage!storageVars) => StorageInv'
<1> SUFFICES ASSUME StorageInv, [Storage!Next]_(Storage!storageVars) PROVE StorageInv'
  OBVIOUS
<1>1. CASE Storage!Generate
  <2>1. DOMAIN partitions = {} /\ guard = None /\ sAccess = None
    BY <1>1 DEF Storage!Generate, StorageInv, BuiltRight, RequestRight
  <2>2. /\ UNCHANGED <<manifest, variant, wraps, guard, sAccess>>
        /\ \/ built' = "refused" /\ partitions' = partitions
           \/ built' = "yes" /\ Storage!CheckConsistency
    BY <1>1 DEF Storage!Generate
  <2>3. BuiltRight'
    <3>1. \E c \in Manifests : manifest' = c.manifest
      BY <2>2 DEF StorageInv, BuiltRight
    <3>2. CASE built' = "refused" /\ partitions' = partitions
      BY <2>1, <3>1, <3>2 DEF BuiltRight
    <3>3. CASE built' = "yes" /\ Storage!CheckConsistency
      <4>1. Storage!CheckConsistency'
        BY <2>2, <3>3 DEF Storage!CheckConsistency, Storage!Overflows, Storage!SizeOk,
           Storage!OverlapOk, Storage!AlignmentOk, Storage!Names, Storage!Overlaps, Storage!End
      <4> DEFINE S == {n \in Storage!Names :
                          Storage!AccessFor(manifest.partitions[n].access) # None}
      <4>2. partitions' =
               [n \in S |-> [access |-> Storage!AccessFor(manifest.partitions[n].access),
                             offset |-> manifest.partitions[n].offset,
                             size |-> manifest.partitions[n].size]]
        BY <1>1, <3>3 DEF Storage!Generate
      <4>3. \A n \in DOMAIN partitions' :
                /\ n \in Storage!Names
                /\ partitions'[n].offset = manifest.partitions[n].offset
                /\ partitions'[n].size = manifest.partitions[n].size
        BY <4>2
      <4>4. \A n \in DOMAIN partitions' :
                /\ n \in Storage!Names'
                /\ partitions'[n].offset = manifest'.partitions[n].offset
                /\ partitions'[n].size = manifest'.partitions[n].size
        BY <2>2, <4>3 DEF Storage!Names
      <4> QED  BY <3>1, <3>3, <4>1, <4>4 DEF BuiltRight
    <3> QED  BY <2>2, <3>2, <3>3
  <2> QED  BY <2>1, <2>2, <2>3 DEF StorageInv, RequestRight
<1>2. CASE UNCHANGED <<manifest, variant, wraps, built, partitions>>
  <2>1. BuiltRight'
    BY <1>2 DEF StorageInv, BuiltRight, Storage!CheckConsistency, Storage!Overflows,
       Storage!SizeOk, Storage!OverlapOk, Storage!AlignmentOk, Storage!Names, Storage!Overlaps,
       Storage!End
  <2>2. ASSUME NEW n \in DOMAIN partitions, Storage!Lock(n) PROVE RequestRight'
    BY <1>2, <2>2 DEF StorageInv, RequestRight, Storage!Lock
  <2>3. ASSUME NEW kind, NEW a \in Arguments, NEW b \in Arguments, Storage!Request(kind, a, b)
        PROVE  RequestRight'
    <3>1. /\ guard # None /\ guard' = guard /\ guard \in DOMAIN partitions
          /\ a \in Nat /\ b \in Nat /\ kind \in Storage!Kinds(partitions[guard])
          /\ sAccess' = [kind |-> kind, a |-> a, b |-> b,
                         outcome |-> Storage!Outcome(partitions[guard], kind, a, b)]
      BY <2>3, StorageAssumption DEF StorageInv, RequestRight, Storage!Request
    <3>2. /\ Storage!Outcome(partitions[guard], kind, a, b)' =
                Storage!Outcome(partitions[guard], kind, a, b)
          /\ Storage!Kinds(partitions[guard])' = Storage!Kinds(partitions[guard])
      BY <1>2, <3>1, Zenon DEF Storage!Outcome, Storage!Kinds
    <3>3. /\ sAccess'.kind = kind /\ sAccess'.a = a /\ sAccess'.b = b
          /\ sAccess'.outcome = Storage!Outcome(partitions[guard], kind, a, b)
      BY <3>1
    <3> QED  BY <1>2, <3>1, <3>2, <3>3 DEF RequestRight
  <2>4. ASSUME sAccess' = None, guard' = guard \/ guard' = None PROVE RequestRight'
    BY <1>2, <2>4 DEF StorageInv, RequestRight
  <2>5. ASSUME UNCHANGED <<guard, sAccess>> PROVE RequestRight'
    <3>1. CASE sAccess = None
      BY <2>4, <2>5, <3>1
    <3>2. CASE sAccess # None
      <4>1. /\ Storage!Outcome(partitions[guard], sAccess.kind, sAccess.a, sAccess.b)' =
                  Storage!Outcome(partitions[guard], sAccess.kind, sAccess.a, sAccess.b)
            /\ Storage!Kinds(partitions[guard])' = Storage!Kinds(partitions[guard])
        BY <1>2, <2>5, Zenon DEF Storage!Outcome, Storage!Kinds
      <4> QED  BY <1>2, <2>5, <3>2, <4>1, Zenon DEF StorageInv, RequestRight
    <3> QED  BY <3>1, <3>2
  <2>6. ASSUME Storage!Return PROVE RequestRight'
    BY <2>4, <2>6 DEF Storage!Return
  <2>7. ASSUME Storage!DropGuard PROVE RequestRight'
    BY <2>4, <2>7 DEF Storage!DropGuard
  <2>8. \/ \E n \in DOMAIN partitions : Storage!Lock(n)
        \/ \E kind \in {"read", "write", "erase", "blockRead", "blockWrite"},
              a, b \in Arguments : Storage!Request(kind, a, b)
        \/ Storage!Return \/ Storage!DropGuard \/ UNCHANGED <<guard, sAccess>>
    BY DEF Storage!Next, Storage!storageVars, Storage!Generate
  <2>9. RequestRight'
    BY <2>2, <2>3, <2>5, <2>6, <2>7, <2>8
  <2> QED  BY <2>1, <2>9 DEF StorageInv
<1> QED  BY <1>1, <1>2 DEF Storage!Next, Storage!storageVars, Storage!Lock, Storage!Request,
            Storage!Return, Storage!DropGuard

-----------------------------------------------------------------------------
(* Borrows and partitions, as the suite states them.                       *)

\* The suite's steps are steps of the partitions, or leave them alone.
LEMMA SuiteStorage ==
    [SuiteNext]_allVars => [Storage!Next]_(Storage!storageVars) /\ UNCHANGED unit
BY Zenon DEF SuiteNext, allVars, sVars, Storage!storageVars

LEMMA SuiteBuffer == [SuiteNext]_allVars => [Buffer!Next]_(Buffer!vars)
BY Zenon DEF SuiteNext, allVars, bufferVars, Buffer!vars

\* Borrows of a shared buffer keep Rust's rules and slices lie inside what they are
\* taken from; a request to a partition reaches exactly the bytes asked for, inside
\* it and in no other, and is not refused as outside it when it is inside
\* (Buffer::borrow, SharedRef::slice, Partition, Manifest::check_consistency).
THEOREM BorrowsExactHolds ==
    ASSUME BufferLen \in Nat, IsFiniteSet(Users)
    PROVE  SuiteSpec => BorrowsExact
<1> DEFINE SInv == unit = "storage" => StorageInv
<1>1. SuiteInit => BorrowInv /\ SInv
  BY BorrowInit, StorageStart DEF SuiteInit
<1>2. BorrowInv /\ [SuiteNext]_allVars => BorrowInv'
  BY BorrowStep, SuiteBuffer
<1>3. SInv /\ [SuiteNext]_allVars => SInv'
  BY StorageStep, SuiteStorage
<1>4. BorrowInv /\ SInv => Buffer!BorrowsHonest /\ (unit = "storage" => Storage!PartitionsApart)
  BY StorageInvImplies DEF BorrowInv
<1>5. BorrowInv /\ [SuiteNext]_allVars =>
        [ref' # ref =>
           \A u \in Users, r \in Buffer!CallerRange :
               Buffer!Slice(u, r) => ref'[u].start >= ref[u].start /\ ref'[u].end <= ref[u].end]_(Buffer!vars)
  BY SliceStep, SuiteBuffer
<1> HIDE DEF SInv
<1> QED  BY <1>1, <1>2, <1>3, <1>4, <1>5, PTL DEF SuiteSpec, BorrowsExact, Buffer!SliceInside
=============================================================================
