-------------------------- MODULE PartitionManager --------------------------
(***************************************************************************)
(* partition-manager: the generator checks a manifest and emits a map of   *)
(* partitions, which share one storage device behind a mutex; reads,       *)
(* writes and erases through a partition are checked and shifted to the    *)
(* device's addresses.                                                     *)
(***************************************************************************)
EXTENDS Naturals, FiniteSets

CONSTANTS
    None,
    AddressSpace,     \* addresses of a u32
    BlockSize,        \* SIZE of a BlockDevice
    Manifests,        \* what is built: [manifest, variant]
    Arguments         \* bound: the numbers in a request

VARIABLES
    manifest,         \* Manifest: variants, size, alignment and partitions
    variant,          \* the variant the map is generated for, or None
    wraps,            \* whether the generator was built without overflow checks
    built,            \* "no", "yes" or "refused": a compile error
    partitions,       \* the map: the partitions generated
    guard,            \* the partition that holds the storage's lock, or None
    access            \* the request of the guard's holder with its outcome, or None

storageVars == <<manifest, variant, wraps, built, partitions, guard, access>>

Init ==
    /\ \E c \in Manifests : manifest = c.manifest /\ variant = c.variant
    /\ wraps \in BOOLEAN
    /\ built = "no" /\ partitions = <<>>
    /\ guard = None /\ access = None

-----------------------------------------------------------------------------
\* Manifest::check_consistency, at compile time

\* offset + size: the conversion of a partition to a range, and validate_size.
End(p) == (p.offset + p.size) % AddressSpace

Overlaps(p, q) == p.offset < End(q) /\ q.offset < End(p)

Names == DOMAIN manifest.partitions

\* A sum that is evaluated and does not fit: the generator panics, or goes on with
\* the sum wrapped round.
Overflows ==
    /\ manifest.size # None \/ Cardinality(Names) > 1
    /\ \E n \in Names :
          manifest.partitions[n].offset + manifest.partitions[n].size >= AddressSpace

SizeOk ==
    manifest.size # None => \A n \in Names : End(manifest.partitions[n]) <= manifest.size

OverlapOk ==
    \A n, o \in Names : n # o => ~Overlaps(manifest.partitions[n], manifest.partitions[o])

AlignmentOk ==
    manifest.alignment # None =>
        \A n \in Names : /\ manifest.partitions[n].offset % manifest.alignment = 0
                         /\ manifest.partitions[n].size % manifest.alignment = 0

CheckConsistency == (wraps \/ ~Overflows) /\ SizeOk /\ OverlapOk /\ AlignmentOk

\* The access of a partition for the variant: its own, that of any, RW where none
\* is given, and otherwise the partition is left out.
AccessFor(a) ==
    CASE variant # None /\ variant \in DOMAIN a -> a[variant]
      [] "any" \in DOMAIN a -> a["any"]
      [] DOMAIN a = {} -> "RW"
      [] OTHER -> None

\* Manifest::generate and PartitionConfig::map.
Generate ==
    /\ built = "no"
    /\ IF CheckConsistency /\ (variant = None \/ variant \in manifest.variants)
       THEN /\ built' = "yes"
            /\ partitions' =
                 [n \in {n \in Names : AccessFor(manifest.partitions[n].access) # None} |->
                    [access |-> AccessFor(manifest.partitions[n].access),
                     offset |-> manifest.partitions[n].offset,
                     size |-> manifest.partitions[n].size]]
       ELSE built' = "refused" /\ UNCHANGED partitions
    /\ UNCHANGED <<manifest, variant, wraps, guard, access>>

-----------------------------------------------------------------------------
\* Requests, at run time

Refused(why) == [error |-> why, from |-> 0, to |-> 0]
Reach(from, to) == [error |-> None, from |-> from, to |-> to]

\* checked_add and checked_mul have a value.
Fits(x) == x < AddressSpace

WithinBounds(p, offset, size) == Fits(size) /\ Fits(offset + size) /\ offset + size <= p.size

\* ReadNorFlash::read and NorFlash::write, with the length of the slice.
NorReach(p, offset, len) ==
    IF WithinBounds(p, offset, len) /\ Fits(offset + p.offset)
    THEN Reach(offset + p.offset, offset + p.offset + len)
    ELSE Refused("OutOfBounds")

EraseReach(p, from, to) ==
    IF from <= to /\ WithinBounds(p, from, to - from)
       /\ Fits(from + p.offset) /\ Fits(to + p.offset)
    THEN Reach(from + p.offset, to + p.offset)
    ELSE Refused("OutOfBounds")

\* check_access and start_block, with the number of blocks of the slice.
BlockReach(p, block, count) ==
    IF ~(/\ Fits(block * BlockSize) /\ Fits(count * BlockSize)
         /\ WithinBounds(p, block * BlockSize, count * BlockSize))
    THEN Refused("OutOfBounds")
    ELSE IF p.offset % BlockSize # 0 THEN Refused("NotAligned")
    ELSE IF ~Fits(p.offset \div BlockSize + block) THEN Refused("OutOfBounds")
    ELSE LET first == p.offset \div BlockSize + block
         IN  Reach(first * BlockSize, (first + count) * BlockSize)

\* NorFlash is not implemented for a partition that may only be read.
Kinds(p) ==
    {"read", "blockRead", "blockWrite"} \cup (IF p.access = "RW" THEN {"write", "erase"} ELSE {})

Outcome(p, kind, a, b) ==
    CASE kind \in {"read", "write"} -> NorReach(p, a, b)
      [] kind = "erase" -> EraseReach(p, a, b)
      [] kind = "blockRead" -> BlockReach(p, a, b)
      [] kind = "blockWrite" ->
            IF p.access = "RO" THEN Refused("ReadOnly") ELSE BlockReach(p, a, b)

\* Partition::lock; try_lock fails while another guard is there.
Lock(n) ==
    /\ guard = None
    /\ guard' = n
    /\ UNCHANGED <<manifest, variant, wraps, built, partitions, access>>

Request(kind, a, b) ==
    /\ guard # None
    /\ access = None
    /\ kind \in Kinds(partitions[guard])
    /\ access' = [kind |-> kind, a |-> a, b |-> b,
                  outcome |-> Outcome(partitions[guard], kind, a, b)]
    /\ UNCHANGED <<manifest, variant, wraps, built, partitions, guard>>

\* The error is returned, or the device's result.
Return ==
    /\ access # None
    /\ access' = None
    /\ UNCHANGED <<manifest, variant, wraps, built, partitions, guard>>

\* A guard is dropped, also in the middle of a request whose future is dropped.
DropGuard ==
    /\ guard # None
    /\ guard' = None /\ access' = None
    /\ UNCHANGED <<manifest, variant, wraps, built, partitions>>

Next ==
    \/ Generate
    \/ \E n \in DOMAIN partitions : Lock(n)
    \/ \E kind \in {"read", "write", "erase", "blockRead", "blockWrite"},
          a, b \in Arguments : Request(kind, a, b)
    \/ Return
    \/ DropGuard

-----------------------------------------------------------------------------
\* The bytes of a partition that a request is about, and those of a partition on
\* the device.
Asked == CASE access.kind \in {"read", "write"} -> {access.a + i : i \in 0 .. access.b - 1}
           [] access.kind = "erase" -> access.a .. access.b - 1
           [] OTHER -> access.a * BlockSize .. (access.a + access.b) * BlockSize - 1
BytesOf(p) == p.offset .. p.offset + p.size - 1

\* A request that is let through reaches exactly the bytes asked for, in its own
\* partition, on the disk and in no other partition of the manifest, unless the
\* generator let a partition pass beyond the last address; what may only be read
\* is not written; and a request within the partition is not refused as outside it.
PartitionsApart ==
    access # None =>
        LET p     == partitions[guard]
            reach == access.outcome.from .. access.outcome.to - 1
        IN  CASE access.outcome.error = None ->
                    /\ reach = {p.offset + i : i \in Asked}
                    /\ reach \subseteq BytesOf(p)
                    /\ p.access = "RO" => access.kind \in {"read", "blockRead"}
                    /\ (wraps /\ Overflows) \/
                         /\ \A n \in Names \ {guard} :
                               reach \cap BytesOf(manifest.partitions[n]) = {}
                         /\ manifest.size # None => reach \subseteq 0 .. manifest.size - 1
              [] access.outcome.error = "OutOfBounds" ->
                    \/ ~(Asked \subseteq 0 .. p.size - 1)
                    \/ Asked = {} /\ access.a > 0
                    \/ p.offset + p.size >= AddressSpace
              [] OTHER -> TRUE
=============================================================================
