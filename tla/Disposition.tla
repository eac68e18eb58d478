----------------------------- MODULE Disposition -----------------------------
(***************************************************************************)
(* estimate_disposition of src/model.rs: the interval of bytes that        *)
(* unlinking a set of files would free.  The module gives it a meaning: it *)
(* models what a file system really frees, block by block, with clones     *)
(* that share blocks, hard links outside the set and snapshots taken after *)
(* the sizes were read.                                                    *)
(***************************************************************************)
EXTENDS Naturals, FiniteSets, FiniteSetsExt, Functions

CONSTANTS
  Identities,  \* the identities observed, in their order
  Blocks,      \* one byte each
  MaxLinks,    \* BOUND: links of one object
  ByteLimit,   \* BOUND: u64::MAX
  NotReturned  \* the size was not returned

ASSUME DispositionAssumption ==
  /\ Identities \subseteq Nat /\ IsFiniteSet(Identities)
  /\ IsFiniteSet(Blocks)
  /\ MaxLinks \in Nat /\ ByteLimit \in Nat /\ NotReturned \notin Nat

VARIABLES
  blocks,      \* the blocks of each observed object
  others,      \* blocks that objects outside the set refer to as well
  held,        \* blocks a later snapshot keeps
  link_count, covered_link_count,
  allocated_bytes, private_bytes,   \* as observed
  snapshots_stable,
  remaining, floor, ceiling, unmeasurable, result

world == <<blocks, others, held, link_count, covered_link_count,
           allocated_bytes, private_bytes, snapshots_stable>>
dispositionVars == <<world, remaining, floor, ceiling, unmeasurable, result>>

OwnBlocks(o) == blocks[o] \ (others \cup (UNION {blocks[p] : p \in Identities \ {o}}))

DispositionInit ==
  /\ blocks \in [Identities -> SUBSET Blocks]
  /\ others \in SUBSET Blocks
  /\ held \in SUBSET Blocks
  /\ link_count \in [Identities -> 1..MaxLinks]
  /\ covered_link_count \in [Identities -> 1..MaxLinks]
  /\ \A o \in Identities : covered_link_count[o] <= link_count[o]
  /\ \E missing \in SUBSET Identities :
       allocated_bytes =
         [o \in Identities |-> IF o \in missing THEN NotReturned ELSE Cardinality(blocks[o])]
  /\ \E missing \in SUBSET Identities :
       private_bytes =
         [o \in Identities |-> IF o \in missing THEN NotReturned ELSE Cardinality(OwnBlocks(o))]
  /\ snapshots_stable \in BOOLEAN
  /\ snapshots_stable => held = {}
  /\ remaining = Identities
  /\ floor = 0
  /\ ceiling = 0
  /\ unmeasurable = FALSE
  /\ result = "running"

\* MUTANT of WhollyCovered: a link elsewhere keeps the file alive.
SomeLinkCovered(o) == snapshots_stable /\ covered_link_count[o] >= 1
WhollyCovered(o) == snapshots_stable /\ covered_link_count[o] >= link_count[o]

FloorAfter(o) ==
  IF WhollyCovered(o) /\ private_bytes[o] # NotReturned THEN floor + private_bytes[o] ELSE floor

\* Once a size is missing the ceiling stays unknown, and is no longer added to.
CeilingAfter(o) ==
  IF ceiling = NotReturned \/ allocated_bytes[o] = NotReturned THEN NotReturned
  ELSE ceiling + allocated_bytes[o]

Missing(o) ==
  (WhollyCovered(o) /\ private_bytes[o] = NotReturned) \/ allocated_bytes[o] = NotReturned

\* MUTANT of Overflows: the limit itself does not fit.
TooEarly(n) == n # NotReturned /\ n >= ByteLimit
Overflows(n) == n # NotReturned /\ n > ByteLimit

\* One turn of the loop over the distinct identities, in their order.
Observe ==
  /\ remaining # {}
  /\ result = "running"
  /\ LET o == Min(remaining)
         c == CeilingAfter(o)
     IN \/ /\ Overflows(FloorAfter(o)) \/ Overflows(c)
           /\ result' = "overflow"
           /\ UNCHANGED <<world, remaining, floor, ceiling, unmeasurable>>
        \/ /\ ~Overflows(FloorAfter(o)) /\ ~Overflows(c)
           /\ floor' = FloorAfter(o)
           /\ ceiling' = c
           /\ unmeasurable' = (unmeasurable \/ Missing(o))
           /\ remaining' = remaining \ {o}
           /\ UNCHANGED <<world, result>>

Answer ==
  /\ remaining = {}
  /\ result = "running"
  /\ result' = "estimate"
  /\ UNCHANGED <<world, remaining, floor, ceiling, unmeasurable>>

DispositionNext == Observe \/ Answer
DispositionSpec == DispositionInit /\ [][DispositionNext]_dispositionVars

-----------------------------------------------------------------------------
\* What unlinking every observed path frees: the files all of whose links are
\* among them go away, and with them the blocks nothing else refers to.
Gone == {o \in Identities : covered_link_count[o] = link_count[o]}
Freed ==
  (UNION {blocks[o] : o \in Gone})
    \ (others \cup held \cup (UNION {blocks[o] : o \in Identities \ Gone}))

DispositionTypeOK ==
  /\ floor \in 0..ByteLimit
  /\ ceiling \in 0..ByteLimit \cup {NotReturned}
  /\ unmeasurable \in BOOLEAN
  /\ result \in {"running", "estimate", "overflow"}

\* SPEC.md:111: the interval holds the bytes really freed, however blocks are
\* shared, links lead elsewhere, or a snapshot intervenes; and when nothing was
\* reported as missing, no size it depends on was (model.rs:594-611).
IntervalBracketsTruth ==
  result = "estimate" =>
    /\ floor <= Cardinality(Freed)
    /\ ceiling # NotReturned => Cardinality(Freed) <= ceiling
    /\ ~unmeasurable =>
         /\ ceiling # NotReturned
         /\ \A o \in Gone : snapshots_stable => private_bytes[o] # NotReturned

\* Overflow is only reported when a true total does not fit (SPEC.md:111), and
\* no total ever exceeds the integers that hold it (model.rs:594-605).
OverflowIsReal ==
  /\ result = "overflow" =>
       SumFunctionOnSet([o \in Identities |-> Cardinality(blocks[o])], Identities) > ByteLimit
  /\ floor <= ByteLimit
  /\ ceiling # NotReturned => ceiling <= ByteLimit

\* What the observations say is true of the files, where they say anything.
WorldInv ==
  /\ blocks \in [Identities -> SUBSET Blocks]
  /\ others \in SUBSET Blocks /\ held \in SUBSET Blocks
  /\ link_count \in [Identities -> 1..MaxLinks] /\ covered_link_count \in [Identities -> 1..MaxLinks]
  /\ \A o \in Identities :
       /\ covered_link_count[o] <= link_count[o]
       /\ allocated_bytes[o] \in {NotReturned, Cardinality(blocks[o])}
       /\ private_bytes[o] \in {NotReturned, Cardinality(OwnBlocks(o))}
  /\ snapshots_stable \in BOOLEAN
  /\ snapshots_stable => held = {}

\* The inductive invariant behind both: each bound is the total of the known
\* sizes of the objects observed so far that count for it.
Observed == Identities \ remaining
Freeable == {o \in Observed : WhollyCovered(o) /\ private_bytes[o] # NotReturned}

DispositionInv ==
  /\ WorldInv
  /\ remaining \subseteq Identities
  /\ result = "estimate" => remaining = {}
  /\ floor = SumFunctionOnSet(private_bytes, Freeable)
  /\ ceiling = IF \E o \in Observed : allocated_bytes[o] = NotReturned THEN NotReturned
               ELSE SumFunctionOnSet(allocated_bytes, Observed)
  /\ unmeasurable = \E o \in Observed : Missing(o)
  /\ OverflowIsReal
=============================================================================
