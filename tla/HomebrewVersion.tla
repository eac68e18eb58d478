--------------------------- MODULE HomebrewVersion ---------------------------
(***************************************************************************)
(* read_version of src/adapters/homebrew.rs: the version of Homebrew is    *)
(* read from its git directory, without running git, one file after the    *)
(* other, while git may be running: it commits, packs references, moves    *)
(* HEAD, and brew caches descriptions.  Every read goes through            *)
(* read_checked, which answers nothing whenever anything is wrong with the *)
(* file: it is absent, unreadable, a link, dataless or not text.           *)
(***************************************************************************)
EXTENDS Naturals, FiniteSets

CONSTANTS
  Commits,
  MaxChanges    \* BOUND: steps git and brew take while the files are read

BRANCH == "branch"    \* HEAD holds ref: refs/heads/...
JUNK == "junk"        \* contents that are neither a reference nor a sha
None == "none"

ASSUME VersionAssumption ==
  /\ MaxChanges \in Nat
  /\ Commits \cap {BRANCH, JUNK, None} = {}

VARIABLES
  head, loose, packed,  \* .git/HEAD, .git/refs/heads/..., .git/packed-refs
  sealed,               \* the loose reference exists but cannot be read as text
  described,            \* commits .git/describe-cache has a version of
  changes,
  reading, sha, version,
  pointed               \* history: commits HEAD or the branch has pointed to

git == <<head, loose, packed, sealed, described, changes>>
versionVars == <<git, reading, sha, version, pointed>>

\* A sealed loose reference exists.
VersionInit ==
  /\ head \in Commits \cup {BRANCH, JUNK}
  /\ loose \in Commits \cup {JUNK, None}
  /\ packed \in Commits \cup {None}
  /\ sealed \in BOOLEAN /\ (sealed => loose \in Commits)
  /\ described \in SUBSET Commits
  /\ changes = 0
  /\ reading = "head" /\ sha = None /\ version = None
  /\ pointed = (Commits \cap {head, loose}) \cup (IF loose = None THEN Commits \cap {packed} ELSE {})

-----------------------------------------------------------------------------
Unknown ==
  /\ reading' = "unknown"
  /\ UNCHANGED <<sha, version>>

Found(c) ==
  /\ sha' = c
  /\ reading' = "describe"
  /\ UNCHANGED version

ValidSha(x) == x \in Commits

\* Any read may come back with nothing.
ReadHead ==
  /\ reading = "head"
  /\ \/ Unknown
     \/ head = BRANCH /\ reading' = "loose" /\ UNCHANGED <<sha, version>>
     \/ ValidSha(head) /\ Found(head)
  /\ UNCHANGED <<git, pointed>>

\* MUTANT of TriesPacked: the packed references are read first, as if they
\* were the current ones.
AlwaysPacked == TRUE
TriesPacked == loose = None \/ sealed

\* read_reference, first half.  A loose reference that holds something else
\* ends the search; one that cannot be read does not.
ReadLoose ==
  /\ reading = "loose"
  /\ \/ TriesPacked /\ reading' = "packed" /\ UNCHANGED <<sha, version>>
     \/ loose \notin {None} /\ ~sealed /\ ValidSha(loose) /\ Found(loose)
     \/ loose \notin {None} /\ ~sealed /\ ~ValidSha(loose) /\ Unknown
  /\ UNCHANGED <<git, pointed>>

ReadPacked ==
  /\ reading = "packed"
  /\ \/ Unknown
     \/ packed # None /\ Found(packed)
  /\ UNCHANGED <<git, pointed>>

VersionOf(c) == described \cap {c}

ReadDescribe ==
  /\ reading = "describe"
  /\ \/ Unknown
     \/ \E c \in VersionOf(sha) :
          /\ version' = c
          /\ reading' = "ready"
          /\ UNCHANGED sha
  /\ UNCHANGED <<git, pointed>>

Read == ReadHead \/ ReadLoose \/ ReadPacked \/ ReadDescribe

-----------------------------------------------------------------------------
(* git and brew, as the reader's order of reads presumes them: a reference *)
(* is packed before its loose file is removed.                             *)

Change ==
  /\ changes < MaxChanges
  /\ changes' = changes + 1
  /\ UNCHANGED <<sealed, reading, sha, version>>

Advance(c) ==
  /\ Change
  /\ loose' = c
  /\ pointed' = pointed \cup {c}
  /\ UNCHANGED <<head, packed, described>>

Pack ==
  /\ Change
  /\ loose \in Commits
  /\ packed' = loose
  /\ UNCHANGED <<head, loose, described, pointed>>

Prune ==
  /\ Change
  /\ ~sealed
  /\ loose \in Commits /\ loose = packed
  /\ loose' = None
  /\ UNCHANGED <<head, packed, described, pointed>>

Checkout(h) ==
  /\ Change
  /\ head' = h
  /\ pointed' = pointed \cup (Commits \cap {h})
  /\ UNCHANGED <<loose, packed, described>>

Describe(c) ==
  /\ Change
  /\ described' = described \cup {c}
  /\ UNCHANGED <<head, loose, packed, pointed>>

Others ==
  \/ \E c \in Commits : Advance(c) \/ Describe(c)
  \/ Pack \/ Prune
  \/ \E h \in Commits \cup {BRANCH} : Checkout(h)

Ended == reading \in {"ready", "unknown"} /\ UNCHANGED versionVars

VersionNext == Read \/ Others \/ Ended

VersionSpec == VersionInit /\ [][VersionNext]_versionVars

-----------------------------------------------------------------------------
VersionTypeOK ==
  /\ head \in Commits \cup {BRANCH, JUNK}
  /\ loose \in Commits \cup {JUNK, None}
  /\ packed \in Commits \cup {None}
  /\ described \in SUBSET Commits
  /\ changes \in 0..MaxChanges
  /\ reading \in {"head", "loose", "packed", "describe", "ready", "unknown"}
  /\ sha \in Commits \cup {None}
  /\ version \in Commits \cup {None}
  /\ pointed \in SUBSET Commits

\* However git moves and packs references between the reads, a version that is
\* reported describes a commit that was checked out, or was the head of the
\* branch, during the scan: as long as the loose reference can be read, the
\* order loose before packed never yields an older one (homebrew.rs:469-490).
VersionWasCurrent == reading = "ready" /\ ~sealed => version \in pointed

\* The inductive invariant behind it: whatever the next read may find has been
\* pointed to, because packing precedes removal.
VersionInv ==
  /\ VersionTypeOK
  /\ loose # JUNK => loose \in pointed \cup {None}
  /\ head \notin {BRANCH, JUNK} => head \in pointed
  /\ loose = None \/ (reading = "packed" /\ ~sealed) => packed \in pointed \cup {None}
  /\ reading = "describe" => sha \in Commits /\ (sealed \/ sha \in pointed)
  /\ VersionWasCurrent

\* SPEC.md:953: the packed references count only where there is no loose one,
\* so the version is never older than that.  Does not hold when the loose one
\* cannot be read (README.md, section 6).
VersionIsNeverOlder == reading = "ready" => version \in pointed
=============================================================================
