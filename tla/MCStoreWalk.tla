----------------------------- MODULE MCStoreWalk -----------------------------
(* A store with a file and a directory, an excluded directory beside it, and *)
(* a path outside the store, over two files: hard links may lead anywhere.   *)
EXTENDS StoreWalk

CONSTANTS f, g, a, b, c, d, x

S == <<"s">>
A == <<"s", a>>
D == <<"s", d>>
DB == <<"s", d, b>>
X == <<"s", x>>
XC == <<"s", x, c>>
E == <<"e">>

MCPaths == {S, A, D, DB, X, XC, E}
MCDirPaths == {S, D, X}
MCExcludes == {X}
MCOutside == {<<b, "other">>, <<c, "directory">>}

Tree(files) ==
  {[p \in MCPaths |-> IF p \in DOMAIN h THEN h[p] ELSE IF p = D THEN kind ELSE "dir"] :
     h \in [{A, DB, XC, E} -> files], kind \in {"dir", "mount"}}
MCInitial == Tree({f, g, "none"})

MCSize == [o \in {f, g} |-> IF o = f THEN 1 ELSE 2]
MCAllocated == [o \in {f, g} |-> IF o = f THEN 2 ELSE Unknown]
MCBehind == {[size |-> 3, links |-> 1]}
=============================================================================
