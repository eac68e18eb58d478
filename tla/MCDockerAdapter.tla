--------------------------- MODULE MCDockerAdapter ---------------------------
(* A configured folder on another volume; excludes above, at and below both *)
(* folders.                                                                 *)
EXTENDS DockerAdapter

MCCustom == <<"volume", "orb">>
MCExcludable ==
  {<<"containers">>, StoreRoot, Sparse(DataFolder), MCCustom, Raw(MCCustom)}
=============================================================================
