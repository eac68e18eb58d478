------------------------------ MODULE MCCommands -----------------------------
(* The default roots below a home directory, a volume with custom ones, and  *)
(* arguments that lie inside, above and beside them.                         *)
EXTENDS Commands

MCHome == <<"home">>
MCPrefix == <<"brew">>
Library == <<"home", "library">>
Group == <<"home", "library", "group">>
Volume == <<"volume">>

MCHomeRoots ==
  [a \in Adapters |->
     CASE a = "homebrew" -> {Append(Library, "homebrew")}
       [] a = "xcode"    -> {Append(Library, "developer")}
       [] a = "docker"   -> {Append(Group, "orbstack")}
       [] a = "go"       -> {Append(Library, "gobuild")}]

Custom == Append(Volume, "docker")
MCDockerFolders == {{}, {Custom}}
MCGoFolders == {{Append(Library, "gobuild")}, {Append(Volume, "go")}}

MCArguments ==
  {Library, Group, Append(Append(Group, "orbstack"), "images"), Append(Library, "developer"),
   Append(Append(Library, "gobuild"), "ab"), Volume, Append(Custom, "data"), Append(MCPrefix, "cellar")}

(* A directory of the user's and one of the cloud provider, on two mount    *)
(* points; HOME spelled as it is, or by way of a link.                       *)
MCMount == [p \in {"work", "cloud"} |-> IF p = "work" THEN "root" ELSE "volumes"]
MCCloudSpellings == [h \in {"physical", "linked"} |-> IF h = "physical" THEN {"cloud"} ELSE {}]
=============================================================================
