SPECIFICATION CommandSpec
CONSTANTS
  Home <- MCHome
  Prefix <- MCPrefix
  HomeRoots <- MCHomeRoots
  DockerFolders <- MCDockerFolders
  GoFolders <- MCGoFolders
  Arguments <- MCArguments
  Malformed = glob
  MaxExcludes = 2
  Paths = {"work", "cloud"}
  Mount <- MCMount
  Volumes = {v1, v2}
  CloudDirs = {"cloud"}
  CloudSpellings <- MCCloudSpellings
  Relative = relative
  AttrKinds = {"size", "used"}
  Nothing = nothing
  MaxChanges = 2
  Compiled = {docker, go}
  Silent = {go}
  Foreign = foreign
  ReportDirs = {"work", "cloud"}
  CloudFile = "cloud"
INVARIANTS NoSilentExclude ZeroIsClean
  AbsenceIsProved NothingMaterialized CloudNeverPinned SnapshotsAreOfOneVolume
