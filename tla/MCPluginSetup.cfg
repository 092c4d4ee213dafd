SPECIFICATION Spec
CONSTANTS
  a = a  b = b  user = user
  Agents = {a, b}
  User = user
  Dirs = {"proj", "home"}
  Home = "home"
  Root = None
  KeyOf <- Keys
  Jobs <- SomeJobs
  HostClis <- AllOrNone
  Edited <- SomeFiles
  DefaultPort = 8767
  None = None
  MaxRuns = 2
  Faults = {"io", "cli", "crash", "edit"}
SYMMETRY Symmetry
CHECK_DEADLOCK FALSE
INVARIANTS SetupInstalls OthersKept UninstallCleans DaemonRefreshed
