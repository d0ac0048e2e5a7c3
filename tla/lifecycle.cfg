SPECIFICATION Spec
CONSTANTS
  Runs = {r1, r2}
  MaxStack = 2
  Pools = {own}
  Longer = {}
  Slow = {"k8s_master_listener_boot", "k8s_master_waiter_handle"}
  MaxCommands = 5
  MaxMishaps = 1
INVARIANTS KubeconfigOfOwnStack MastersFindTheirWay
PROPERTIES StacksStayNamed StackSettles
CHECK_DEADLOCK FALSE
