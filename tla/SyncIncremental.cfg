\* Scheduled syncs of one AD user who does not change.
SPECIFICATION Spec
CONSTANTS
  NULL = NULL
  Accounts = {a1}
  LocalAccounts = {}
  BootstrapAdmin = b
  Cron = cron
  Manual = {}
  Refusals = {}
  MaxTime = 1
  MaxChanges = 1
  MaxManual = 0
PROPERTIES
  OnlyLeaversAreDisabled
