\* A scheduled and a manual sync over two AD users and a local one.
SPECIFICATION FairSpec
CONSTANTS
  NULL = NULL
  Accounts = {a1, a2, l1}
  LocalAccounts = {l1}
  BootstrapAdmin = b
  Cron = cron
  Manual = {hand}
  Refusals = {TRUE}
  MaxTime = 1
  MaxChanges = 1
  MaxManual = 1
INVARIANTS
  TypeOK
PROPERTIES
  LeaversAreDisabled
  LeaversAreFound
