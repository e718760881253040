CONSTANTS
  Backups <- MCBackups
  Databases <- MCDatabases
  Bundle <- MCBundle
  MaxMishaps = 2
SPECIFICATION RestoreSpec
INVARIANT NothingIsLost NeverStartsEmpty PendingIsSound
