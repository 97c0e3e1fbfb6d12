---------------------------- MODULE MCBackends -----------------------------
(* A shared bot, whose user has had a directory behind Keycloak before,    *)
(* two drives with one token file, SFTP, and a disk.                       *)
EXTENDS Backends

CONSTANTS anna, drive, disk, remote, token, none

entry(name, fs, shared, sync, file) ==
  [user |-> name, fs |-> fs, shared |-> shared, sync |-> sync, token_file |-> file]

accesses ==
  {entry(anna,   "telegram", TRUE,  FALSE, none),
   entry(anna,   "keycloak", FALSE, FALSE, none),
   entry(drive,  "gdrive",   FALSE, FALSE, token),
   entry(disk,   "gdrive",   TRUE,  FALSE, token),
   entry(remote, "sftp",     FALSE, TRUE,  none),
   entry(none,   "plain",    FALSE, FALSE, none)}

=============================================================================
