\* Two lock files (one uninstall), one timeout or kill.
CONSTANTS
    Service = service
    Admin = admin
    MaxLocks = 2
    MaxFaults = 1
SPECIFICATION FairSpec
INVARIANTS TypeOK QuietUninstallIsClean SweepsAreMigrated
PROPERTIES KeepsContract SweepsGoOn
