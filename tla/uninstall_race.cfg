\* One uninstall beside one run of the timer's service, nobody is killed.
CONSTANTS
    Service = service
    Admin = admin
    MaxLocks = 2
    MaxFaults = 0
SPECIFICATION Spec
PROPERTY MetadataOutlivesPatch
