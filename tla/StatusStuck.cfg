\* A site with a page is removed: its section keeps php-fpm down.
CONSTANTS
    Pools = {a, b}
    Daemons = {serve}
    Applies = {}
    Enablers = {}
    MaxStatusRetries = 2
    None = None
    Foreign = Foreign
    Racing = {}
    MaxEvents = 1
SPECIFICATION FairSpec
PROPERTY TakesItsOwnFilesOut
