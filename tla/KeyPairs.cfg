CONSTANTS
    laptop = laptop
    phone = phone
    t1 = t1
    t2 = t2
    t3 = t3
    Tabs <- TabsDef
    Browsers <- BrowsersDef
    BrowserOf <- BrowserOfDef
    Prf <- PrfDef
    MaxUses = 5
    MaxFails = 1
SPECIFICATION FairSpec
CHECK_DEADLOCK FALSE
INVARIANTS
    BackupsOpen
    ChatHasThePair
    
PROPERTIES
    PagesComeToRest
