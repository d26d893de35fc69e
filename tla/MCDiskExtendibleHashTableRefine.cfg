CONSTANTS
    HashBits = 3
    Keys = {0, 1, 2, 3, 4}
    Vals = {10}
    HashOf <- MCHashOf
    HeaderMaxDepth = 1
    DirectoryMaxDepth = 2
    BucketMaxSize = 2
    MaxPages = 7
    NoPage = NoPage
    NoVal = NoVal
SPECIFICATION Spec
PROPERTIES RefinesKVMap
