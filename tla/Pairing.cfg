SPECIFICATION Spec
CONSTANTS
    Attempts = {a1, a2}
    Stores = {keyring, file}
    FileStores = {file}
    Editors = {e1}
    MaxLogouts = 1
    EditsAfter = {"broke"}
    NotPaired = NotPaired
INVARIANTS PairedIsWhole NoOlderKey
PROPERTIES LogoutForgets KeepsPromise EndsSaved
CHECK_DEADLOCK FALSE
