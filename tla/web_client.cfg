\* A story of every character the screens can tell.
SPECIFICATION MCSpec
CONSTANTS
    Nothing = Nothing
    MaxPosts = 2
    MaxDialogs = 2
INVARIANTS
    MyWritesShow
    OnePaymentPerDialog
    NothingIsForbidden
