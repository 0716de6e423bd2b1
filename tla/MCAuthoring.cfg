SPECIFICATION MCSpec
CONSTANTS
    Trees <- MCTrees
    Texts <- MCTexts
    MaxTerms = 3
    Raised = Raised
    NumberOf <- MCNumberOf
    Idents <- MCIdents
    Members <- MCMembers
    Worlds <- MCWorlds
    Points = {s1, s2, s3}
    Hints = {h}
    Profile <- MCShared
    MaxIndex = 1
    None = None
    Symbols <- MCNames
    Comparisons <- MCNone
    Levels <- MCLevels
    Sat <- MCSat
    Charts <- MCCharts
SYMMETRY MCSymmetry
INVARIANTS
    FormsKeepTheMeaning
    OneToOne
    ChecksAreSound
PROPERTIES
    AddressesAreStable
CHECK_DEADLOCK FALSE
