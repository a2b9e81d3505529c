\* FileSystem over a share that misbehaves: one client with every path and on
\* every small share, two clients at a lock file, in a tree, and during Close.
SPECIFICATION Spec
CONSTANTS
    c1 = c1
    c2 = c2
    Clients <- MCClients
    Situations <- MCSituations
    Alphabet <- MCAlphabet
    Lower <- MCLower
    DotDotNames <- MCDotDotNames
    NulNames <- MCNulNames
    MaxAttempts = 3
    Nobody = Nobody
INVARIANT TypeOK
INVARIANT NamesResolved
INVARIANT ExclusiveOnce
INVARIANT NilMeansDone
INVARIANT RetriesInvisible
INVARIANT ConnectionsAccounted
PROPERTY CallsReturn
CHECK_DEADLOCK FALSE
