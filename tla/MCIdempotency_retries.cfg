\* Three requests under two keys, in any grouping: two that look their key up together
\* and a third that comes while they are served or after one has cleared the mark.
SPECIFICATION FairCacheSpec
CONSTANTS
    Keys = {k1, k2}
    Attempts = {a1, a2, a3}
    Nobody = Nobody
INVARIANTS
    CacheTypeOK
    ExecutedOnce
    AnsweredTruly
PROPERTIES
    MarkRemoved
\* Behaviours end when every attempt is over and every entry has expired.
CHECK_DEADLOCK FALSE
