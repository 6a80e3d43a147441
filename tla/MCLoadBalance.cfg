SPECIFICATION MCSpec
INVARIANTS MCTypeOK PairsAreUnique NoTokenIsMissed
PROPERTIES ChainGoesOn
