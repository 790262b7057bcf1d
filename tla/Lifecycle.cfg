SPECIFICATION FairSpec
INVARIANTS TypeOK HotIsControlled DoneOrLate
PROPERTIES QuitEnds
