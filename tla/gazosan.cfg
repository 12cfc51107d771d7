\* Both builds: any names for the inputs, any outputs writable.
SPECIFICATION FairSpec
INVARIANTS TypeOK OutputsFresh WholeFiles FatalTouchesNothing DrawnOnItsImage
PROPERTIES Termination
CHECK_DEADLOCK FALSE
