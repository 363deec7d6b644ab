SPECIFICATION FairSpec
CONSTANT MaxDrops = 2
PROPERTY LinkComesBack
CHECK_DEADLOCK FALSE
