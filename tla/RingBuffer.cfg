SPECIFICATION FairSpec
CONSTANTS
  Thread = {t1, t2, t3}
  Item = {a, b}
  Size = 3
  NoThread = NoThread
  NoItem = NoItem
INVARIANT IInv
PROPERTY Implements
PROPERTY SomeCallReturns
