CONSTANTS
  a = a
  b = b
  c = c
  Keys = {a, b, c}
  Threads = {t1, t2}
  Main = Main
  NoThread = NoThread
  Null = Null
  Bucket <- MCBucket
  MaxSpaceNum = 2
  MaxChanges = 4
SPECIFICATION Spec

PROPERTIES AddedIsFound
SYMMETRY Symmetric
