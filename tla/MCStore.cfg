\* Three proxies over time and two at once, from one subscription or by hand,
\* with two endpoints, so that a list may repeat one; one other file, one edit.
\* Any write may fail, and the program may die between any two writes.
CONSTANTS
  Subs     = {s1}
  Manual   = manual
  Keys     = {ka, kb}
  None     = None
  MaxIds   = 3
  MaxList  = 2
  Others   = {"rules"}
  MaxEdits = 1
SYMMETRY StoreSymmetry
SPECIFICATION Spec
INVARIANTS
  UniqueIds
  DiskFollows
  RestartIsSound
  IdNamesOneEndpoint
  RefreshIsFaithful
