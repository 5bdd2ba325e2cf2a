SPECIFICATION FairSpec
CONSTANTS
  Users = {u1}
  Upgrades = {o1, o2}
  Sides = {s1, s2}
  Fee = 2
  Bonus = 1
  Recharge = 3
  Price = 1
  InitialBalance = 2
  Cap = 5
  Toggles = 2
INVARIANTS MoneyConserved OneConversion NothingLeftBehind
PROPERTIES RetriesComplete ImplementsPromise
CHECK_DEADLOCK FALSE
