\* Every statement on two transaction rows and two entry ids, from empty tables.
CONSTANTS
  s1 = s1
  s2 = s2
  t1 = t1
  t2 = t2
  cash = cash
  food = food
  card = card
  rent = rent
  NoEntry = NoEntry
  Session = {s1, s2}
  Txn = {t1, t2}
  Account = {cash, food}
  CurrencyOf <- MCCurrencyOf
  MaxEntry = 2
  Amount <- MCAmount
  MaxBalance = 1
  MaxWrites = 2
  NewStatus = {"draft", "posted", "settled"}
SPECIFICATION Spec
SYMMETRY MCSymmetry
INVARIANTS TypeOK BalanceIsPostedSum PostedIsBalanced
PROPERTY SettledIsFrozen
CHECK_DEADLOCK FALSE
