\* Two sessions on one posted transaction that has two balanced pairs on disjoint accounts.
CONSTANTS
  s1 = s1
  s2 = s2
  t1 = t1
  t2 = t2
  cash = cash
  food = food
  card = card
  rent = rent
  NoEntry = NoEntry
  Session = {s1, s2}
  Txn = {t1}
  Account = {cash, food, card, rent}
  CurrencyOf <- MCCurrencyOf
  MaxEntry = 4
  Amount <- MCAmount
  MaxBalance = 1
  MaxWrites = 2
  NewStatus = {"draft", "posted", "settled"}
SPECIFICATION TwoPairsSpec
INVARIANT PostedHasEntries
CHECK_DEADLOCK FALSE
