---------------------------- MODULE MCLocalStore ----------------------------
EXTENDS LocalStore, TLC

TabSymmetry == Permutations(Tab)

entry(a, d, m, c) == [account |-> a, direction |-> d, amount |-> m, currency |-> c]

\* A balanced body, one without entries, one that balances over two currencies only, one for no account.
MCBodies ==
  {[day |-> 1, entries |-> <<entry("x", "debit", 1, "KRW"), entry("x", "credit", 1, "KRW")>>],
   [day |-> 1, entries |-> <<entry("x", "debit", 1, "KRW"), entry("x", "credit", 1, "USD")>>],
   [day |-> 1, entries |-> << >>],
   [day |-> 1, entries |-> <<entry("z", "debit", 1, "KRW"), entry("x", "credit", 1, "KRW")>>]}

\* Due in every other month; the daily entries fill the rest.
MCFixed == << [every |-> 2, offset |-> 1] >>
=============================================================================
