SPECIFICATION MCSpec
CONSTANTS
  Budgets <- MCBudgets
  Ages = {FALSE}
INVARIANT OffersAreServed ReadYourWrites
CHECK_DEADLOCK FALSE
