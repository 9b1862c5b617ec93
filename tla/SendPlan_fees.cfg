\* Fees with a step at every second input or output, dust of one sat, and three coins;
\* rounds enough for the one step of the fee there is, and no more.
CONSTANTS
  NumCoins = 3
  Values = {1, 4, 6, 9}
  Amounts <- MCAmounts
  Rates = {1, 2, 3}
  MinRate = 2
  Dust = 1
  BaseSize = 2
  InputSize = 3
  OutputSize = 2
  SizeUnit = 8
  MaxRounds = 3
SPECIFICATION FairSpec
CHECK_DEADLOCK FALSE
INVARIANTS TypeOK SentPaysFee InsufficientIsReal ReplanAgrees NotConvergedAtBoundary
PROPERTY PaymentEnds
