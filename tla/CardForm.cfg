SPECIFICATION MCSpec
CONSTANTS
  Fields = {"number", "expiry", "cvc", "rest"}
  Digits = {0, 1, 2, 4, 5, 9}
  MinDigits = 3
  MaxDigits = 5
  MaxInstallments = 36
  Calendar <- Boundaries
INVARIANTS
  TypeOK
  ShownIsTyped
  TyposAreCaught
  PspGetsWhatIsShown
  GoodThroughItsMonth
  AcceptedByServer
PROPERTIES
  BrandIsKept
