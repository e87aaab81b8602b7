-------------------------------- MODULE CardForm --------------------------------
(***************************************************************************)
(* The card form of the checkout sheet, keystroke by keystroke: what is     *)
(* typed, what the draft keeps of it, what the fields show of the draft,    *)
(* when Continue is enabled, and what the backend's DTO and its PSP gateway *)
(* make of the card that is sent in the end.                                *)
(*                                                                          *)
(* A text is a sequence of digits and separators.  The holder's name and    *)
(* the e-mail only matter as filled in correctly or not.                    *)
(***************************************************************************)
EXTENDS Integers, Sequences, FiniteSets, SequencesExt

CONSTANTS Digits,          \* the digits that are typed (bound)
          MinDigits,       \* length of a card number: 13 to 19
          MaxDigits,
          MaxInstallments, \* 36
          Calendar         \* the days the clock goes through

ASSUME FormAssumption ==
  /\ {0, 2} \subseteq Digits /\ Digits \subseteq 0..9
  /\ MinDigits \in Nat \ {0} /\ MaxDigits \in Nat /\ MinDigits <= MaxDigits
  /\ MaxInstallments \in 1..36
  /\ Calendar \in Seq([year: 2000..2099, month: 1..12, day: 1..31])
  /\ Calendar # << >>

VARIABLES card,   \* checkout.card, the draft
          email,  \* is checkout.customerEmail an e-mail address?
          now,    \* the day, an index of Calendar
          typed   \* the digits of the text last typed in the two formatted fields

formVars == <<card, email, now, typed>>

Separator == 10
Today == Calendar[now]

TypeOK ==
  /\ card \in [number: Seq(Digits), month: Seq(Digits), year: Seq(Digits),
               cvc: Seq(Digits), holder: BOOLEAN, installments: 1..MaxInstallments]
  /\ Len(card.number) <= MaxDigits /\ Len(card.month) <= 2
  /\ Len(card.year) \in {0, 1, 4} /\ Len(card.cvc) <= 4
  /\ email \in BOOLEAN
  /\ now \in DOMAIN Calendar
  /\ typed \in [number: Seq(Digits), expiry: Seq(Digits)]

Init ==
  /\ card = [number |-> << >>, month |-> << >>, year |-> << >>, cvc |-> << >>,
             holder |-> FALSE, installments |-> 1]
  /\ email = FALSE /\ now = 1
  /\ typed = [number |-> << >>, expiry |-> << >>]
--------------------------------------------------------------------------------
(* Texts and what the fields show                                           *)

Take(s, n)     == SubSeq(s, 1, IF Len(s) < n THEN Len(s) ELSE n)
Drop(s, n)     == SubSeq(s, n + 1, Len(s))
OnlyDigits(s)  ==
  FoldLeft(LAMBDA kept, d : IF d \in Digits THEN Append(kept, d) ELSE kept, << >>, s)
Numeral(s)     == FoldLeft(LAMBDA n, d : 10 * n + d, 0, s)

\* In groups of four.
formatCardNumber(s) ==
  [i \in 1..(Len(s) + (Len(s) - 1) \div 4) |->
     IF i % 5 = 0 THEN Separator ELSE s[i - i \div 5]]

formatExpiration(s) ==
  IF Len(s) <= 2 THEN s ELSE Take(s, 2) \o <<Separator>> \o Drop(s, 2)

expandTwoDigitYear(s) == <<2, 0>> \o s

ExpiryDigits ==
  card.month \o (IF Len(card.year) = 4 THEN Drop(card.year, 2) ELSE card.year)

NumberShown == formatCardNumber(card.number)
ExpiryShown == formatExpiration(ExpiryDigits)

\* What one keystroke, anywhere in the text shown, makes of it.
Keystrokes(shown) ==
  {InsertAt(shown, i, d) : i \in 1..(Len(shown) + 1), d \in Digits \union {Separator}}
  \union {RemoveAt(shown, i) : i \in DOMAIN shown}
--------------------------------------------------------------------------------
(* The client's validation                                                  *)

\* Mutant: the two digits of a doubled one are not added up.
DoubledWhole(d) == 2 * d

Doubled(d) == IF 2 * d > 9 THEN 2 * d - 9 ELSE 2 * d

\* Every second digit, from the right, is doubled.
Weighted(s) ==
  [i \in DOMAIN s |-> IF (Len(s) - i) % 2 = 1 THEN Doubled(s[i]) ELSE s[i]]
LuhnSum(s) == FoldLeft(LAMBDA sum, d : sum + d, 0, Weighted(s))

isValidCardNumber(s) == Len(s) \in MinDigits..MaxDigits /\ LuhnSum(s) % 10 = 0

\* Mutant: the prefix is read at the wrong end.
detectCardBrandAtTheEnd(s) ==
  IF s # << >> /\ s[1] = 4 THEN "visa"
  ELSE IF Len(s) >= 4 /\ Numeral(Drop(s, Len(s) - 4)) \in 2221..2720
       THEN "mastercard" ELSE "unknown"

detectCardBrand(s) ==
  IF s # << >> /\ s[1] = 4 THEN "visa"
  ELSE IF \/ Len(s) >= 2 /\ s[1] = 5 /\ s[2] \in 1..5
          \/ Len(s) >= 4 /\ Numeral(Take(s, 4)) \in 2221..2720
       THEN "mastercard" ELSE "unknown"

\* Mutant: two digits will do.
isValidCvcShort(s) == Len(s) \in {2, 3, 4}

isValidCvc(s) == Len(s) \in {3, 4}

IsMonth(s) == Len(s) = 2 /\ Numeral(s) \in 1..12
IsYear(s)  == Len(s) = 4

\* JavaScript's Date(year, month, day) as a number of days: months count from 0,
\* a month of 12 is the next January, and day 0 is the day before the first.
IsLeap(y) == y % 4 = 0 /\ (y % 100 # 0 \/ y % 400 = 0)
DaysBefore == <<0, 31, 59, 90, 120, 151, 181, 212, 243, 273, 304, 334>>
Date(year, month, day) ==
  LET y == year + month \div 12
      m == month % 12
  IN 365 * y + (y - 1) \div 4 - (y - 1) \div 100 + (y - 1) \div 400
       + DaysBefore[m + 1] + (IF IsLeap(y) /\ m >= 2 THEN 1 ELSE 0) + day

\* The calendar has days that exist.
ASSUME CalendarAssumption ==
  \A c \in Range(Calendar) :
    Date(c.year, c.month - 1, c.day) <= Date(c.year, c.month, 0)

\* Mutant: months counted from 0, which makes it the last day of the month before.
ExpiresAtEarly(month, year) == Date(year, month - 1, 0)

\* Day 0 of the month after the card's.
ExpiresAt(month, year) == Date(year, month, 0)

isFutureExpiration(month, year) ==
  /\ IsMonth(month) /\ IsYear(year)
  /\ ExpiresAt(Numeral(month), Numeral(year)) >=
       Date(Today.year, Today.month - 1, Today.day)

\* validateCard and isValidEmail find nothing wrong.
CanContinue ==
  /\ isValidCardNumber(card.number) /\ card.holder
  /\ isFutureExpiration(card.month, card.year)
  /\ isValidCvc(card.cvc)
  /\ email
--------------------------------------------------------------------------------
(* What the customer types                                                  *)

\* Mutant: what is typed is kept whatever its length.
TypeNumberUncut ==
  \E text \in Keystrokes(NumberShown) :
    /\ card' = [card EXCEPT !.number = OnlyDigits(text)]
    /\ typed' = [typed EXCEPT !.number = Take(OnlyDigits(text), MaxDigits)]
    /\ UNCHANGED <<email, now>>

\* The field has no maxLength of its own.
TypeNumber ==
  \E text \in Keystrokes(NumberShown) :
    /\ card' = [card EXCEPT !.number = Take(OnlyDigits(text), MaxDigits)]
    /\ typed' = [typed EXCEPT !.number = Take(OnlyDigits(text), MaxDigits)]
    /\ UNCHANGED <<email, now>>

\* Mutant: a year of one digit is completed, too.
TypeExpiryExpanding ==
  \E text \in Keystrokes(ExpiryShown) :
    LET digits == Take(OnlyDigits(text), 4) IN
    /\ Len(text) <= 5
    /\ card' = [card EXCEPT !.month = Take(digits, 2),
                            !.year = IF Len(digits) > 2
                                     THEN expandTwoDigitYear(Drop(digits, 2)) ELSE << >>]
    /\ typed' = [typed EXCEPT !.expiry = digits]
    /\ UNCHANGED <<email, now>>

\* handleExpirationChange.
TypeExpiry ==
  \E text \in Keystrokes(ExpiryShown) :
    LET digits == Take(OnlyDigits(text), 4) IN
    /\ Len(text) <= 5
    /\ card' = [card EXCEPT !.month = Take(digits, 2),
                            !.year = IF Len(digits) = 4
                                     THEN expandTwoDigitYear(Drop(digits, 2))
                                     ELSE Drop(digits, 2)]
    /\ typed' = [typed EXCEPT !.expiry = digits]
    /\ UNCHANGED <<email, now>>

TypeCvc ==
  \E text \in Keystrokes(card.cvc) :
    /\ Len(text) <= 4
    /\ card' = [card EXCEPT !.cvc = OnlyDigits(text)]
    /\ UNCHANGED <<email, now, typed>>

TypeHolder == card' = [card EXCEPT !.holder = ~ @] /\ UNCHANGED <<email, now, typed>>

TypeEmail == email' = ~ email /\ UNCHANGED <<card, now, typed>>

\* The installments' QuantityStepper.
Step ==
  \E n \in {card.installments - 1, card.installments + 1} \intersect 1..MaxInstallments :
    /\ card' = [card EXCEPT !.installments = n]
    /\ UNCHANGED <<email, now, typed>>

Midnight ==
  /\ now < Len(Calendar) /\ now' = now + 1
  /\ UNCHANGED <<card, email, typed>>

Next ==
  TypeNumber \/ TypeExpiry \/ TypeCvc \/ TypeHolder \/ TypeEmail \/ Step \/ Midnight

Spec == Init /\ [][Next]_formVars
--------------------------------------------------------------------------------
(* The other side                                                           *)

\* luhn.validator.ts.
luhnCheck(s) == Len(s) \in MinDigits..MaxDigits /\ LuhnSum(s) % 10 = 0

\* PayTransactionDto.
PayAccepts(c) ==
  /\ luhnCheck(c.number) /\ c.holder
  /\ IsMonth(c.month) /\ IsYear(c.year)
  /\ Len(c.cvc) \in 3..4
  /\ c.installments \in 1..36

\* Mutant: the century instead of the year.
PspYearFirst(year) == Take(year, 2)

\* The PSP takes years of two digits: the gateway's slice(-2).
PspYear(year) == Drop(year, Len(year) - 2)
--------------------------------------------------------------------------------
(* Properties                                                               *)

\* Every field shows exactly the digits that were typed, wherever in the text the
\* keystroke was: no phantom digit, no digit a field cannot take, none lost to a
\* separator (CardInfoForm's comment on expiryDigits, and format.ts's).
ShownIsTyped ==
  OnlyDigits(NumberShown) = typed.number /\ OnlyDigits(ExpiryShown) = typed.expiry

\* What Continue lets through the backend's DTO accepts: the two sides never
\* disagree on the same input (luhn.ts).
AcceptedByServer == CanContinue => PayAccepts(card)

\* The expiry that reaches the PSP is the MM/YY the customer sees, although it
\* passes through a year of four digits.
PspGetsWhatIsShown ==
  Len(card.year) = 4 =>
    OnlyDigits(ExpiryShown) = card.month \o PspYear(card.year)

\* A number with one digit mistyped, or two adjacent ones swapped (but for 09 and
\* 90), is never taken for a card's when the right one is.
TyposAreCaught ==
  isValidCardNumber(card.number) =>
    /\ \A i \in DOMAIN card.number : \A d \in Digits \ {card.number[i]} :
         ~ isValidCardNumber([card.number EXCEPT ![i] = d])
    /\ \A i \in 1..(Len(card.number) - 1) :
         LET a == card.number[i]
             b == card.number[i + 1]
         IN a # b /\ {a, b} # {0, 9} =>
              ~ isValidCardNumber([card.number EXCEPT ![i] = b, ![i + 1] = a])

\* "Works incrementally as the user types" (brand.ts): a brand, once shown, stays
\* while digits are added at the end.
Lengthened(s, t) == Len(t) > Len(s) /\ Take(t, Len(s)) = s
BrandIsKept ==
  [][Lengthened(card.number, card.number') /\ detectCardBrand(card.number) # "unknown" =>
       detectCardBrand(card.number') = detectCardBrand(card.number)]_formVars

\* "A card is valid through the last instant of its expiration month"
\* (expiration.ts), in every month, across leap days and New Year.
GoodThroughItsMonth ==
  IsMonth(card.month) /\ IsYear(card.year) =>
    (isFutureExpiration(card.month, card.year) <=>
       12 * Numeral(card.year) + Numeral(card.month) >= 12 * Today.year + Today.month)
--------------------------------------------------------------------------------
(* Why the invariants above hold: the draft is what was typed, and a year of   *)
(* four digits is one of this century.                                        *)

FormInv ==
  /\ TypeOK
  /\ typed.number = card.number /\ typed.expiry = ExpiryDigits
  /\ Len(card.year) = 4 => \E a, b \in Digits : card.year = <<2, 0, a, b>>
================================================================================
