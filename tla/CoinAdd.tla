------------------------------ MODULE CoinAdd ------------------------------
(***************************************************************************)
(* Adding a coin: the dialog with its two texts, and what the lots that    *)
(* leave it do to the entry of the coin.  PortfolioStore takes lots of     *)
(* ordinary numbers and has everything that can come between a reading and *)
(* a write; here the store answers at once and the numbers are the Doubles *)
(* that a text can be: ordinary, so great that a product overflows, so     *)
(* small that one vanishes, or infinite ("inf", or more digits than a      *)
(* Double holds).                                                          *)
(***************************************************************************)
EXTENDS Integers

CONSTANTS
    Limits,      \* the limits a coin may come with: [atl, ath]
    Values,      \* ordinary numbers that may be typed
    MaxDialogs   \* bound: dialogs opened

ASSUME CoinAddAssumption ==
    /\ Limits \subseteq [atl : Int, ath : Int]
    /\ Values \subseteq Int
    /\ MaxDialogs \in Nat

VARIABLES
    dialog,    \* "none", "open", or "stopped" when the program has stopped
    limits,    \* viewData of the dialog: the lowest and the highest price
    fields,    \* the texts of the two fields
    error,     \* the error label: "hidden", or what it says
    entry,     \* the kinds of the coin's price and quantity in the portfolio
    dialogs,   \* dialogs opened
    lots,      \* history: lots sent by the dialog opened last
    odd        \* history: the kinds of numbers, not ordinary, in all lots of the coin

dialogVars == <<dialog, limits, fields, error, entry, dialogs, lots, odd>>

-----------------------------------------------------------------------------
(* Texts and Doubles. *)

\* What a field may hold: nothing, words that Double(_) refuses, an ordinary
\* number, a positive one whose products may overflow or vanish, or infinity.
Texts ==
    {[kind |-> k, value |-> 0] : k \in {"empty", "words", "tiny", "huge", "infinite"}}
        \union {[kind |-> "usual", value |-> n] : n \in Values}

\* checkForFilledFills.
Filled == \A f \in {"price", "quantity"} : fields[f].kind # "empty"

\* checkIsInRange of 0.0 to infinity, where zero itself is refused.
Positive(text) == text.kind \in {"tiny", "huge", "infinite"} \/ (text.kind = "usual" /\ text.value > 0)

\* checkIsInRange of the limits: what is tiny lies between zero and every ordinary number.
Within(text) ==
    \/ text.kind = "usual" /\ text.value # 0 /\ limits.atl <= text.value /\ text.value <= limits.ath
    \/ text.kind = "tiny" /\ limits.atl <= 0 /\ 0 < limits.ath

\* The kind of a sum; what overflows depends on the digits.
Sum(a, b) ==
    LET either(k) == k \in {a, b}
        both(k) == {a, b} = {k} IN
    IF either("nan") THEN {"nan"}
    ELSE IF either("infinite") THEN {"infinite"}
    ELSE IF both("huge") THEN {"huge", "infinite"}
    ELSE IF either("huge") THEN {"huge"}
    ELSE IF either("usual") THEN {"usual"}
    ELSE IF both("tiny") THEN {"tiny", "usual"}
    ELSE IF either("tiny") THEN {"tiny"} ELSE {"zero"}

\* The kind of a price times a quantity, which is not zero.
Product(p, q) ==
    IF p = "nan" \/ (p = "zero" /\ q = "infinite") THEN {"nan"}
    ELSE IF "infinite" \in {p, q} THEN {"infinite"}
    ELSE IF p = "zero" THEN {"zero"}
    ELSE IF "tiny" \in {p, q}
         THEN IF q = "huge" THEN {"tiny", "usual", "huge"} ELSE {"zero", "tiny", "usual"}
    ELSE IF q = "huge" THEN {"usual", "huge", "infinite"} ELSE {"usual"}

\* The kinds of what may be in the portfolio.
PriceKinds == {"usual", "tiny", "zero", "infinite", "nan"}
QuantityKinds == {"usual", "tiny", "huge", "infinite"}

\* The kind of a cost divided by a quantity.  Of finite numbers it lies between the two
\* prices, but for the rounding of products of what is small.
Quotient(cost, q, small) ==
    IF cost = "nan" \/ (cost = "infinite" /\ q = "infinite") THEN {"nan"}
    ELSE IF cost = "infinite" THEN {"infinite"}
    ELSE IF cost = "zero" \/ q = "infinite" THEN {"zero"}
    ELSE IF small THEN {"zero", "tiny", "usual"} ELSE {"usual"}

\* Whether the mean price may be the kind price when the quantity is now sum.
Averages(price, sum, p, q) ==
    \E a \in Product(entry.price, entry.quantity), b \in Product(p, q) :
    \E cost \in Sum(a, b) :
        price \in Quotient(cost, sum, {entry.price, entry.quantity, p, q} \intersect {"zero", "tiny"} # {})

\* Variant with a defect: the quantity of the lot replaces that of the entry.
MergedReplaces(p, q) ==
    {[price |-> e.price, quantity |-> q] :
        e \in {e \in [price : PriceKinds, quantity : Sum(entry.quantity, q)] : Averages(e.price, e.quantity, p, q)}}

\* FirebaseManager.add for a coin that is there.
Merged(p, q) ==
    {e \in [price : PriceKinds, quantity : Sum(entry.quantity, q)] : Averages(e.price, e.quantity, p, q)}

-----------------------------------------------------------------------------
(* Actions. *)

NoEntry == [price |-> "none", quantity |-> "none"]
Empty == [kind |-> "empty", value |-> 0]

DialogInit ==
    /\ dialog = "none"
    /\ limits \in Limits
    /\ fields = [f \in {"price", "quantity"} |-> Empty]
    /\ error = "hidden"
    /\ entry = NoEntry
    /\ dialogs = 0 /\ lots = 0 /\ odd = {}

\* A new dialog for the coin, with the limits it was listed with.
Open ==
    /\ dialog = "none" /\ dialogs < MaxDialogs
    /\ dialog' = "open"
    /\ dialogs' = dialogs + 1
    /\ limits' \in Limits
    /\ fields' = [f \in {"price", "quantity"} |-> Empty]
    /\ error' = "hidden"
    /\ lots' = 0
    /\ UNCHANGED <<entry, odd>>

\* Typing or pasting into a field.
Type ==
    /\ dialog = "open"
    /\ \E f \in {"price", "quantity"}, t \in Texts : fields' = [fields EXCEPT ![f] = t]
    /\ UNCHANGED <<dialog, limits, error, entry, dialogs, lots, odd>>

\* alertAction, when a field is empty.
TapUnfilled ==
    /\ dialog = "open" /\ ~Filled
    /\ error' = "fieldsIsNotFilled"
    /\ UNCHANGED <<dialog, limits, fields, entry, dialogs, lots, odd>>

\* The range atl...ath of limits the wrong way round stops the program.
TapTraps ==
    /\ dialog = "open" /\ Filled /\ limits.atl > limits.ath
    /\ dialog' = "stopped"
    /\ error' = "hidden"
    /\ UNCHANGED <<limits, fields, entry, dialogs, lots, odd>>

\* alertAction, when a number is missing or out of range.
TapOutOfRange ==
    /\ dialog = "open" /\ Filled /\ limits.atl <= limits.ath
    /\ ~(Within(fields.price) /\ Positive(fields.quantity))
    /\ error' = "outOfRange"
    /\ UNCHANGED <<dialog, limits, fields, entry, dialogs, lots, odd>>

\* The lot reaches the portfolio.
Add(p, q) ==
    /\ IF entry = NoEntry THEN entry' = [price |-> p, quantity |-> q]
                          ELSE entry' \in Merged(p, q)
    /\ lots' = lots + 1
    /\ odd' = odd \union ({p, q} \ {"usual"})

\* Variant with a defect: the dialog stays open.
TapAddStays ==
    /\ dialog = "open" /\ Filled /\ limits.atl <= limits.ath
    /\ Within(fields.price) /\ Positive(fields.quantity)
    /\ Add(fields.price.kind, fields.quantity.kind)
    /\ error' = "hidden"
    /\ UNCHANGED <<dialog, limits, fields, dialogs>>

\* alertAction, when both numbers are in range: add and dismiss.
TapAdd ==
    /\ dialog = "open" /\ Filled /\ limits.atl <= limits.ath
    /\ Within(fields.price) /\ Positive(fields.quantity)
    /\ Add(fields.price.kind, fields.quantity.kind)
    /\ dialog' = "none"
    /\ error' = "hidden"
    /\ UNCHANGED <<limits, fields, dialogs>>

Cancel ==
    /\ dialog = "open"
    /\ dialog' = "none"
    /\ UNCHANGED <<limits, fields, error, entry, dialogs, lots, odd>>

\* The coin is swiped away in the wallet.
Delete ==
    /\ dialog = "none" /\ entry # NoEntry
    /\ entry' = NoEntry
    /\ UNCHANGED <<dialog, limits, fields, error, dialogs, lots, odd>>

DialogNext ==
    \/ Open \/ Type \/ Cancel \/ Delete
    \/ TapUnfilled \/ TapTraps \/ TapOutOfRange \/ TapAdd

DialogSpec == DialogInit /\ [][DialogNext]_dialogVars

-----------------------------------------------------------------------------
(* Properties. *)

DialogTypeOK ==
    /\ dialog \in {"none", "open", "stopped"}
    /\ limits \in Limits
    /\ fields \in [{"price", "quantity"} -> Texts]
    /\ error \in {"hidden", "fieldsIsNotFilled", "outOfRange"}
    /\ entry = NoEntry \/ entry \in [price : PriceKinds, quantity : QuantityKinds]
    /\ dialogs \in 0 .. MaxDialogs /\ lots \in Nat /\ odd \subseteq {"tiny", "huge", "infinite"}

\* A dialog that is still there has sent nothing, so that what is tapped after an
\* error never adds a lot twice; one that is gone has sent at most one
\* (CoinAddViewPresenter 32-51).
OpenHasSentNothing == lots <= (IF dialog = "open" THEN 0 ELSE 1)

\* Types, and a dialog that sends one lot and closes.
DialogConsistent == DialogTypeOK /\ OpenHasSentNothing

\* The mean price of a coin is an ordinary number unless a lot shows why not: one with a
\* number so small that products vanish brings it down to nothing, else only an infinite
\* quantity does; it overflows only with a quantity that stays great to be seen; and the
\* quantity is great only by a lot that was.  No order of ordinary lots spoils either
\* (FirebaseManager 59-66 after the ranges of CoinAddViewPresenter 38, which take in
\* infinity and all that is above zero).
SpoiltByItsLots ==
    /\ entry.price \in {"zero", "tiny"} => "tiny" \in odd \/ entry.quantity = "infinite"
    /\ entry.price \in {"infinite", "nan"} => entry.quantity \in {"huge", "infinite"}
    /\ entry.quantity \in {"huge", "infinite"} => odd \intersect {"huge", "infinite"} # {}

=============================================================================
