----------------------------- MODULE Valuation -----------------------------
(***************************************************************************)
(* What the screens say a portfolio is worth.  The price of a coin becomes *)
(* a text (CoinModelParser.cutString), the text becomes a number again in  *)
(* the rows of the wallet, their sum is the total under the bag, and the   *)
(* pie chart cuts each row and the sum of the cut rows once more.          *)
(*                                                                         *)
(* The number in a text is in thousandths, a Double in grains, of which a  *)
(* thousandth has Fine; a quantity is in parts of a piece, of which a piece *)
(* has Fine too, so that a quantity times a text is in grains again.        *)
(*                                                                         *)
(* A Double is [size, whole]: its value to the grain, and whether           *)
(* truncatingRemainder(1) is zero.  One that is not whole may be a whole    *)
(* number of grains of 1 all the same: a product or a sum of decimal        *)
(* fractions that misses its value by the last bit.                         *)
(***************************************************************************)
EXTENDS Integers, FiniteSetsExt

CONSTANTS
    Coins,       \* coins that may be held
    Prices,      \* the Doubles that the price service may send
    Holdings,    \* what may be held of a coin: [quantity, cost]
    Fine         \* grains of a thousandth, and parts of a piece

ASSUME ValuationAssumption ==
    /\ Fine \in Nat \ {0}
    /\ IsFiniteSet(Coins)
    /\ Prices \subseteq [size : Nat, whole : BOOLEAN]
    /\ \A p \in Prices : p.whole => p.size % (1000 * Fine) = 0
    /\ Holdings \subseteq [quantity : Nat, cost : Nat]

VARIABLES
    held,    \* data: what is held of each coin bought
    market,  \* the prices last sent of the coins that have a row
    rows,    \* viewCellData: the value of each row
    label,   \* the total, the change of price and its colour
    chart    \* the slices and the text in the hole of the pie chart

vars == <<held, market, rows, label, chart>>

Blank == [shown |-> FALSE]

Abs(n) == IF n < 0 THEN -n ELSE n
Total(f) == MapThenSumSet(LAMBDA c : f[c], DOMAIN f)

-----------------------------------------------------------------------------
(* Doubles. *)

\* A Double of n grains: whole or not where the computation may miss n.
Doubles(n, exact) ==
    {[size |-> n, whole |-> w] : w \in IF n % (1000 * Fine) # 0 THEN {FALSE}
                                        ELSE IF exact THEN {TRUE} ELSE BOOLEAN}

\* quantity times the number in a text.
Products(quantity, text) == Doubles(quantity * text, quantity % Fine = 0 /\ text % 1000 = 0)

-----------------------------------------------------------------------------
(* cutString. *)

\* round(number * 1000) / 1000: a value halfway goes either way, being that only to the grain.
Thousandths(n) == {m \in (n \div Fine) .. (n \div Fine + 1) : 2 * Abs(Fine * m - n) <= Fine}

\* "%.2f" of thousandths: hundredths; a 5 in the third place goes either way.
TwoPlaces(m) == {h \in (m \div 10) .. (m \div 10 + 1) : Abs(10 * h - m) <= 5}

\* The hundredths of a Double, rounded twice.
Hundredths(d) == UNION {TwoPlaces(m) : m \in Thousandths(d.size)}

\* What is left of a whole number when the zeros at its end are removed.
Stripped[w \in Nat] == IF w = 0 \/ w % 10 # 0 THEN w ELSE Stripped[w \div 10]

\* Variant with a defect: one place after the point.
CutStringShort(d) ==
    IF d.whole THEN {d.size \div Fine}
    ELSE {100 * t : t \in UNION {{t \in (m \div 100) .. (m \div 100 + 1) : Abs(100 * t - m) <= 50} :
                                     m \in Thousandths(d.size)}}

\* The number in the text: the zeros at the end of a fraction say nothing, but
\* the loop goes on through the point and into the whole number.
CutString(d) ==
    IF d.whole THEN {d.size \div Fine}
    ELSE {IF h % 100 = 0 THEN 1000 * Stripped[h \div 100] ELSE 10 * h : h \in Hundredths(d)}

-----------------------------------------------------------------------------
(* The screens. *)

\* The Double in the row of coin c, whose price is shown as text.
Worth(c, text) == Products(held[c].quantity, text)

\* viewCellData, didSet: two sums that are equal on paper may compare either way.
Label(total) ==
    LET cost == Total([c \in DOMAIN held |-> held[c].cost]) IN
    {[shown |-> TRUE, total |-> total, change |-> Abs(total - cost), green |-> g] :
        g \in IF total = cost THEN BOOLEAN ELSE {total > cost}}

Init ==
    /\ \E S \in SUBSET Coins : held \in [S -> Holdings]
    /\ market = Blank
    /\ rows = Blank
    /\ label = Blank
    /\ chart = Blank

\* An answer of the price service: each price is cut, and the rows are set; there is none
\* for a coin that is not in the answer or whose image could not be loaded.  The chart is
\* a copy: an answer that comes under it is as one that comes after it.
PricesCome ==
    /\ ~chart.shown
    /\ \E listed \in SUBSET DOMAIN held :
       \E prices \in [listed -> Prices] :
       \E texts \in [listed -> UNION {CutString(d) : d \in Prices}] :
           /\ \A c \in listed : texts[c] \in CutString(prices[c])
           /\ \E worth \in [listed -> UNION {Worth(c, texts[c]) : c \in listed}] :
                 /\ \A c \in listed : worth[c] \in Worth(c, texts[c])
                 /\ market' = [shown |-> TRUE, prices |-> prices]
                 /\ rows' = [shown |-> TRUE, worth |-> worth]
                 /\ label' \in Label(Total([c \in listed |-> worth[c].size]))
    /\ UNCHANGED <<held, chart>>

\* The coins that have a row.
Listed == DOMAIN rows.worth

\* Variant with a defect: the total is set to each slice, not increased by it.
ShowChartLastSlice ==
    /\ rows.shown /\ ~chart.shown
    /\ \E slices \in [Listed -> UNION {CutString(rows.worth[c]) : c \in Listed}] :
          /\ \A c \in Listed : slices[c] \in CutString(rows.worth[c])
          /\ \E c \in Listed :
                chart' = [shown |-> TRUE, slices |-> slices, centre |-> slices[c]]
    /\ UNCHANGED <<held, market, rows, label>>

\* The chart is opened on a copy of the rows; every time it is a new one.
\* The slices are Doubles read from texts, whole if the texts have no point.
ShowChart ==
    /\ rows.shown /\ ~chart.shown
    /\ \E slices \in [Listed -> UNION {CutString(rows.worth[c]) : c \in Listed}] :
          /\ \A c \in Listed : slices[c] \in CutString(rows.worth[c])
          /\ \E sum \in Doubles(Fine * Total(slices), \A c \in Listed : slices[c] % 1000 = 0) :
             \E centre \in CutString(sum) :
                chart' = [shown |-> TRUE, slices |-> slices, centre |-> centre]
    /\ UNCHANGED <<held, market, rows, label>>

\* The sheet with the chart is closed.
CloseChart ==
    /\ chart.shown
    /\ chart' = Blank
    /\ UNCHANGED <<held, market, rows, label>>

Next == PricesCome \/ ShowChart \/ CloseChart

Spec == Init /\ [][Next]_vars

-----------------------------------------------------------------------------
(* Properties. *)

TypeOK ==
    /\ DOMAIN held \subseteq Coins
    /\ \A c \in DOMAIN held : held[c] \in Holdings
    /\ market.shown = rows.shown /\ rows.shown = label.shown
    /\ rows.shown =>
          /\ Listed \subseteq DOMAIN held /\ DOMAIN market.prices = Listed
          /\ \A c \in Listed : market.prices[c] \in Prices
          /\ \A c \in Listed : rows.worth[c].whole => rows.worth[c].size % (1000 * Fine) = 0
          /\ label.total \in Nat /\ label.change \in Nat
    /\ chart.shown => rows.shown /\ chart.centre \in Nat /\ DOMAIN chart.slices = Listed

\* A Double whose last digits before the point are taken for zeros of the
\* fraction: next to a multiple of ten, and not whole.
LosesDigits(d) == ~d.whole /\ \E h \in Hundredths(d) : h # 0 /\ h % 1000 = 0

\* What is held of the coins that have a row, what that is worth at the prices sent,
\* in Fineths of a grain, and what all that is held was bought for.
Pieces == Total([c \in Listed |-> held[c].quantity])
TrueWorth == Total([c \in Listed |-> held[c].quantity * market.prices[c].size])
Cost == Total([c \in DOMAIN held |-> held[c].cost])

KeepsDigits == \A c \in Listed : ~LosesDigits(market.prices[c])

\* The total under the bag is never more than what the coins in the rows are worth at the
\* prices sent, but for 0.0055 a piece, the error of rounding twice; and as long as no
\* price is next to a multiple of ten never less than that: digits that are lost only make
\* it less (CoinModelParser 40-57 and WalletViewPresenter 42-61, where the cut text of a
\* price is what a coin is multiplied with).  A coin without a row counts for nothing.
TotalIsClose ==
    label.shown =>
        /\ 2 * Fine * label.total <= 2 * TrueWorth + 11 * Fine * Pieces
        /\ KeepsDigits => 2 * TrueWorth <= 2 * Fine * label.total + 11 * Fine * Pieces

\* A loss that is more than the rounding is never shown as a gain, whatever coins have no
\* row; and a gain of the coins in the rows over all that was spent, if it is more than
\* the rounding and no price next to a multiple of ten, never as a loss
\* (WalletViewPresenter 24-39).
ColourTellsTheGain ==
    label.shown =>
        /\ 2 * TrueWorth + 11 * Fine * Pieces < 2 * Fine * Cost => ~label.green
        /\ KeepsDigits /\ 2 * TrueWorth > 2 * Fine * Cost + 11 * Fine * Pieces => label.green

\* Types, and a total and a colour that are right but for rounding.
WorthIsRight == TypeOK /\ TotalIsClose /\ ColourTellsTheGain

\* How many rows are not a number of hundredths, and have to be rounded for their slice.
Rounded == Total([c \in Listed |-> IF rows.worth[c].size % (10 * Fine) = 0 THEN 0 ELSE 1])

\* The text in the hole of the chart is never more than the sum of its slices, and the same
\* unless that is a multiple of ten; and the slices are together the total of the wallet,
\* but for 0.0055 for each row that is no number of hundredths, and never less but for
\* that unless a row is next to a multiple of ten (PieChartViewPresenter 20-31).
ChartAgreesWithWallet ==
    [][chart'.shown /\ ~chart.shown =>
        LET sum == Total(chart'.slices) IN
        /\ chart'.centre <= sum
        /\ sum = 0 \/ sum % 10000 # 0 => chart'.centre = sum
        /\ 2 * Fine * sum <= 2 * label.total + 11 * Fine * Rounded
        /\ \/ 2 * label.total <= 2 * Fine * sum + 11 * Fine * Rounded
           \/ \E c \in Listed : LosesDigits(rows.worth[c])]_vars

=============================================================================
