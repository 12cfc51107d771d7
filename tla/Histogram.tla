----------------------------- MODULE Histogram ------------------------------
(***************************************************************************)
(* check_histogram_differential (image.cc) on two decoded images: their     *)
(* histograms over hue and saturation, scaled to [0, 1], and the chi-square *)
(* distance between them, in exact arithmetic.  The counts are inputs; of   *)
(* the 256 bins for the 180 hues some are always empty.                     *)
(***************************************************************************)
EXTENDS Integers, FiniteSetsExt

CONSTANTS
  NumBins,
  MaxCount,        \* bound on the pixels in a bin
  InverseTolerance \* distances up to 1 / InverseTolerance count as none

ASSUME HistAssumption == NumBins \in Nat /\ MaxCount \in Nat /\ InverseTolerance \in Nat

VARIABLES
  old, new,        \* old[b], new[b]: pixels per bin (calcHist)
  bin,             \* the next bin for compareHist
  num, den,        \* the sum so far is num / den
  answer           \* "none" yet, "same" or "different"

histVars == <<old, new, bin, num, den, answer>>

Bins == 1 .. NumBins
Histograms ==
  {h \in [Bins -> 0 .. MaxCount] : (\E b \in Bins : h[b] = 0) /\ (\E b \in Bins : h[b] > 0)}

HistTypeOK ==
  /\ old \in Histograms /\ new \in Histograms
  /\ bin \in 1 .. NumBins + 1
  /\ num \in Nat /\ den \in Nat \ {0}
  /\ answer \in {"none", "same", "different"}

HistInit ==
  /\ old \in Histograms
  /\ new \in Histograms
  /\ bin = 1 /\ num = 0 /\ den = 1
  /\ answer = "none"

(* normalize with NORM_MINMAX: (h[b] - min) / (max - min).                  *)
Above(h, b) == h[b] - Min(Range(h))
Span(h) == Max(Range(h)) - Min(Range(h))

(* compareHist, method 1: the sum over the bins that old occupies of        *)
(* (o - n)^2 / o, with o and n the scaled counts.  That is Square(b) /      *)
(* Above(old, b), all divided by Unit.                                      *)
SquareUnscaled(b) == (Above(old, b) - Above(new, b)) * (Above(old, b) - Above(new, b))
Deviation(b) == Above(old, b) * Span(new) - Above(new, b) * Span(old)
Square(b) == Deviation(b) * Deviation(b)
Unit == Span(old) * (Span(new) * Span(new))

AddBin ==
  /\ bin <= NumBins
  /\ IF Above(old, bin) > 0
       THEN /\ num' = num * Above(old, bin) + Square(bin) * den
            /\ den' = den * Above(old, bin)
       ELSE UNCHANGED <<num, den>>
  /\ bin' = bin + 1
  /\ UNCHANGED <<old, new, answer>>

WithinInverted == num <= InverseTolerance * (den * Unit)
Within == InverseTolerance * num <= den * Unit

Compare ==
  /\ bin > NumBins /\ answer = "none"
  /\ answer' = IF Within THEN "same" ELSE "different"
  /\ UNCHANGED <<old, new, bin, num, den>>

HistNext == AddBin \/ Compare

HistSpec == HistInit /\ [][HistNext]_histVars

-----------------------------------------------------------------------------
(* Images with the same colours in the same proportions are never taken for *)
(* different ones by check_histogram_differential, whatever their sizes:    *)
(* scaling undoes the factor.                                               *)
ProportionalIsSame ==
  (\A b \in Bins : old[b] * Span(new) = new[b] * Span(old)) => answer # "different"

(* A change in any colour that the old image has cannot be outweighed by    *)
(* the others: check_histogram_differential says "same" only when each of   *)
(* them is within the tolerance.                                            *)
OldColoursCompared ==
  answer = "same" => \A b \in Bins : Above(old, b) > 0 =>
    InverseTolerance * Square(b) <= Above(old, b) * Unit
=============================================================================
