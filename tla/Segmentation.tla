---------------------------- MODULE Segmentation ----------------------------
(***************************************************************************)
(* The gateway's encoding and segmentation engine and its pricing          *)
(* calculator (spec 4.1 and 4.2).  The engine is not in this repository:   *)
(* these operators are modelled from the spec, and the client pages and    *)
(* the load test consume them through POST /check and POST /otp/send.      *)
(*                                                                         *)
(* A text is a sequence of runs [cls, n]: n consecutive code points of one *)
(* class.  The classes are what the algorithm tells apart: a character of  *)
(* the GSM 03.38 default table ("gsm"), of its extension table ("ext",     *)
(* two septets), any other code point of the Basic Multilingual Plane     *)
(* ("bmp"), and a code point beyond it ("astral", two UTF-16 code units).  *)
(***************************************************************************)
EXTENDS Integers, SequencesExt

CONSTANTS
    MaxParts,   \* the configured maximum part count (default 6)
    RateTable   \* number prefix -> [service, promo] unit prices

Classes == {"gsm", "ext", "bmp", "astral"}

\* Extension characters count twice toward a GSM7 length.
Septets(cls) == IF cls = "ext" THEN 2 ELSE 1

\* A code point beyond the BMP is a surrogate pair in UCS2.
CodeUnits(cls) == IF cls = "astral" THEN 2 ELSE 1

\* Scan every code point once: whether all of them are in the GSM 03.38
\* default and extension repertoire, and the length in septets and in
\* UCS2 code units.
RECURSIVE Scan(_, _)
Scan(text, acc) ==
    IF text = <<>> THEN acc
    ELSE LET r == Head(text)
         IN  Scan(Tail(text),
                  [gsm     |-> acc.gsm /\ r.cls \in {"gsm", "ext"},
                   septets |-> acc.septets + r.n * Septets(r.cls),
                   units   |-> acc.units + r.n * CodeUnits(r.cls)])

Scanned(text) == Scan(text, [gsm |-> TRUE, septets |-> 0, units |-> 0])

Encoding(text) == IF Scanned(text).gsm THEN "GSM7" ELSE "UCS2"

\* The rendered length in the encoding's units.
Length(text) ==
    IF Encoding(text) = "GSM7" THEN Scanned(text).septets ELSE Scanned(text).units

SingleBudget(enc) == IF enc = "GSM7" THEN 160 ELSE 70

\* Each segment of a concatenated message loses its UDH: 7 septets or 3
\* code units.
MultiBudget(enc) == SingleBudget(enc) - (IF enc = "GSM7" THEN 7 ELSE 3)

\* part_count = 1 within the single-segment budget, else
\* ceil(length / multi_segment_budget).
PartCount(text) ==
    LET len == Length(text)  enc == Encoding(text)
    IN  IF len <= SingleBudget(enc) THEN 1
        ELSE (len + MultiBudget(enc) - 1) \div MultiBudget(enc)

MessageTooLong(text) == PartCount(text) > MaxParts

\* Pricing: the longest rate-table prefix of the destination's digits
\* (UnknownDestination when none matches), its service or promotional
\* unit price, times the part count.
Matches(dest) == {p \in DOMAIN RateTable : IsPrefix(p, dest)}

UnknownDestination(dest) == Matches(dest) = {}

LongestPrefix(dest) ==
    CHOOSE p \in Matches(dest) : \A q \in Matches(dest) : Len(q) <= Len(p)

Price(dest, promo, text) ==
    LET rate == RateTable[LongestPrefix(dest)]
    IN  (IF promo THEN rate.promo ELSE rate.service) * PartCount(text)

====
