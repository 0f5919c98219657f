----------------------------- MODULE MCSupport -----------------------------
(***************************************************************************)
(* Support for TLC.                                                        *)
(***************************************************************************)
EXTENDS Support, Sequences, TLC

MCThisMonth == [year |-> 2025, month |-> 6]

(* Numbers are a prefix and two digits, of 12 (too short), 13, 15, 16 and  *)
(* 19 figures in all; among them are Visa's test numbers and two of the    *)
(* suspicious patterns.                                                    *)
Zeros == <<0, 0, 0, 0, 0>>
Prefixes == {
  <<4, 2, 2, 2, 2, 2, 2, 2, 2, 2>>,
  <<4, 2, 2, 2, 2, 2, 2, 2, 2, 2, 2>>,
  <<3, 7, 8, 2, 8, 2, 2, 4, 6, 3, 1, 0, 0>>,
  <<4, 2, 4, 2, 4, 2, 4, 2, 4, 2, 4, 2, 4, 2>>,
  <<5, 5, 5, 5, 5, 5, 5, 5, 5, 5, 5, 5, 4, 4>>,
  <<4>> \o Zeros \o Zeros \o <<0, 0, 0>>,
  <<4>> \o Zeros \o Zeros \o <<0, 0, 1>>,
  <<4>> \o Zeros \o Zeros \o <<0, 0, 2>>,
  <<0, 0, 0, 0>> \o Zeros \o Zeros,
  <<1, 2, 3, 4, 5, 6, 7, 8, 9, 0, 1, 2, 3, 4>>,
  <<4, 9, 1, 7, 6, 1, 0, 0, 0, 0, 0, 0, 0, 0, 0, 3, 9>>}
Pans == {p \o <<a, b>> : p \in Prefixes, a \in 0 .. 9, b \in 0 .. 9}

Good(pan) ==
  [pan |-> pan, spaced |-> FALSE, month |-> 12, year |-> 2025,
   cvv |-> IF pan[1] = 3 THEN 4 ELSE 3, address |-> TRUE, name |-> TRUE]
Sample == Good(<<4, 2, 4, 2, 4, 2, 4, 2, 4, 2, 4, 2, 4, 2, 4, 2>>)

(* Every number on a good card, typed either way; one number on cards that *)
(* expire around now, and on cards with something missing.                 *)
MCCards ==
  {[Good(pan) EXCEPT !.spaced = s] : pan \in Pans, s \in BOOLEAN}
  \cup {[Sample EXCEPT !.month = m, !.year = y] : m \in {0, 5, 6, 7, 13}, y \in 2024 .. 2026}
  \cup {[Sample EXCEPT !.cvv = v, !.address = a, !.name = n] :
          v \in {3, 4}, a \in BOOLEAN, n \in BOOLEAN}

MCSuspicious == {
  <<0, 0, 0, 0>> \o Zeros \o Zeros \o <<0, 0>>,
  <<1, 1, 1, 1, 1, 1, 1, 1, 1, 1, 1, 1, 1, 1, 1, 1>>,
  <<1, 2, 3, 4, 5, 6, 7, 8, 9, 0, 1, 2, 3, 4, 5, 6>>}

MCDeclined == {<<4>> \o Zeros \o Zeros \o <<0, 0>> \o last :
                 last \in {<<0, 0, 2>>, <<1, 1, 9>>, <<2, 5, 9>>}}

(* Two events, of two types.                                               *)
MCType(e) == <<"t1", "t2">>[e]

(* A country, one of its jurisdictions, and nowhere.                       *)
MCPlaces == {[country |-> "US", jurisdiction |-> None], [country |-> "US", jurisdiction |-> "NY"],
             [country |-> None, jurisdiction |-> None]}

(* 0, 8.875 (stored as 8.88), 25 and 150 percent, and one too large for    *)
(* the column.                                                             *)
MCPercentages == {0, 8875, 25000, 150000, 1000000}

(* With 25 percent, every fourth amount is an exact half; refunded amounts *)
(* are negative.                                                           *)
MCTaxedAmounts == -2 .. 6 \cup {9999}

Symmetry == Permutations(Handlers) \cup Permutations(Rates)
=============================================================================
