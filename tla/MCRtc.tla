------------------------------- MODULE MCRtc -------------------------------
(* Switched on a little before the end of a century, of February in two leap *)
(* years, and before the noon of the last day of a month.                    *)
EXTENDS Rtc

At(y, m, d, h) == [year |-> y, month |-> m, day |-> d, hour |-> h]

MCStarts == {At(1999, 12, 31, 23), At(2000, 2, 29, 23), At(2024, 2, 28, 23), At(2022, 6, 30, 10)}
=============================================================================
