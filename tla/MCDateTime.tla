----------------------------- MODULE MCDateTime -----------------------------
(***************************************************************************)
(* Clocks started next to leap days that are and are not, and to the ends  *)
(* of years, moved by minutes, days, months and years.                     *)
(***************************************************************************)
EXTENDS DateTime

SomeDates ==
    {<<1900, 1, 1, 0, 0>>, <<1900, 2, 28, 23, 59>>, <<1999, 12, 31, 23, 59>>, <<2000, 2, 28, 12, 0>>,
     <<2020, 12, 31, 0, 30>>, <<2100, 3, 1, 0, 0>>}

SomeMinutes == {1, -1, 59, -61, 1440, -1441, 44641, -44640, 527040, -525600}
=============================================================================
