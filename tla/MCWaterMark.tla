---------------------------- MODULE MCWaterMark ----------------------------
(***************************************************************************)
(* An instance of WaterMark: icons of even and of odd size, and one too    *)
(* wide for the row.                                                       *)
(***************************************************************************)
EXTENDS WaterMark

MCIconSizes == {<<2, 2>>, <<1, 3>>, <<4, 2>>}

Time(y, mo, d, h, mi, s) ==
  [year |-> y, mon |-> mo, mday |-> d, hour |-> h, min |-> mi, sec |-> s]

MCTimes == {Time(2016, 2, 29, 9, 5, 0), Time(9999, 12, 31, 23, 59, 60)}
=============================================================================
