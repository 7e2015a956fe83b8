------------------------------- MODULE MCWire -------------------------------
(***************************************************************************)
(* Instruments that send frames of 12 to 16 bytes, one of them damaged,    *)
(* where 13 is the limit, and a controller or a program; and a keyboard    *)
(* that selects numbers of each kind, the null number among them, and      *)
(* enters values, on two channels.                                         *)
(***************************************************************************)
EXTENDS Wire
Frame(d) == encode(Dt1(TEMP_PATCH, d), 16)
Instrument == { Frame(<<1>>), Frame(<<4, 5, 6, 7, 8>>), <<176, 7, 1>> }
Another ==
  { Frame(<<2, 3>>), [Frame(<<9>>) EXCEPT ![11] = 1], <<192, 5>> }
Keyboard ==
  { <<176, 99, 1, 98, 2>>, <<176, 98, 3, 6, 4>>, <<176, 38, 5>>,
    <<176, 101, 127, 100, 127>>, <<176, 100, 0, 6, 7>>, <<177, 6, 8>>,
    <<176, 0, 1>>, <<144, 60, 64>>, Frame(<<1>>) }
MCPlayers == {Instrument, Another, Keyboard}
=============================================================================
