------------------------------- MODULE MCRig -------------------------------
(* Two sources whose leads share the bus crosspoint with the meter's       *)
(* route, one of them connected once or twice; a resistance at its pin;    *)
(* readings on two channels of one RF bank, one behind a card that no      *)
(* instrument switches.                                                    *)
EXTENDS Rig

McElements == {"lead6", "lead7", "bus", "meter", "rf1", "rf2", "vxi"}
McPaths ==
  [DcP6   |-> <<"lead6", "bus">>,
   again  |-> <<"lead6", "bus">>,
   DcP7   |-> <<"lead7", "bus">>,
   ohms   |-> <<"meter", "bus">>,
   clock1 |-> <<"rf1">>,
   clock2 |-> <<"vxi", "rf2">>]
McReadings == {"ohms", "clock1", "clock2"}
McSourceOf == [DcP6 |-> "DcP6", again |-> "DcP6", DcP7 |-> "DcP7"]
McLandsAt == [ohms |-> "DcP6", clock1 |-> "none", clock2 |-> "none"]
McBanks == {{"rf1", "rf2"}}
McDriven == McElements \ {"vxi"}
=============================================================================
