----------------------------- MODULE MCPreflight -----------------------------
(* A desk: a scope with a generator in it, on a pool of two; a supply; a     *)
(* switch unit whose meter is not there; and a source that answers from its  *)
(* hooks.                                                                    *)
EXTENDS Preflight

MCFaces == <<"Osc", "Wfg", "Dcp", "Swu", "Dmm", "Acp">>
MCBoxOf == [Osc |-> "Scope", Wfg |-> "Scope", Dcp |-> "Psu", Swu |-> "Rack", Dmm |-> "Rack", Acp |-> "Acp"]
MCTable == [Osc |-> "usb1", Wfg |-> "usb1", Dcp |-> "usb3", Swu |-> "lan1", Dmm |-> "sim", Acp |-> "gpib"]
MCPanel == [f \in {"Osc", "Wfg", "Dcp"} |-> {"usb"}] @@ [f \in {"Swu", "Dmm"} |-> {"usb", "lan"}] @@ [Acp |-> {"gpib"}]
MCPool == [Scope |-> <<"usb1", "usb2">>, Psu |-> <<>>, Rack |-> <<>>, Acp |-> <<>>]
MCKinds == [usb1 |-> "usb", usb2 |-> "usb", usb3 |-> "usb", lan1 |-> "lan", gpib |-> "gpib", sim |-> "sim"]
MCSiteAddress == {<<<<"bench2", "Psu">>, "usb2">>}
MCFlags == {<<"Psu", "usb2">>, <<"Scope", "gpib">>, <<"Rack", "sim">>, <<"Osc", "sim">>, <<"Acp", "sim">>, <<"Dcp", "usb1">>}
MCExports == {<<"Psu", "usb1">>, <<"Dcp", "usb1">>, <<"Other", "usb1">>}
MCSerials == [u1 |-> "s1", u2 |-> "s2", u3 |-> "none"]
=============================================================================
