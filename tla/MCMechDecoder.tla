--------------------------- MODULE MCMechDecoder ---------------------------
(* MechDecoder for TLC: every LiDAR with a table of its own, three ways to    *)
(* split and wait, and a field of view all around, with a dark sector, or     *)
(* across the zero angle.                                                    *)
EXTENDS MechDecoder

SomeSensors ==
    ({"RS16", "RSHELIOS_16P", "RS32", "RSBP", "RS128", "RSP48"} \X {0})
    \cup {<<"RSAIRY", 48>>, <<"RSAIRY", 96>>, <<"RSFAIRY", 48>>}

SomeConfigs ==
    { [wait |-> TRUE,  fromFile |-> TRUE,  strategy |-> "angle",  custom |-> 12],
      [wait |-> FALSE, fromFile |-> FALSE, strategy |-> "fixed",  custom |-> 12],
      [wait |-> TRUE,  fromFile |-> FALSE, strategy |-> "custom", custom |-> 12] }

SomeFovs == {<<0, 96>>, <<20, 84>>, <<94, 62>>}
=============================================================================
