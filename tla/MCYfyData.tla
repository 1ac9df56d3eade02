----------------------------- MODULE MCYfyData -----------------------------
(***************************************************************************)
(* Tables with a row of each sort (numbers of one and two bytes, bits),    *)
(* and frames for two modules, for a group, for one that does not exist,   *)
(* and for the system.                                                     *)
(***************************************************************************)
EXTENDS YfyData

Row(cmd_, from_, to_, bit_) == [cmd |-> cmd_, from |-> from_, to |-> to_, bit |-> bit_]

Tables ==
    [module |-> << Row(3, 0, 2, 0), Row(3, 2, 4, 0), Row(4, 2, 3, 0), Row(4, 3, 3, 0), Row(4, 3, 3, 1) >>,
     group  |-> << Row(1, 0, 2, 0), Row(1, 2, 4, 0), Row(2, 2, 3, 0) >>,
     system |-> << Row(1, 0, 2, 0), Row(1, 2, 4, 0), Row(2, 2, 3, 0) >>]

Frame(dev_, cmd_, addr_, data_) == [dev |-> dev_, cmd |-> cmd_, addr |-> addr_, data |-> data_]

TestFrames ==
    {Frame(10, 3, 0, << 1, 2, 3, 4 >>), Frame(10, 4, 1, << 0, 0, 7, 2 >>), Frame(11, 1, 2, << 4, 0, 0, 8 >>),
     Frame(11, 1, 3, << 9, 9, 9, 9 >>), Frame(10, 1, 63, << 5, 6, 7, 8 >>)}
=============================================================================
