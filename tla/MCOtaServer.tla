---------------------------- MODULE MCOtaServer ----------------------------
(***************************************************************************)
(* Instances of OtaServer: a magic unit, two firmware units, and header    *)
(* units that announce images of one and of three units.  Every other unit *)
(* taken for a header announces an empty image or one that does not fit.   *)
(***************************************************************************)
EXTENDS OtaServer

CONSTANTS m, fill, a, b, one, three, first

MCUnits == {m, fill, a, b, one, three}

MCSizeOf ==
    [u \in MCUnits |->
        CASE u = one -> 1 [] u = three -> 3 [] u = fill -> 5 [] OTHER -> 0]

MCCrcOf ==
    [u \in MCUnits |->
        CASE u = one   -> << b >>
          [] u = three -> << a, b, b >>
          [] OTHER     -> << >>]

\* the first client sends an image of three units, the others one of one unit
TwoImages ==
    [c \in Conns |-> IF c = first THEN << m, three, a, b, b >> ELSE << m, one, b >>]
=============================================================================
