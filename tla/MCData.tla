------------------------------- MODULE MCData --------------------------------
(***************************************************************************)
(* Instances of Data for TLC: each component at its own bounds, which the  *)
(* configuration gives.                                                    *)
(***************************************************************************)
EXTENDS Data, TLC

\* The script fills the first bars.
Fills == {0 .. 1}

\* Caps that bind no regime, and both.
Caps ==
  {"trend" :> 3 @@ "neutral" :> 3, "trend" :> 1 @@ "neutral" :> 0}

\* Closes that break out upwards, stay, and fall back.
Paths == {<<1, 2, 3, 3, 1, 2, 2>>}

Horizons == <<"1h", "4h">>

Sym == Permutations(Callers)
=============================================================================
