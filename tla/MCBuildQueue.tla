----------------------------- MODULE MCBuildQueue -----------------------------
(***************************************************************************)
(* Instances of BuildQueue for TLC.                                        *)
(***************************************************************************)
EXTENDS BuildQueue, TLC

CONSTANTS p1, a1, a2, h1, h2

LocalConfig  == [executor |-> "local", profiles |-> {}]
MacConfig    == [executor |-> "mac", profiles |-> {}]
UnityConfig  == [executor |-> "unity", profiles |-> {"mac", "win"}]

OnlyLocal    == {LocalConfig}
LocalOrMac   == {LocalConfig, MacConfig}
LocalOrUnity == {LocalConfig, UnityConfig}
RemoteOnly   == {MacConfig, UnityConfig}

ServesMac    == [a \in Agents |-> {"mac"}]
ServesMixed  == [a \in Agents |-> IF a = a1 THEN {"mac"} ELSE {"unity", "win"}]

HandlerSymmetry == Permutations(Handlers)
===============================================================================
