------------------------------- MODULE MCNvram -------------------------------
(* Two blocks, a cache with room for two settings beside three names, and    *)
(* the daemon with one or two other processes.                               *)
EXTENDS Nvram

MCBlockOf == [p \in All |-> 1]
MCFactory == <<Ones, [n \in {"a"} |-> "1"]>>
MCDefaults == <<WebInit, "a">>
MCUserFiles == {<<>>, <<WebInit>>}
MCNames == {WebInit, "a", "x"}
MCUserValues == {"2"}
=============================================================================
