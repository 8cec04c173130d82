----------------------------- MODULE MCPlayback -----------------------------
(* Playback for TLC.                                                       *)
EXTENDS Playback, TLC

Source(provider, ref, quality, has_url) ==
    [provider |-> provider, ref |-> ref, quality |-> quality, has_url |-> has_url]

MCSources == {Source("p", 1, "hd", TRUE), Source("q", 1, "hd", TRUE),
              Source("q", 2, "uhd", FALSE)}

(* q is preferred.                                                         *)
MCPriority == ("p" :> 1) @@ ("q" :> 2)

(* One position is near the end of one duration and halfway in another.    *)
MCSavedProgress ==
    {[position |-> 50, duration |-> 100], [position |-> 95, duration |-> 100],
     [position |-> 95, duration |-> 190]}

Symmetry == Permutations(Clients)
=============================================================================
