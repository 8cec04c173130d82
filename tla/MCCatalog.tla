---------------------------- MODULE MCCatalog ----------------------------
(* Catalog for TLC.                                                        *)
EXTENDS Catalog, TLC

Source(ref, quality) == [ref |-> ref, quality |-> quality, provider |-> "p"]

MCSources == {Source("r1", "hd"), Source("r2", "hd"), Source("r3", "uhd")}

MCExternalIds == {[source |-> "mal", value |-> 1], [source |-> "mal", value |-> 2]}

(* An ingestion may find episodes 1 and 3, or 1 and 2 with two sources.    *)
MCListings ==
    LET bare == [p \in Positions |-> IF p \in {<<1, 1>>, <<1, 3>>}
                                     THEN NewEpisode ELSE NoEpisode]
        two  == [NewEpisode EXCEPT !.sources = <<Source("r1", "hd"), Source("r3", "uhd")>>]
    IN  {bare, [p \in Positions |-> IF p \in {<<1, 1>>, <<1, 2>>}
                                    THEN two ELSE NoEpisode]}

Symmetry == Permutations(AnimeIds) \cup Permutations(Slugs)
=============================================================================
