---------------------------- MODULE MCExpireTiles ----------------------------
(* One tile that is not the first of its metatile, with children.           *)
EXTENDS ExpireTiles

MCExpireInputs == {<<Line("tile", Xyz(1, 0, 1))>>}
MCUrlHosts(t, p) == IF p THEN <<t.z % 2>> ELSE <<(t.z + 1) % 2>>
MCOrderOf(tiles) == FoldSet(LAMBDA t, order : Append(order, t), <<>>, tiles)
=============================================================================
