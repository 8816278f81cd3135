----------------------------- MODULE MCRegistry -----------------------------
(* An instance of Registry for TLC: a public image and a private one that  *)
(* share their first layer.                                                *)
EXTENDS Registry, TLC

CONSTANTS public, private, base, top

MCImages   == {public, private}
MCPrivate  == {private}
MCBlobs    == {base, top}
MCManifest == public :> <<base>> @@ private :> <<base, top>>
MCDamaged  == {base}
=============================================================================
