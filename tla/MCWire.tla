------------------------------- MODULE MCWire -------------------------------
(***************************************************************************)
(* Model checking of Geometry and AuxBlob: the header and the blob of a    *)
(* sample are examined one at a time.  A byte is a bit and a length is two *)
(* of them.                                                                *)
(***************************************************************************)
EXTENDS Geometry, AuxBlob

MCTexts    == {<<0>>, <<1>>, <<0, 1, 1>>}
MCUtf8     == BoundedSeq({0, 1}, 3) \ {<<1, 0>>, <<1, 1, 1>>}
MCCapsText == MCUtf8 \ {<<>>, <<0, 0>>, <<0, 0, 0>>}
MCPayloads == {<<>>, <<1>>, <<1, 0>>}

NoHeader ==
  /\ origin = "-" /\ payload = 0 /\ header = "-" /\ verdict = "-" /\ view = "-"
NoBlob ==
  /\ path = "-" /\ caps = <<>> /\ metas = <<>> /\ tail = <<>>
  /\ stage = "-" /\ got = Nothing

Init ==
  \/ GeoInit /\ NoBlob
  \/ AuxInit /\ NoHeader

Next ==
  \/ path = "-" /\ GeoNext /\ UNCHANGED auxVars
  \/ origin = "-" /\ AuxNext /\ UNCHANGED geoVars

Spec == Init /\ [][Next]_<<geoVars, auxVars>>
=============================================================================
