-------------------------- MODULE MCSchemeFallback --------------------------
(* SchemeFallback.tla for TLC: a site on a port of its own that may or may *)
(* not answer by https, one on default ports that http always reaches, a  *)
(* dead one with an HSTS policy, and a tracker too small for their keys.   *)
EXTENDS SchemeFallback

CONSTANTS l1, l2, port, retro, dead

MCOutcomes ==
    [site \in Sites |->
        CASE site = port -> [http |-> {"error"}, https |-> {"ok", "timeout"}]
          [] site = retro -> [http |-> {"ok"}, https |-> {"ok", "error"}]
          [] OTHER -> [http |-> {"error"}, https |-> {"timeout"}]]
LoadSymmetry == Permutations(Loads)
=============================================================================
