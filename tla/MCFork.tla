------------------------------- MODULE MCFork -------------------------------
(* Fork for TLC.  Frames are interchangeable, and what is in a free one is  *)
(* never read since every allocation clears it: two states are the same if *)
(* the same pages share a frame and have the same contents.                *)
EXTENDS Fork

Sharing(p) == {x \in Envs \X VAs : tab[x[1]][x[2]] = p}

View == <<[e \in Envs |-> [v \in VAs |->
             IF tab[e][v] = None THEN None ELSE <<val[tab[e][v]], Sharing(tab[e][v])>>]],
          perm, at, forkVars, pfVars, regVars>>
=============================================================================
