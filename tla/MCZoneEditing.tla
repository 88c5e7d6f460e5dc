---------------------------- MODULE MCZoneEditing ----------------------------
(* ZoneEditing instantiated for TLC: editors are interchangeable requests. *)
EXTENDS ZoneEditing, TLC

CONSTANTS e1, e2, r1

EditorSymmetry == Permutations(Editors)

\* States that differ only in the replies readers last built (obs) have the
\* same successors: no action reads obs.  Runs whose properties do not
\* mention obs identify such states.
StoreView == <<zoneExists, lastMod, active, recs, nextId, now, ed, q, deleted,
               secrets, nextSecret, revoked>>

=============================================================================
