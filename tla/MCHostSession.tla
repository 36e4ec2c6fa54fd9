---------------------------- MODULE MCHostSession ----------------------------
(* Constants for the run of HostSession. *)
EXTENDS HostSession, TLC

CONSTANTS s1, s2, p1, p2, ctrl, ctrlByCode, ctrlByNumber

\* Ctrl under two names: by its physical code, and by the number an old viewer sends.
MCKeyTable == ctrlByCode :> ctrl
MCLegacy == (ctrlByCode :> 17) @@ (ctrlByNumber :> ctrl)
MCCodes == {ctrl, 17}

\* The sessions and the peers are alike.
Alike == Permutations({s1, s2}) \union Permutations({p1, p2})
=============================================================================
