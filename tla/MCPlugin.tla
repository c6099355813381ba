------------------------------ MODULE MCPlugin ------------------------------
(***************************************************************************)
(* Instantiates Plugin for TLC: one compiled-in plugin and two Load        *)
(* entries, two stage lists (20 and 40 stand for all five: each list is    *)
(* built and run by the same code).                                        *)
(***************************************************************************)
EXTENDS Plugin

CONSTANTS s1, d1, d2

MCStaticList == <<s1>>
MCLoadConf == <<d1, d2>>
MCStages == {20, 40}

=============================================================================
