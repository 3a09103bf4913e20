---------------------------- MODULE MCMultiPump ----------------------------
(* Two sources that share UID 1, with one target mailbox or with two *)
EXTENDS MultiPump

CONSTANTS yahoo, gmail, INBOX, Junk

OneTarget  == [s \in {yahoo, gmail} |-> INBOX]
TwoTargets == [s \in {yahoo, gmail} |-> IF s = yahoo THEN INBOX ELSE Junk]
TwoAndOne  == [s \in {yahoo, gmail} |-> IF s = yahoo THEN {1, 2} ELSE {1}]
============================================================================
