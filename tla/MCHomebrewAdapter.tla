-------------------------- MODULE MCHomebrewAdapter --------------------------
(* One store of each kind, a keg with its receipt, a cask with a directory.  *)
EXTENDS HomebrewAdapter

CONSTANTS cask1, version1, keg, receipt

MCCasks == {cask1}
MCInner == [c \in MCCasks |-> {version1}]
MCReceipt == [k \in {keg} |-> receipt]
=============================================================================
