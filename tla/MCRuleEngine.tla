---------------------------- MODULE MCRuleEngine ----------------------------
(* The finite instance of RuleEngine for TLC.  No symmetry: StaleRulesRunOut *)
(* is a liveness property.                                                   *)
EXTENDS RuleEngine
=============================================================================
