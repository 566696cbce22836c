------------------------------ MODULE MCRules ------------------------------
(* An instance of RuleBuilder with three templates, two of built-in types. *)
EXTENDS RuleBuilder

MCGallery == {t \in RuleTemplates : t[1] \in {"early-booking", "deposit", "group-composition"}}
=============================================================================
