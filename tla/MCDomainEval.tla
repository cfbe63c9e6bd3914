----------------------------- MODULE MCDomainEval -----------------------------
(* An instance of DomainEval for TLC: two versions of the configuration,     *)
(* with other prompts and another boundary.                                 *)
EXTENDS DomainEval

TwoPrompts == <<1, 2>>
TwoBoundaries == <<33, 34>>
=============================================================================
