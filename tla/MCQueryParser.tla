--------------------------- MODULE MCQueryParser ---------------------------
(***************************************************************************)
(* Every query of up to six characters over one of each kind: a quote, a   *)
(* blank, an uppercase letter, an underscore, a letter of two bytes, and a *)
(* sign that is trimmed.                                                   *)
(***************************************************************************)
EXTENDS QueryParser

CONSTANT MaxCharacters

Alphabet == {Quote, 32, 65, Underscore, 233, 46}
MCQueries == UNION {[1 .. n -> Alphabet] : n \in 0 .. MaxCharacters}
=============================================================================
