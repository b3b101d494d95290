--------------------------- MODULE MCPatternMatch ---------------------------
(***************************************************************************)
(* Two candidates: one with a pattern of a literal and an optional typed   *)
(* element and another, one with a literal; a nested candidate of a choice.  *)
(***************************************************************************)
EXTENDS PatternMatch

Lit  == [kind |-> "literal", parts |-> <<>>]
Type == [kind |-> "type", parts |-> <<>>]
Option(elems) == [kind |-> "option", parts |-> <<elems>>]
Choice(a, b)  == [kind |-> "choice", parts |-> <<a, b>>]

MCElements == {Lit, Type, Option(<<Type>>), Choice(<<Lit>>, <<Lit>>)}
MCPatterns ==
    << << << <<Option(<<Type>>), Lit>>, <<Lit>> >>, << <<Lit>> >> >>,
       << << <<Choice(<<Lit>>, <<Lit>>)>> >> >> >>
FlatPatterns == << << << <<Lit>>, <<Lit>> >>, << <<Lit>> >> >> >>
=============================================================================
