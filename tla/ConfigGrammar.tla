---------------------------- MODULE ConfigGrammar ----------------------------
(***************************************************************************)
(* The language of configuration files, as ConfigParser.y writes it down:  *)
(* its productions, and what may still follow a part of a file. Symbols    *)
(* are bison's numbers; from $accept on they are nonterminals.             *)
(***************************************************************************)
EXTENDS Naturals, Sequences

accept          == 14
body            == 15
bodyopening     == 16
section         == 17
sectionname     == 18
sectioncontent  == 19
assignment      == 20
assignname      == 21
assignval       == 22
assignliststart == 23
assignlist      == 24

Productions == <<
  {<<body, 0>>},                                                     \* $accept
  {<<>>, <<bodyopening, sectioncontent, 4>>},                        \* body
  {<<3>>},                                                           \* bodyopening
  {<<sectionname, 3, sectioncontent, 4>>},                           \* section
  {<<10>>},                                                          \* sectionname
  {<<>>, <<assignment, sectioncontent>>, <<section, sectioncontent>>},  \* sectioncontent
  {<<assignname, 8, assignval, 9>>},                                 \* assignment
  {<<10>>},                                                          \* assignname
  {<<11>>, <<12>>, <<assignliststart, assignlist, 7>>},              \* assignval
  {<<5>>},                                                           \* assignliststart
  {<<assignval>>, <<assignval, 6, assignlist>>} >>                   \* assignlist

\* All ways to expand the nonterminals in front of a sentential form, until a token is in front.
Expand[form \in Seq(0 .. assignlist)] ==
  IF form = <<>> \/ Head(form) < accept THEN {form}
  ELSE UNION {Expand[rhs \o Tail(form)] : rhs \in Productions[Head(form) - accept + 1]}

\* The forms that are left when a token was matched; none, if no file goes on with it.
After(forms, token) ==
  {Tail(form) : form \in {f \in UNION {Expand[f] : f \in forms} : Head(f) = token}}

Start == {<<accept>>}
Sentence(forms) == forms = {<<>>}

=============================================================================
