---------------------------- MODULE Configuration ----------------------------
(***************************************************************************)
(* Configuration objects: parseFile() takes the tree that the parser built *)
(* in its global variables, the destructor frees it, and the get functions *)
(* look values up in it. A path is a sequence of numbers, 0 for a colon    *)
(* and a lexeme's position for a piece of a name.                          *)
(***************************************************************************)
EXTENDS ConfigParser

VARIABLES
  configurations,  \* every Configuration ever made: [alive, m_rootNode]
  freed            \* the nodes that were deleted

configVars == <<configurations, freed>>

ConfigInit == ParseInit /\ configurations = <<>> /\ freed = {}

Nodes == DOMAIN nodes

\* The nodes of the tree below a node; a child is always younger than its parent.
Tree(root) ==
  LET Below[n \in Nodes] == {n} \cup UNION {Below[c] : c \in Range(nodes[n].children)}
  IN IF root = 0 THEN {} ELSE Below[root]

-----------------------------------------------------------------------------
(* Life of a Configuration. *)

Construct == Append(configurations, [alive |-> TRUE, m_rootNode |-> 0])

\* The destructor frees the tree; the pointer may be 0.
Delete(c) ==
  IF c = 0 THEN UNCHANGED configVars
  ELSE /\ configurations' = [configurations EXCEPT ![c].alive = FALSE]
       /\ freed' = freed \cup Tree(configurations[c].m_rootNode)

MutantThrows == yyresult # 0

\* parseFile() after yyparse(): what it throws, and what it does to its object. An older tree is
\* forgotten, not freed; the tree of a failed parse is nobody's.
Throws == yyresult # 0 \/ rootSection = 0

TakeTree(c) ==
  IF yyresult = 0 THEN [configurations EXCEPT ![c].m_rootNode = rootSection] ELSE configurations

-----------------------------------------------------------------------------
(* Lookup. *)

\* The first child of that name, 0 if there is none. A value has no children. Node 0 stands for the
\* return in the middle of a path; nobody is assumed to look something up where there is no tree.
Child(node, name) ==
  LET children == nodes[node].children
      named    == {i \in DOMAIN children : nodes[children[i]].nodeName = name}
  IN IF node = 0 \/ named = {} THEN 0 ELSE children[Min(named)]

MutantWalk(at, element) ==
  IF element = 0 THEN [at EXCEPT !.current = Child(at.current, at.name)] ELSE [at EXCEPT !.name = Append(@, element)]

\* One more element of the path: a colon ends the name before it.
Walk(at, element) ==
  IF element = 0 THEN [current |-> Child(at.current, at.name), name |-> <<>>]
  ELSE [at EXCEPT !.name = Append(@, element)]

traversePath(root, nodePath) ==
  LET path == IF nodePath # <<>> /\ Head(nodePath) = 0 THEN Tail(nodePath) ELSE nodePath
      at[i \in 0 .. Len(path)] ==
        IF i = 0 THEN [current |-> root, name |-> <<>>] ELSE Walk(at[i - 1], path[i])
      end  == at[Len(path)]
  IN IF end.name = <<>> THEN end.current ELSE Child(end.current, end.name)

TypeAt(root, path) ==
  LET node == traversePath(root, path) IN IF node = 0 THEN "NONE" ELSE nodes[node].nodeType

getString(root, path, default) ==
  IF TypeAt(root, path) = "VALUE" THEN nodes[traversePath(root, path)].value ELSE default

\* What these two return; for other nodes they throw.
getStringList(root, path) ==
  IF TypeAt(root, path) = "LIST" THEN nodes[traversePath(root, path)].valueList ELSE <<"throws">>

enumerateSubkeys(root, path) ==
  LET children == nodes[traversePath(root, path)].children
  IN IF TypeAt(root, path) = "SECTION"
     THEN [i \in DOMAIN children |-> nodes[children[i]].nodeName] ELSE <<"throws">>

hasSubkeys(root, path) ==
  TypeAt(root, path) = "SECTION" /\ nodes[traversePath(root, path)].children # <<>>

-----------------------------------------------------------------------------
(* What parsing promises. *)

Accepted == pc = "return" /\ yyresult = 0

(* The tables decide the grammar: a parse ends without an error exactly if what was scanned is a *)
(* sentence of it, however the tokens fall between reductions that look ahead and those that do  *)
(* not. Only a stack that may grow no more is an error of another kind.                          *)
GrammarDecides ==
  pc = "return" /\ yyresult # 2 => (yyresult = 0 <=> Grammar!Sentence(forms))

(* As long as no parse fails or leaves a comment or a string open, each parse reads its own file *)
(* and, to accept it, reads it to the end, although nobody tells the scanner that a new file has *)
(* been opened: the buffer is empty and asks for more just when one begins.                      *)
CleanParse ==
  clean /\ pc = "return" => files \subseteq {yyin} /\ (yyresult = 0 => ~unread)

\* The tokens that stand for a subtree, lists flattened.
Listing(root) ==
  LET Values(n) == IF nodes[n].nodeType = "LIST" THEN nodes[n].valueList ELSE <<nodes[n].value>>
      List[n \in Nodes] ==
        IF nodes[n].nodeType = "SECTION"
        THEN << <<-3>> >> \o FlattenSeq([i \in DOMAIN nodes[n].children |->
               <<nodes[nodes[n].children[i]].nodeName>> \o List[nodes[n].children[i]]]) \o << <<-4>> >>
        ELSE << <<-8>> >> \o Values(n) \o << <<-9>> >>
  IN List[root]

(* The tree of an accepted file says what the file says: every section and assignment at its     *)
(* place, in order, with its own name and values, although all strings pass through one buffer   *)
(* and the current section and value through two globals.                                        *)
TreeIsTheFile ==
  Accepted /\ rootSection # 0 => Listing(rootSection) = tokens

\* The trees of the Configurations that exist.
Roots == {configurations[c].m_rootNode : c \in {c \in DOMAIN configurations : configurations[c].alive}} \ {0}

(* A Configuration's tree is its own and stays alive as long as it does: no later parse, failed  *)
(* or empty, and no destruction of another one, frees or takes a part of it.                     *)
TreesAreAlive ==
  /\ \A root \in Roots : Tree(root) \cap freed = {}
  /\ \A c, d \in DOMAIN configurations :
       c # d /\ configurations[c].alive /\ configurations[d].alive =>
         Tree(configurations[c].m_rootNode) \cap Tree(configurations[d].m_rootNode) = {}

\* The names on the way to each node of a tree.
Paths(root) ==
  LET From[n \in Nodes] ==
        {[node |-> n, path |-> <<>>]} \cup
        UNION {{[p EXCEPT !.path = <<0>> \o nodes[c].nodeName \o @] : p \in From[c]} : c \in Range(nodes[n].children)}
  IN From[root]

(* Every value is found under its path, with and without a colon in front, and so is its type;   *)
(* nothing is found below a value. The names that are enumerated lead on to the children.        *)
EveryValueIsFound ==
  \A root \in Roots : \A p \in Paths(root) :
    /\ traversePath(root, p.path) = p.node
    /\ p.path # <<>> => traversePath(root, Tail(p.path)) = p.node
    /\ TypeAt(root, p.path) = "VALUE" => getString(root, p.path \o <<0>> \o <<1>>, <<>>) = <<>>
    /\ TypeAt(root, p.path) = "SECTION" => \A i \in DOMAIN nodes[p.node].children :
         /\ hasSubkeys(root, p.path)
         /\ traversePath(root, p.path \o <<0>> \o enumerateSubkeys(root, p.path)[i]) = nodes[p.node].children[i]

=============================================================================
